--------------------------- MODULE DatapathProofs ---------------------------
(* Proofs about one site's packet path, for every number of workers, slots,*)
(* ports, connections and frames, every capacity and any traffic.          *)
EXTENDS Datapath, Integers, FiniteSetsExt, FiniteSetTheorems, SequenceTheorems,
        WellFoundedInduction, TLAPS

(***************************************************************************)
(* The least of some naturals, the greatest of bounded ones: what Min and  *)
(* Max of the community modules return.                                    *)
(***************************************************************************)

LEMMA LeastNat ==
  ASSUME NEW T, T \subseteq Nat, T # {}
  PROVE  \E m \in T : \A k \in T : m <= k
<1> DEFINE R == OpToRel(<, Nat)
<1>1. IsWellFoundedOn(R, Nat) /\ R = {s \in Nat \X Nat : s[1] < s[2]}
  BY NatLessThanWellFounded, Zenon DEF OpToRel
<1> HIDE DEF R
<1>2. PICK m \in T : \A k \in T : <<k, m>> \notin R
  BY <1>1, WFMin
<1>3. \A k \in T : ~(k < m)
  BY <1>1, <1>2
<1> QED
  BY <1>2, <1>3

LEMMA MinIsLeast ==
  ASSUME NEW T, T \subseteq Nat, T # {}
  PROVE  Min(T) \in T /\ \A y \in T : Min(T) <= y
BY LeastNat DEF Min

LEMMA MaxIsGreatest ==
  ASSUME NEW n \in Nat, NEW T, T \subseteq 0..n, T # {}
  PROVE  Max(T) \in T /\ \A y \in T : Max(T) >= y
<1>1. PICK S : S = {n - x : x \in T}
  OBVIOUS
<1>2. S \subseteq Nat /\ S # {}
  <2>1. \A x \in T : n - x \in Nat
    OBVIOUS
  <2> QED
    BY <1>1, <2>1
<1>3. PICK m \in S : \A k \in S : m <= k
  BY <1>2, LeastNat
<1>4. PICK x \in T : m = n - x
  BY <1>1, <1>3
<1>5. \A y \in T : n - y \in S
  BY <1>1
<1>6. \A y \in T : x >= y
  BY <1>3, <1>4, <1>5
<1> QED
  BY <1>4, <1>6 DEF Max

----------------------------------------------------------------------------
Id == Conn \X Nat
Half == Id \cup {NoHalf}

(* What the queues, rings and hands hold.                                  *)
DataJob == [pc : {"data"}, f : Frame, k : Tunnelled, n : Nat, big : BOOLEAN, slot : TxSlot]
ArpJob == [pc : LanArps, f : Frame]
RxJob == [pc : {"insert"}, f : Frame, k : Tunnelled, n : Nat, big : BOOLEAN]
EncryptJob == [pc : {"encrypt"}, f : Frame, k : Tunnelled, n : Nat, big : BOOLEAN, slot : TxSlot]
EmitJob == [pc : {"insert"}, f : Frame, k : Tunnelled, first : Half, second : Half]
DataPkt == [part : {"first", "second", "full"}, k : Tunnelled, worker : Worker,
            epoch : Nat, dg : Nat, seq : Nat, id : Id]
ArpPkt == [part : WanArps, k : Bypass, worker : Worker, id : Id]
PlainPkt == [part : {"plain"}, k : Bypass, worker : Worker, id : Id]
HeldItem == [f : Frame, k : Tunnelled, first : Half, second : Half]
WanTx == [f : Frame, k : Conn, part : {"plain", "full"}]
         \cup [f : Frame, part : {"first", "second"}] \cup [f : Frame]
LanTx == [f : Frame, first : Half, second : Half] \cup [f : Frame]
FragEntry == [epoch : Nat, dg : Nat, seq : Nat, first : Half, second : Half,
              old : BOOLEAN, age : 0..TableSize]
Home == [worker : Worker, slot : TxSlot]
Fallback == [key : Conn, next : Nat]

(* The variables hold what their comments say.                             *)
RouteType ==
  /\ table \in Seq(RouteEntry) /\ workerRr \in Worker
  /\ fb \in [Worker -> Seq(Fallback)]
QueueType ==
  /\ lanQ \in [Worker -> Seq(DataJob \cup ArpJob)]
  /\ wanQ \in [Worker -> Seq([f : Frame, p : DataPkt \cup ArpPkt])]
  /\ toWan \in [TxSlot -> Seq(WanTx)]
  /\ toLan \in [Port \X TxSlot -> Seq(LanTx)]
CurType ==
  /\ cur = [t \in Thread |-> cur[t]]
  /\ cur[LanRx] = <<>> \/ \E j \in RxJob : cur[LanRx] = <<j>>
  /\ \A w \in Worker : cur[w] = <<>> \/ \E j \in EncryptJob \cup EmitJob : cur[w] = <<j>>
WorkType ==
  /\ held \in [Worker -> SUBSET HeldItem]
  /\ tails \in [Worker -> SUBSET Frame]
  /\ reasm \in [Worker -> [FragSlot -> FragEntry]]
WorldType ==
  /\ net \subseteq DataPkt \cup ArpPkt \cup PlainPkt
  /\ peer \in [epoch : Nat, clock : [Worker -> Nat], seq : [Conn -> Nat], sent : Nat]
  /\ came \in [lan : Nat, fault : Nat]
  /\ homes \in [Conn -> SUBSET Home]
  /\ given \in [Conn -> Seq(Nat \X Nat)]
DataType == RouteType /\ QueueType /\ CurType /\ WorkType /\ WorldType

----------------------------------------------------------------------------
(* Numbers.                                                                *)

(* The constants that are numbers.                                         *)
LEMMA Sizes_ ==
  /\ NWorker \in Nat /\ NWorker > 0 /\ NSlot \in Nat /\ NSlot > 0 /\ NPort \in Nat
  /\ Ways \in Nat /\ Ways > 0 /\ FbWays \in Nat /\ FbWays > 0
  /\ TableSize \in Nat /\ TableSize > 0 /\ Probe \in 1..TableSize
  /\ 0 \in TxSlot /\ NoHint \notin Worker /\ LanRx \notin Worker
  /\ Worker = 0..(NWorker - 1) /\ TxSlot = 0..(NSlot - 1) /\ FragSlot = 0..(TableSize - 1)
  BY RouteAssumption, FragAssumption, DatapathAssumption
     DEF Worker, TxSlot, FragSlot, NoHint, LanRx

(* Remainders are below the divisor.                                       *)
LEMMA Mod_ == ASSUME NEW a \in Nat, NEW d \in Nat, d > 0 PROVE a % d \in 0..(d - 1)
  OBVIOUS

(* The canonical hash is a worker and a slot.                              *)
LEMMA CanonicalType == ASSUME NEW k \in Conn PROVE Canonical(k) \in Home
<1>1. Hash[k] \in Nat
  BY RouteAssumption
<1>2. Hash[k] % NWorker \in Worker /\ Hash[k] % NSlot \in TxSlot
  BY <1>1, Sizes_, Mod_
<1> QED
  BY <1>2 DEF Canonical, Home

(* The search for the least loaded returns one it was to choose from.      *)
LEMMA LeastLoadedType ==
  ASSUME NEW n \in Nat, n > 0, NEW start \in Nat, NEW count \in [0..(n - 1) -> Nat]
  PROVE  LeastLoaded(count, n, start) \in 0..(n - 1)
<1> DEFINE I == 0..(n - 1)
           Pos(i) == (start + i) % n
           L == {count[Pos(i)] : i \in I}
<1>1. \A i \in I : Pos(i) \in I
  <2>1. SUFFICES ASSUME NEW i \in I PROVE Pos(i) \in I
    OBVIOUS
  <2>2. start + i \in Nat
    OBVIOUS
  <2> QED
    BY <2>2, Mod_
<1>2. \A i \in I : count[Pos(i)] \in Nat
  <2> HIDE DEF Pos
  <2> QED
    BY <1>1
<1>3. 0 \in I /\ I \subseteq Nat
  OBVIOUS
<1>4. L # {} /\ L \subseteq Nat
  <2> HIDE DEF Pos, I
  <2> QED
    BY <1>2, <1>3
<1>5. Min(L) \in L /\ \A y \in L : Min(L) <= y
  <2> HIDE DEF L
  <2> QED
    BY <1>4, MinIsLeast
<1> DEFINE B == {i \in I : count[Pos(i)] = Min(L)}
<1>6. B # {} /\ B \subseteq Nat
  <2> HIDE DEF Pos, I
  <2> QED
    BY <1>3, <1>5
<1>7. Min(B) \in B /\ \A y \in B : Min(B) <= y
  <2> HIDE DEF B
  <2> QED
    BY <1>6, MinIsLeast
<1> DEFINE Better(b, j) == \/ count[Pos(b)] < count[Pos(j)]
                           \/ count[Pos(b)] = count[Pos(j)] /\ b <= j
<1>8. \A j \in I : Better(Min(B), j)
  <2>1. SUFFICES ASSUME NEW j \in I PROVE Better(Min(B), j)
    OBVIOUS
  <2>2. count[Pos(Min(B))] = Min(L) /\ Min(B) \in I
    BY <1>7
  <2>3. Min(L) <= count[Pos(j)]
    BY <1>5
  <2>4. count[Pos(j)] = Min(L) => Min(B) <= j
    BY <1>7
  <2>5. count[Pos(j)] \in Int /\ Min(L) \in Int
    <3>1. count[Pos(j)] \in Nat
      BY <1>2
    <3>2. Min(L) \in Nat
      <4> HIDE DEF L
      <4> QED
        BY <1>4, <1>5
    <3> QED
      BY <3>1, <3>2
  <2> HIDE DEF B, L, Pos
  <2> QED
    BY <2>2, <2>3, <2>4, <2>5
<1> DEFINE best == CHOOSE b \in I : \A j \in I : Better(b, j)
<1>9. \E b \in I : \A j \in I : Better(b, j)
  <2>1. Min(B) \in I
    BY <1>7
  <2> HIDE DEF B, Better, I
  <2> QED
    BY <2>1, <1>8
<1>10. best \in I
  <2> HIDE DEF Better, I
  <2> QED
    BY <1>9
<1>11. LeastLoaded(count, n, start) = Pos(best)
  BY Zenon DEF LeastLoaded
<1> QED
  <2> HIDE DEF best, Pos
  <2> QED
    BY <1>1, <1>10, <1>11

----------------------------------------------------------------------------
(* The route table and the list of fallback numbers.                       *)

(* A set of positions of a sequence has a least one.                       *)
LEMMA LeastPosition ==
  ASSUME NEW S, NEW s \in Seq(S), NEW T, T \subseteq DOMAIN s, T # {}
  PROVE  Min(T) \in T /\ Min(T) \in 1..Len(s) /\ \A i \in T : Min(T) <= i
<1>1. DOMAIN s = 1..Len(s) /\ Len(s) \in Nat
  BY LenProperties
<1>2. T \in SUBSET (1..Len(s)) /\ T \subseteq Nat
  BY <1>1
<1>3. Min(T) \in T /\ \A i \in T : Min(T) <= i
  BY <1>2, MinIsLeast
<1> QED
  BY <1>2, <1>3

(* The way of a known connection.                                          *)
LEMMA WayFacts ==
  ASSUME RouteType, NEW k, Known(k)
  PROVE  /\ WayOf(k) \in 1..Len(table) /\ WayOf(k) \in WaysOf(k)
         /\ table[WayOf(k)] \in RouteEntry /\ table[WayOf(k)].key = k
<1>1. table \in Seq(RouteEntry) /\ WaysOf(k) # {} /\ WaysOf(k) \subseteq DOMAIN table
  BY DEF RouteType, Known, WaysOf
<1>2. WayOf(k) \in WaysOf(k) /\ WayOf(k) \in 1..Len(table)
  BY <1>1, LeastPosition DEF WayOf
<1> QED
  BY <1>1, <1>2 DEF WaysOf

(* What the route lookup returns is a worker and a slot.                   *)
LEMMA RouteIsHome ==
  ASSUME RouteType, NEW k, Known(k)
  PROVE  Route(k) \in Home
<1>1. table[WayOf(k)] \in RouteEntry
  BY WayFacts
<1> QED
  BY <1>1 DEF Route, RouteEntry, Home

LEMMA NewEntryType ==
  ASSUME RouteType, NEW k \in Conn, NEW hint \in Thread
  PROVE  /\ NewEntry(k, hint) \in RouteEntry /\ NewEntry(k, hint).key = k
         /\ NewEntry(k, hint).seq = 0
         /\ [worker |-> NewEntry(k, hint).worker, slot |-> NewEntry(k, hint).slot] \in Home
<1>1. table \in Seq(RouteEntry) /\ Len(table) \in Nat /\ workerRr \in Nat
  BY Sizes_, LenProperties DEF RouteType
<1>2. IsFiniteSet(1..Len(table)) /\ DOMAIN table = 1..Len(table)
  <2>1. 1 \in Int /\ Len(table) \in Int
    BY <1>1
  <2> QED
    BY <1>1, <2>1, FS_Interval, LenProperties
<1>3. OnWorker \in [0..(NWorker - 1) -> Nat]
  <2>1. ASSUME NEW w PROVE Cardinality({i \in DOMAIN table : table[i].worker = w}) \in Nat
    <3>1. {i \in DOMAIN table : table[i].worker = w} \in SUBSET (1..Len(table))
      BY <1>2
    <3> QED
      BY <3>1, <1>2, FS_Subset, FS_CardinalityType
  <2> QED
    BY <2>1, Sizes_ DEF OnWorker
<1>4. OnSlot \in [0..(NSlot - 1) -> Nat]
  <2>1. ASSUME NEW w PROVE Cardinality({i \in DOMAIN table : table[i].slot = w}) \in Nat
    <3>1. {i \in DOMAIN table : table[i].slot = w} \in SUBSET (1..Len(table))
      BY <1>2
    <3> QED
      BY <3>1, <1>2, FS_Subset, FS_CardinalityType
  <2> QED
    BY <2>1, Sizes_ DEF OnSlot
<1>5. workerRr % NWorker \in Nat /\ Len(table) % NSlot \in Nat
  BY <1>1, Sizes_
<1>6. LeastLoaded(OnWorker, NWorker, workerRr % NWorker) \in Worker
  BY <1>3, <1>5, Sizes_, LeastLoadedType
<1>7. LeastLoaded(OnSlot, NSlot, Len(table) % NSlot) \in TxSlot
  BY <1>4, <1>5, Sizes_, LeastLoadedType
<1>8. hint # NoHint => hint \in Worker
  BY DEF Thread
<1> QED
  BY <1>6, <1>7, <1>8 DEF NewEntry, RouteEntry, Home

LEMMA RoutedType ==
  ASSUME RouteType, NEW k \in Conn, NEW hint \in Thread
  PROVE  Routed(k, hint) \in Home
  BY RouteIsHome, NewEntryType, CanonicalType DEF Routed

(* Entering a connection.                                                  *)
LEMMA InsertFacts ==
  ASSUME RouteType, NEW k \in Conn, NEW hint \in Thread, Insert(k, hint)
  PROVE  /\ table' \in Seq(RouteEntry) /\ workerRr' \in Worker
         /\ table' = table \/ (~Known(k) /\ Len(table) < Ways
                               /\ table' = Append(table, NewEntry(k, hint)))
<1>1. table \in Seq(RouteEntry) /\ workerRr \in Worker /\ workerRr \in Nat
  BY Sizes_ DEF RouteType
<1>2. (workerRr + 1) % NWorker \in Worker
  <2>1. workerRr + 1 \in Nat
    BY <1>1
  <2> QED
    BY <2>1, Sizes_, Mod_
<1>3. NewEntry(k, hint) \in RouteEntry
  BY NewEntryType
<1>4. CASE ~Known(k) /\ Len(table) < Ways
  <2>1. /\ table' = Append(table, NewEntry(k, hint))
        /\ workerRr' = workerRr \/ workerRr' = (workerRr + 1) % NWorker
    BY <1>4 DEF Insert
  <2> QED
    BY <2>1, <1>1, <1>2, <1>3, <1>4
<1>5. CASE ~(~Known(k) /\ Len(table) < Ways)
  <2>1. table' = table /\ workerRr' = workerRr
    BY <1>5 DEF Insert
  <2> QED
    BY <2>1, <1>1
<1> QED
  BY <1>4, <1>5

(* A sequence without one of its elements.                                 *)
LEMMA RemoveFacts ==
  ASSUME NEW S, NEW s \in Seq(S), NEW i \in 1..Len(s)
  PROVE  /\ RemoveAt(s, i) \in Seq(S) /\ Len(RemoveAt(s, i)) = Len(s) - 1
         /\ \A j \in 1..(Len(s) - 1) : RemoveAt(s, i)[j] = IF j < i THEN s[j] ELSE s[j + 1]
<1>1. Len(s) \in Nat /\ \A j \in 1..Len(s) : s[j] \in S
  BY LenProperties, ElementOfSeq
<1> DEFINE a == SubSeq(s, 1, i - 1)
           b == SubSeq(s, i + 1, Len(s))
<1>2. a \in Seq(S) /\ Len(a) = i - 1 /\ \A j \in 1..(i - 1) : a[j] = s[j]
  <2>1. 1 \in Int /\ i - 1 \in Int /\ \A j \in 1..(i - 1) : s[j] \in S
    BY <1>1
  <2>2. /\ a \in Seq(S) /\ Len(a) = IF 1 <= i - 1 THEN (i - 1) - 1 + 1 ELSE 0
        /\ \A j \in 1..((i - 1) - 1 + 1) : a[j] = s[1 + j - 1]
    BY <2>1, SubSeqProperties
  <2> HIDE DEF a
  <2> QED
    BY <2>2, <1>1
<1>3. b \in Seq(S) /\ Len(b) = Len(s) - i /\ \A j \in 1..(Len(s) - i) : b[j] = s[i + j]
  <2>1. i + 1 \in Int /\ Len(s) \in Int /\ \A j \in (i + 1)..Len(s) : s[j] \in S
    BY <1>1
  <2>2. /\ b \in Seq(S) /\ Len(b) = IF i + 1 <= Len(s) THEN Len(s) - (i + 1) + 1 ELSE 0
        /\ \A j \in 1..(Len(s) - (i + 1) + 1) : b[j] = s[(i + 1) + j - 1]
    BY <2>1, SubSeqProperties
  <2> HIDE DEF b
  <2> QED
    BY <2>2, <1>1
<1>4. RemoveAt(s, i) = a \o b
  BY DEF RemoveAt
<1> HIDE DEF a, b
<1>5. /\ a \o b \in Seq(S) /\ Len(a \o b) = Len(a) + Len(b)
      /\ \A j \in 1..(Len(a) + Len(b)) : (a \o b)[j] = IF j <= Len(a) THEN a[j] ELSE b[j - Len(a)]
  BY <1>2, <1>3, ConcatProperties
<1>6. ASSUME NEW j \in 1..(Len(s) - 1)
      PROVE  (a \o b)[j] = IF j < i THEN s[j] ELSE s[j + 1]
  <2>1. CASE j < i
    BY <2>1, <1>1, <1>2, <1>3, <1>5
  <2>2. CASE ~(j < i)
    <3>1. (a \o b)[j] = b[j - (i - 1)]
      BY <2>2, <1>1, <1>2, <1>3, <1>5
    <3>2. j - (i - 1) \in 1..(Len(s) - i) /\ i + (j - (i - 1)) = j + 1
      BY <2>2, <1>1
    <3> QED
      BY <2>2, <3>1, <3>2, <1>3
  <2> QED
    BY <2>1, <2>2
<1> QED
  BY <1>1, <1>2, <1>3, <1>4, <1>5, <1>6

(* The list of fallback numbers without the entry that has to go.          *)
Kept(w, k) ==
  IF FbWaysOf(w, k) # {} THEN RemoveAt(fb[w], Min(FbWaysOf(w, k)))
  ELSE IF Len(fb[w]) < FbWays THEN fb[w] ELSE Tail(fb[w])

(* Numbering a datagram.                                                   *)
LEMMA NextSeqType ==
  ASSUME RouteType, NEW w \in Worker, NEW k \in Conn
  PROVE  /\ NextSeq(w, k) \in Nat
         /\ FbWaysOf(w, k) # {} => /\ Min(FbWaysOf(w, k)) \in 1..Len(fb[w])
                                   /\ fb[w][Min(FbWaysOf(w, k))].key = k
                                   /\ \A i \in FbWaysOf(w, k) : Min(FbWaysOf(w, k)) <= i
<1>1. fb[w] \in Seq(Fallback) /\ FbWaysOf(w, k) \subseteq DOMAIN fb[w]
  BY DEF RouteType, FbWaysOf
<1>2. FbWaysOf(w, k) # {} =>
        /\ Min(FbWaysOf(w, k)) \in FbWaysOf(w, k) /\ Min(FbWaysOf(w, k)) \in 1..Len(fb[w])
        /\ \A i \in FbWaysOf(w, k) : Min(FbWaysOf(w, k)) <= i
  BY <1>1, LeastPosition
<1>3. FbWaysOf(w, k) # {} => fb[w][Min(FbWaysOf(w, k))] \in Fallback
  BY <1>1, <1>2, ElementOfSeq
<1>4. Known(k) => table[WayOf(k)].seq \in Nat
  BY WayFacts DEF RouteEntry
<1>5. NextSeq(w, k) \in Nat
  BY <1>3, <1>4 DEF NextSeq, Fallback
<1>6. FbWaysOf(w, k) # {} => fb[w][Min(FbWaysOf(w, k))].key = k
  BY <1>2 DEF FbWaysOf
<1> QED
  BY <1>2, <1>5, <1>6

LEMMA KeptType ==
  ASSUME RouteType, NEW w \in Worker, NEW k \in Conn
  PROVE  Kept(w, k) \in Seq(Fallback)
<1>1. fb[w] \in Seq(Fallback) /\ Len(fb[w]) \in Nat
  BY LenProperties DEF RouteType
<1>2. CASE FbWaysOf(w, k) # {}
  BY <1>1, <1>2, NextSeqType, RemoveFacts DEF Kept
<1>3. CASE FbWaysOf(w, k) = {}
  <2>1. CASE Len(fb[w]) < FbWays
    BY <1>1, <1>3, <2>1 DEF Kept
  <2>2. CASE ~(Len(fb[w]) < FbWays)
    <3>1. fb[w] # <<>>
      BY <1>1, <2>2, Sizes_
    <3>2. Tail(fb[w]) \in Seq(Fallback)
      BY <1>1, <3>1, HeadTailProperties
    <3> QED
      BY <1>3, <2>2, <3>2 DEF Kept
  <2> QED
    BY <2>1, <2>2
<1> QED
  BY <1>2, <1>3

LEMMA CountFacts ==
  ASSUME RouteType, NEW w \in Worker, NEW k \in Conn, Count(w, k)
  PROVE  /\ table' \in Seq(RouteEntry) /\ fb' \in [Worker -> Seq(Fallback)]
         /\ Known(k) =>
              /\ fb' = fb /\ Len(table') = Len(table) /\ NextSeq(w, k) = table[WayOf(k)].seq
              /\ \A i \in 1..Len(table) :
                   table'[i] = IF i = WayOf(k) THEN [table[i] EXCEPT !.seq = @ + 1]
                               ELSE table[i]
         /\ ~Known(k) =>
              /\ table' = table
              /\ fb' = [fb EXCEPT ![w] =
                          Append(Kept(w, k), [key |-> k, next |-> NextSeq(w, k) + 1])]
<1>1. table \in Seq(RouteEntry) /\ fb \in [Worker -> Seq(Fallback)]
  BY DEF RouteType
<1>2. CASE Known(k)
  <2> DEFINE e == [table[WayOf(k)] EXCEPT !.seq = @ + 1]
  <2>1. table' = [table EXCEPT ![WayOf(k)] = e] /\ fb' = fb
    BY <1>2 DEF Count
  <2>2. WayOf(k) \in 1..Len(table) /\ table[WayOf(k)] \in RouteEntry
    BY <1>2, WayFacts
  <2>3. e \in RouteEntry
    BY <2>2 DEF RouteEntry
  <2> HIDE DEF e
  <2>4. /\ table' \in Seq(RouteEntry) /\ Len(table') = Len(table)
        /\ \A i \in 1..Len(table) : table'[i] = IF i = WayOf(k) THEN e ELSE table[i]
    BY <1>1, <2>1, <2>2, <2>3, ExceptSeq
  <2>5. NextSeq(w, k) = table[WayOf(k)].seq
    BY <1>2 DEF NextSeq
  <2> QED
    BY <1>1, <1>2, <2>1, <2>4, <2>5 DEF e
<1>3. CASE ~Known(k)
  <2>1. /\ table' = table
        /\ fb' = [fb EXCEPT ![w] =
                    Append(Kept(w, k), [key |-> k, next |-> NextSeq(w, k) + 1])]
    BY <1>3 DEF Count, Kept
  <2>2. [key |-> k, next |-> NextSeq(w, k) + 1] \in Fallback
    <3>1. NextSeq(w, k) \in Nat
      BY NextSeqType
    <3> QED
      BY <3>1 DEF Fallback
  <2>3. Append(Kept(w, k), [key |-> k, next |-> NextSeq(w, k) + 1]) \in Seq(Fallback)
    BY <2>2, KeptType
  <2> QED
    BY <1>1, <1>3, <2>1, <2>3
<1> QED
  BY <1>2, <1>3

----------------------------------------------------------------------------
(* Queues, packets and halves.                                             *)

(* Taking from a queue of a family, and adding to it.                      *)
LEMMA PopType ==
  ASSUME NEW X, NEW S, NEW q \in [X -> Seq(S)], NEW x \in X, q[x] # <<>>
  PROVE  /\ Head(q[x]) \in S /\ [q EXCEPT ![x] = Tail(@)] \in [X -> Seq(S)]
         /\ Len(q[x]) \in Nat /\ Len(q[x]) > 0 /\ DOMAIN q[x] = 1..Len(q[x])
         /\ Head(q[x]) = q[x][1] /\ Tail(q[x]) \in Seq(S) /\ Len(Tail(q[x])) = Len(q[x]) - 1
         /\ DOMAIN Tail(q[x]) = 1..(Len(q[x]) - 1)
         /\ \A i \in 1..(Len(q[x]) - 1) : Tail(q[x])[i] = q[x][i + 1]
<1>1. q[x] \in Seq(S)
  OBVIOUS
<1>2. /\ Head(q[x]) \in S /\ Tail(q[x]) \in Seq(S) /\ Len(Tail(q[x])) = Len(q[x]) - 1
      /\ \A i \in 1..Len(Tail(q[x])) : Tail(q[x])[i] = q[x][i + 1]
  BY <1>1, HeadTailProperties
<1>3. Len(q[x]) \in Nat /\ Len(q[x]) > 0 /\ DOMAIN q[x] = 1..Len(q[x]) /\ Head(q[x]) = q[x][1]
  <2>1. Len(q[x]) \in Nat /\ DOMAIN q[x] = 1..Len(q[x]) /\ Len(q[x]) # 0
    BY <1>1, LenProperties, EmptySeq
  <2> QED
    BY <2>1, <1>1
<1>4. DOMAIN Tail(q[x]) = 1..(Len(q[x]) - 1)
  BY <1>2, LenProperties
<1>5. [q EXCEPT ![x] = Tail(@)] \in [X -> Seq(S)]
  BY <1>2
<1> QED
  BY <1>2, <1>3, <1>4, <1>5

LEMMA PushType ==
  ASSUME NEW X, NEW S, NEW q \in [X -> Seq(S)], NEW x \in X, NEW j \in S
  PROVE  [q EXCEPT ![x] = Append(@, j)] \in [X -> Seq(S)]
  OBVIOUS

(* What kind of thing a job is.                                            *)
LEMMA JobKinds ==
  /\ \A j \in DataJob \cup ArpJob : j.f \in Frame
  /\ \A j \in DataJob \cup ArpJob : j.pc = "data" => j \in DataJob
  /\ \A j \in DataJob \cup ArpJob : j.pc \in LanArps => j \in ArpJob
  /\ \A j \in EncryptJob \cup EmitJob : j.f \in Frame /\ j.k \in Tunnelled
  /\ \A j \in EncryptJob \cup EmitJob : j.pc = "encrypt" => j \in EncryptJob
  /\ \A j \in EncryptJob \cup EmitJob : j.pc = "insert" => j \in EmitJob
  /\ \A p \in DataPkt \cup ArpPkt : p.part \notin WanArps => p \in DataPkt
  /\ \A p \in DataPkt \cup ArpPkt : p.part \in WanArps => p \in ArpPkt
  /\ \A p \in DataPkt \cup ArpPkt \cup PlainPkt : p.worker \in Worker /\ p.id \in Id
  /\ \A p \in DataPkt \cup ArpPkt \cup PlainPkt : p.part = "plain" <=> p \in PlainPkt
  /\ \A p \in DataPkt \cup ArpPkt \cup PlainPkt :
       p.part # "plain" => p \in DataPkt \cup ArpPkt
<1>1. LanArps \subseteq {"echo", "stray", "lan"} /\ WanArps \subseteq {"flood", "uni"}
  BY DatapathAssumption
<1>2. /\ \A j \in DataJob \cup ArpJob : j.f \in Frame
      /\ \A j \in DataJob \cup ArpJob : j.pc = "data" => j \in DataJob
      /\ \A j \in DataJob \cup ArpJob : j.pc \in LanArps => j \in ArpJob
  BY <1>1 DEF DataJob, ArpJob
<1>3. /\ \A j \in EncryptJob \cup EmitJob : j.f \in Frame /\ j.k \in Tunnelled
      /\ \A j \in EncryptJob \cup EmitJob : j.pc = "encrypt" => j \in EncryptJob
      /\ \A j \in EncryptJob \cup EmitJob : j.pc = "insert" => j \in EmitJob
  BY DEF EncryptJob, EmitJob
<1>4. /\ \A p \in DataPkt \cup ArpPkt : p.part \notin WanArps => p \in DataPkt
      /\ \A p \in DataPkt \cup ArpPkt : p.part \in WanArps => p \in ArpPkt
  BY <1>1 DEF DataPkt, ArpPkt
<1>5. /\ \A p \in DataPkt \cup ArpPkt \cup PlainPkt : p.worker \in Worker /\ p.id \in Id
      /\ \A p \in DataPkt \cup ArpPkt \cup PlainPkt : p.part = "plain" <=> p \in PlainPkt
      /\ \A p \in DataPkt \cup ArpPkt \cup PlainPkt :
           p.part # "plain" => p \in DataPkt \cup ArpPkt
  BY <1>1 DEF DataPkt, ArpPkt, PlainPkt
<1> QED
  BY <1>2, <1>3, <1>4, <1>5

(* The connections of each kind are connections.                           *)
LEMMA Kinds == Tunnelled \subseteq Conn /\ Bypass \subseteq Conn
  BY DatapathAssumption DEF Tunnelled

(* The slot a half is stored in.                                           *)
LEMMA PickFacts ==
  ASSUME NEW t \in [FragSlot -> FragEntry], NEW p \in DataPkt
  PROVE  PickSlot(t, p) \in FragSlot
<1> DEFINE I == 0..(Probe - 1)
<1>1. \A i \in I : At(p, i) \in FragSlot
  <2>1. SUFFICES ASSUME NEW i \in I PROVE At(p, i) \in FragSlot
    OBVIOUS
  <2>2. p.epoch \in Nat /\ p.dg \in Nat
    BY DEF DataPkt
  <2>3. i \in Nat
    BY Sizes_
  <2>4. (p.epoch + p.dg) + i \in Nat
    BY <2>2, <2>3
  <2> QED
    BY <2>4, Sizes_, Mod_ DEF At
<1>2. I # {} /\ I \subseteq Nat
  <2>1. 0 \in I
    BY Sizes_
  <2> QED
    BY <2>1
<1> DEFINE mine == {i \in I : LET e == t[At(p, i)] IN
                      Occupied(e) /\ e.epoch = p.epoch /\ e.dg = p.dg}
           empty == {i \in I : ~Occupied(t[At(p, i)])}
           oldest == {i \in I : \A j \in I : t[At(p, j)].age <= t[At(p, i)].age}
           g == [i \in I |-> t[At(p, i)].age]
           ages == {g[i] : i \in I}
<1>3. oldest # {}
  <2>1. \A i \in I : g[i] \in 0..TableSize /\ g[i] = t[At(p, i)].age
    <3>1. \A e \in FragEntry : e.age \in 0..TableSize
      BY DEF FragEntry
    <3> HIDE DEF I
    <3> QED
      BY <3>1, <1>1
  <2> HIDE DEF g, I
  <2>2. TableSize \in Nat
    BY Sizes_
  <2>3. ages # {} /\ ages \subseteq 0..TableSize
    BY <1>2, <2>1
  <2>4. Max(ages) \in ages /\ \A y \in ages : Max(ages) >= y
    <3> HIDE DEF ages
    <3> QED
      BY <2>2, <2>3, MaxIsGreatest
  <2>5. PICK i \in I : g[i] = Max(ages)
    BY <2>4
  <2>6. \A j \in I : g[j] <= g[i]
    BY <2>3, <2>4, <2>5
  <2> HIDE DEF ages
  <2>7. \A j \in I : t[At(p, j)].age <= t[At(p, i)].age
    BY <2>1, <2>6
  <2> QED
    BY <2>7
<1> DEFINE T == IF mine # {} THEN mine ELSE IF empty # {} THEN empty ELSE oldest
<1>4. T \in SUBSET I /\ T # {}
  <2>1. mine \subseteq I /\ empty \subseteq I /\ oldest \subseteq I
    OBVIOUS
  <2> HIDE DEF mine, empty, oldest, I
  <2> QED
    BY <2>1, <1>3
<1>5. Min(T) \in I
  <2> HIDE DEF T, I
  <2>1. T \subseteq Nat
    BY <1>2, <1>4
  <2> QED
    BY <2>1, <1>4, MinIsLeast
<1>6. PickSlot(t, p) = At(p, Min(T))
  BY DEF PickSlot
<1> QED
  <2> HIDE DEF T, I
  <2> QED
    BY <1>1, <1>5, <1>6

(* An entry of the table is emptied or left on the search's way.           *)
LEMMA SweptFacts ==
  ASSUME NEW t \in [FragSlot -> FragEntry], NEW p
  PROVE  /\ Cleared \in FragEntry /\ Swept(t, p) \in [FragSlot -> FragEntry]
         /\ \A s \in FragSlot : Swept(t, p)[s] \in {Cleared, t[s]}
<1>1. Cleared \in FragEntry
  BY Sizes_ DEF Cleared, FragEntry, Half
<1> QED
  BY <1>1 DEF Swept

(* Naming an entry for a datagram.                                         *)
Named(x, m, n, q) == [x EXCEPT !.epoch = m, !.dg = n, !.seq = q, !.age = 0]
LEMMA NamedType ==
  ASSUME NEW x \in FragEntry, NEW m \in Nat, NEW n \in Nat, NEW q \in Nat
  PROVE  Named(x, m, n, q) \in FragEntry
<1>1. 0 \in 0..TableSize
  BY Sizes_
<1> QED
  BY <1>1 DEF FragEntry, Named

LEMMA NamedFields ==
  ASSUME NEW x \in FragEntry, NEW m \in Nat, NEW n \in Nat, NEW q \in Nat
  PROVE  /\ Named(x, m, n, q).epoch = m /\ Named(x, m, n, q).dg = n
         /\ Named(x, m, n, q).old = x.old /\ Named(x, m, n, q).first = x.first
         /\ Named(x, m, n, q).second = x.second
  BY DEF FragEntry, Named

(* The entry a half is stored in: the other half in it was stored for the  *)
(* same datagram, and has not timed out.                                   *)
LEMMA FilledFacts ==
  ASSUME NEW t \in [FragSlot -> FragEntry], NEW p \in DataPkt, p.part # "full"
  PROVE  LET e == Filled(t, p)
             Same(s) == ~t[s].old /\ t[s].epoch = p.epoch /\ t[s].dg = p.dg
         IN  /\ e \in FragEntry /\ e.epoch = p.epoch /\ e.dg = p.dg /\ ~e.old
             /\ \/ /\ p.part = "first" /\ e.first = p.id
                   /\ e.second = NoHalf \/ \E s \in FragSlot : Same(s) /\ e.second = t[s].second
                \/ /\ p.part = "second" /\ e.second = p.id
                   /\ e.first = NoHalf \/ \E s \in FragSlot : Same(s) /\ e.first = t[s].first
<1> DEFINE u == Swept(t, p)
           s == PickSlot(u, p)
           a == Prepare(u[s], p)
           e == Filled(t, p)
<1>1. u \in [FragSlot -> FragEntry] /\ s \in FragSlot
  BY SweptFacts, PickFacts
<1>2. u[s] \in FragEntry /\ u[s] \in {Cleared, t[s]} /\ t[s] \in FragEntry /\ Cleared \in FragEntry
  BY <1>1, SweptFacts
<1>3. /\ p.epoch \in Nat /\ p.dg \in Nat /\ p.seq \in Nat /\ p.id \in Half
      /\ p.part \in {"first", "second"}
  BY DEF DataPkt, Half
<1> HIDE DEF u, s
<1>4. /\ a \in FragEntry /\ a.epoch = p.epoch /\ a.dg = p.dg /\ a.old = FALSE
      /\ \/ a.first = NoHalf /\ a.second = NoHalf
         \/ /\ u[s].epoch = p.epoch /\ u[s].dg = p.dg /\ ~u[s].old
            /\ a.first = u[s].first /\ a.second = u[s].second
  <2>1. CASE u[s].epoch = p.epoch /\ u[s].dg = p.dg /\ u[s].seq = p.seq /\ ~u[s].old
    <3>1. a = Named(u[s], p.epoch, p.dg, p.seq)
      BY <2>1 DEF Prepare, Named
    <3>2. u[s].old \in BOOLEAN
      BY <1>2 DEF FragEntry
    <3> HIDE DEF a
    <3>3. /\ a \in FragEntry /\ a.epoch = p.epoch /\ a.dg = p.dg /\ a.old = u[s].old
          /\ a.first = u[s].first /\ a.second = u[s].second
      <4>1. u[s] \in FragEntry /\ p.epoch \in Nat /\ p.dg \in Nat /\ p.seq \in Nat
        BY <1>2, <1>3
      <4>2. a \in FragEntry
        BY <4>1, <3>1, NamedType
      <4> QED
        BY <4>1, <4>2, <3>1, NamedFields
    <3>4. a.old = FALSE
      BY <2>1, <3>2, <3>3
    <3> QED
      BY <2>1, <3>3, <3>4
  <2>2. CASE ~(u[s].epoch = p.epoch /\ u[s].dg = p.dg /\ u[s].seq = p.seq /\ ~u[s].old)
    <3>1. a = Named(Cleared, p.epoch, p.dg, p.seq)
      BY <2>2 DEF Prepare, Named
    <3>2. Cleared.first = NoHalf /\ Cleared.second = NoHalf /\ Cleared.old = FALSE
      BY DEF Cleared
    <3> HIDE DEF a
    <3>3. /\ a \in FragEntry /\ a.epoch = p.epoch /\ a.dg = p.dg /\ a.old = Cleared.old
          /\ a.first = Cleared.first /\ a.second = Cleared.second
      <4>1. Cleared \in FragEntry /\ p.epoch \in Nat /\ p.dg \in Nat /\ p.seq \in Nat
        BY <1>2, <1>3
      <4>2. a \in FragEntry
        BY <4>1, <3>1, NamedType
      <4> QED
        BY <4>1, <4>2, <3>1, NamedFields
    <3> QED
      BY <3>2, <3>3
  <2> QED
    BY <2>1, <2>2
<1>5. e = IF p.part = "first" THEN [a EXCEPT !.first = p.id] ELSE [a EXCEPT !.second = p.id]
  BY DEF Filled, Store, u, s
<1> HIDE DEF a, e
<1>6. e \in FragEntry /\ e.epoch = p.epoch /\ e.dg = p.dg /\ e.old = FALSE
  BY <1>3, <1>4, <1>5 DEF FragEntry
<1>7. /\ p.part = "first" => e.first = p.id /\ e.second = a.second
      /\ p.part = "second" => e.second = p.id /\ e.first = a.first
  BY <1>3, <1>4, <1>5 DEF FragEntry
<1>8. \/ a.first = NoHalf /\ a.second = NoHalf
      \/ /\ t[s].epoch = p.epoch /\ t[s].dg = p.dg /\ ~t[s].old
         /\ a.first = t[s].first /\ a.second = t[s].second
  <2>1. u[s] = Cleared => u[s].first = NoHalf /\ u[s].second = NoHalf
    BY DEF Cleared
  <2> QED
    BY <2>1, <1>2, <1>4
<1>9. p.part = "first" => \/ e.second = NoHalf
                          \/ /\ ~t[s].old /\ t[s].epoch = p.epoch /\ t[s].dg = p.dg
                             /\ e.second = t[s].second
  BY <1>7, <1>8
<1>10. p.part = "second" => \/ e.first = NoHalf
                            \/ /\ ~t[s].old /\ t[s].epoch = p.epoch /\ t[s].dg = p.dg
                               /\ e.first = t[s].first
  BY <1>7, <1>8
<1> QED
  BY <1>1, <1>3, <1>6, <1>7, <1>9, <1>10 DEF e

(* The table afterwards: every entry is empty, or what it was, or the      *)
(* entry just filled, if that is not yet whole.                            *)
LEMMA ReassembledFacts ==
  ASSUME NEW t \in [FragSlot -> FragEntry], NEW p \in DataPkt, p.part # "full"
  PROVE  /\ Reassembled(t, p) \in [FragSlot -> FragEntry]
         /\ \A s \in FragSlot : LET r == Reassembled(t, p)[s] IN
              \/ r.first = NoHalf /\ r.second = NoHalf
              \/ r = Filled(t, p) /\ ~Whole(r)
              \/ /\ r.epoch = t[s].epoch /\ r.dg = t[s].dg /\ r.old = t[s].old
                 /\ r.first = t[s].first /\ r.second = t[s].second
<1> DEFINE u == Swept(t, p)
           e == Filled(t, p)
           R == Reassembled(t, p)
           Old(r, s) == /\ r.epoch = t[s].epoch /\ r.dg = t[s].dg /\ r.old = t[s].old
                        /\ r.first = t[s].first /\ r.second = t[s].second
<1>1. u \in [FragSlot -> FragEntry] /\ e \in FragEntry /\ Cleared \in FragEntry
  BY SweptFacts, FilledFacts
<1>2. \A s \in FragSlot : u[s] \in {Cleared, t[s]}
  BY SweptFacts
<1>3. ASSUME NEW a \in 0..TableSize PROVE Min({a + 1, TableSize}) \in 0..TableSize
  <2>1. {a + 1, TableSize} \subseteq Nat /\ {a + 1, TableSize} # {}
    BY Sizes_
  <2>2. /\ Min({a + 1, TableSize}) \in {a + 1, TableSize}
        /\ \A y \in {a + 1, TableSize} : Min({a + 1, TableSize}) <= y
    BY <2>1, MinIsLeast
  <2> QED
    BY <2>2, Sizes_
<1>4. R = [s \in FragSlot |->
             IF s = PickSlot(u, p) THEN (IF Whole(e) THEN Cleared ELSE e)
             ELSE IF Occupied(u[s])
                  THEN [u[s] EXCEPT !.age = Min({@ + 1, TableSize})]
                  ELSE u[s]]
  BY DEF Reassembled
<1>5. Cleared.first = NoHalf /\ Cleared.second = NoHalf
  BY DEF Cleared
<1>6. ASSUME NEW s \in FragSlot
      PROVE  /\ R[s] \in FragEntry
             /\ \/ R[s].first = NoHalf /\ R[s].second = NoHalf
                \/ R[s] = e /\ ~Whole(R[s])
                \/ Old(R[s], s)
  <2> HIDE DEF u, e
  <2>1. CASE s = PickSlot(u, p)
    <3>1. R[s] = IF Whole(e) THEN Cleared ELSE e
      BY <2>1, <1>4
    <3> HIDE DEF R
    <3> QED
      BY <3>1, <1>1, <1>5
  <2>2. CASE s # PickSlot(u, p)
    <3>1. u[s] \in FragEntry /\ t[s] \in FragEntry
      BY <1>1
    <3>2. CASE Occupied(u[s])
      <4> DEFINE m == Min({u[s].age + 1, TableSize})
      <4>1. R[s] = [u[s] EXCEPT !.age = m]
        BY <2>2, <3>2, <1>4
      <4>2. m \in 0..TableSize
        BY <3>1, <1>3 DEF FragEntry
      <4>3. u[s] = t[s]
        BY <3>2, <1>2, <1>5 DEF Occupied
      <4> HIDE DEF m, R
      <4> QED
        BY <3>1, <4>1, <4>2, <4>3 DEF FragEntry
    <3>3. CASE ~Occupied(u[s])
      <4>1. R[s] = u[s]
        BY <2>2, <3>3, <1>4
      <4> HIDE DEF R
      <4> QED
        BY <3>1, <3>3, <4>1 DEF Occupied
    <3> QED
      BY <3>2, <3>3
  <2> QED
    BY <2>1, <2>2
<1>7. R \in [FragSlot -> FragEntry]
  <2>1. \A s \in FragSlot : R[s] \in FragEntry
    BY <1>6
  <2>2. DOMAIN R = FragSlot /\ R = [s \in FragSlot |-> R[s]]
    <3> HIDE DEF u, e
    <3> QED
      BY <1>4
  <2> HIDE DEF R
  <2> QED
    BY <2>1, <2>2
<1> QED
  BY <1>6, <1>7

----------------------------------------------------------------------------
(* The types are kept.                                                     *)

(* A thread takes a job in hand, puts it down, or has one.                 *)
LEMMA BusyType ==
  ASSUME CurType, NEW w \in Worker, NEW j \in EncryptJob \cup EmitJob, Busy(w, j)
  PROVE  CurType'
<1>1. w \in Thread /\ LanRx \in Thread /\ w # LanRx /\ \A v \in Worker : v \in Thread
  BY Sizes_ DEF Thread, LanRx
<1>2. /\ cur' = [t \in Thread |-> cur'[t]] /\ cur'[w] = <<j>>
      /\ \A t \in Thread : t # w => cur'[t] = cur[t]
  BY <1>1 DEF Busy, CurType
<1> QED
  BY <1>1, <1>2 DEF CurType

LEMMA RxBusyType ==
  ASSUME CurType, NEW j \in RxJob, Busy(LanRx, j)
  PROVE  CurType'
<1>1. LanRx \in Thread /\ \A v \in Worker : v \in Thread /\ v # LanRx
  BY Sizes_ DEF Thread, LanRx
<1>2. /\ cur' = [t \in Thread |-> cur'[t]] /\ cur'[LanRx] = <<j>>
      /\ \A t \in Thread : t # LanRx => cur'[t] = cur[t]
  BY <1>1 DEF Busy, CurType
<1> QED
  BY <1>1, <1>2 DEF CurType

LEMMA DoneType ==
  ASSUME CurType, NEW w \in Thread, Done(w)
  PROVE  CurType'
<1>1. LanRx \in Thread /\ \A v \in Worker : v \in Thread
  BY DEF Thread, LanRx
<1>2. /\ cur' = [t \in Thread |-> cur'[t]] /\ cur'[w] = <<>>
      /\ \A t \in Thread : t # w => cur'[t] = cur[t]
  BY DEF Done, CurType
<1> QED
  BY <1>1, <1>2 DEF CurType

LEMMA InHand ==
  ASSUME CurType, NEW w \in Worker, NEW pc, Working(w, pc)
  PROVE  /\ cur[w] = <<J(w)>> /\ J(w) \in EncryptJob \cup EmitJob /\ J(w).pc = pc
         /\ w \in Thread
<1>1. cur[w] # <<>> /\ J(w) = cur[w][1] /\ J(w).pc = pc
  BY DEF Working, J
<1>2. PICK j \in EncryptJob \cup EmitJob : cur[w] = <<j>>
  BY <1>1 DEF CurType
<1>3. J(w) = j
  BY <1>1, <1>2
<1> QED
  BY <1>1, <1>2, <1>3 DEF Thread

LEMMA RxInHand ==
  ASSUME CurType, NEW pc, Working(LanRx, pc)
  PROVE  cur[LanRx] = <<J(LanRx)>> /\ J(LanRx) \in RxJob /\ LanRx \in Thread
<1>1. cur[LanRx] # <<>> /\ J(LanRx) = cur[LanRx][1]
  BY DEF Working, J
<1>2. PICK j \in RxJob : cur[LanRx] = <<j>>
  BY <1>1 DEF CurType
<1>3. J(LanRx) = j
  BY <1>1, <1>2
<1> QED
  BY <1>2, <1>3 DEF Thread, LanRx

(* Pushes to the rings and to the workers' queues.                         *)
LEMMA PushWanType ==
  ASSUME QueueType, NEW s \in TxSlot, NEW job \in WanTx, PushWan(s, job)
  PROVE  toWan' \in [TxSlot -> Seq(WanTx)]
<1>1. toWan \in [TxSlot -> Seq(WanTx)]
  BY DEF QueueType
<1>2. [toWan EXCEPT ![s] = Append(@, job)] \in [TxSlot -> Seq(WanTx)]
  BY <1>1, PushType
<1> QED
  BY <1>1, <1>2 DEF PushWan

LEMMA PushLanType ==
  ASSUME QueueType, NEW r \in Port \X TxSlot, NEW job \in LanTx, PushLan(r, job)
  PROVE  toLan' \in [Port \X TxSlot -> Seq(LanTx)]
<1>1. toLan \in [Port \X TxSlot -> Seq(LanTx)]
  BY DEF QueueType
<1> DEFINE X == Port \X TxSlot
<1>2. [toLan EXCEPT ![r] = Append(@, job)] \in [X -> Seq(LanTx)]
  <2> HIDE DEF X
  <2>1. toLan \in [X -> Seq(LanTx)] /\ r \in X
    BY <1>1 DEF X
  <2> QED
    BY <2>1, PushType
<1> QED
  BY <1>1, <1>2 DEF PushLan

LEMMA RingOfType ==
  ASSUME NEW k \in Conn, NEW s \in TxSlot
  PROVE  RingOf(k, s) \in Port \X TxSlot
<1>1. PortOf[k] \in Port
  BY DatapathAssumption DEF Port
<1> QED
  BY <1>1 DEF RingOf

LEMMA QueueStepType ==
  ASSUME QueueType, WorldType, NEW j, j.f \in Frame, j.k \in Tunnelled, j.n \in Nat,
         j.big \in BOOLEAN, NEW rt \in Home, NEW b, Queue(j, rt, b)
  PROVE  /\ lanQ' \in [Worker -> Seq(DataJob \cup ArpJob)]
         /\ homes' \in [Conn -> SUBSET Home]
<1> DEFINE job == [pc |-> "data", f |-> j.f, k |-> j.k, n |-> j.n, big |-> j.big,
                   slot |-> rt.slot]
           X == DataJob \cup ArpJob
<1>1. rt.worker \in Worker /\ rt.slot \in TxSlot
  BY DEF Home
<1>2. job \in X
  BY <1>1 DEF DataJob
<1>3. lanQ \in [Worker -> Seq(X)] /\ homes \in [Conn -> SUBSET Home] /\ j.k \in Conn
  BY Kinds DEF QueueType, WorldType
<1>4. /\ homes' = [homes EXCEPT ![j.k] = @ \cup {rt}]
      /\ \/ lanQ' = [lanQ EXCEPT ![rt.worker] = Append(@, job)]
         \/ lanQ' = lanQ
  BY DEF Queue
<1> HIDE DEF job, X
<1>5. [lanQ EXCEPT ![rt.worker] = Append(@, job)] \in [Worker -> Seq(X)]
  BY <1>1, <1>2, <1>3, PushType
<1>6. lanQ' \in [Worker -> Seq(X)]
  BY <1>3, <1>4, <1>5
<1>7. homes' \in [Conn -> SUBSET Home]
  BY <1>3, <1>4
<1> QED
  BY <1>6, <1>7 DEF X

(* From the LAN.                                                           *)
LEMMA LanCameFacts ==
  ASSUME WorldType, LanCame
  PROVE  /\ came' \in [lan : Nat, fault : Nat] /\ came'.lan = came.lan + 1 /\ came.lan \in Nat
         /\ cur[LanRx] = <<>>
<1>1. came \in [lan : Nat, fault : Nat] /\ came' = [came EXCEPT !.lan = @ + 1]
  BY DEF LanCame, WorldType
<1>2. cur[LanRx] = <<>>
  BY DEF LanCame, Idle
<1> QED
  BY <1>1, <1>2

LEMMA LanBypassType ==
  ASSUME DataType, NEW k \in Conn, NEW f \in Frame, LanBypass(k, f)
  PROVE  DataType'
<1>0. RouteType /\ QueueType /\ CurType /\ WorkType /\ WorldType
  BY DEF DataType
<1>1. RouteType' /\ CurType' /\ WorkType'
  BY <1>0 DEF LanBypass, routeVars, RouteType, CurType, WorkType
<1>2. WorldType'
  <2>1. LanCame /\ UNCHANGED <<net, peer, homes, given>>
    BY DEF LanBypass
  <2> QED
    BY <1>0, <2>1, LanCameFacts DEF WorldType
<1>3. QueueType'
  <2> DEFINE s == Canonical(k).slot
             job == [f |-> f, k |-> k, part |-> "plain"]
  <2>1. \/ toWan' = [toWan EXCEPT ![s] = Append(@, job)]
        \/ toWan' = toWan
    BY DEF LanBypass
  <2>2. s \in TxSlot
    BY CanonicalType DEF Home
  <2>3. job \in WanTx
    BY DEF WanTx
  <2> HIDE DEF s, job
  <2>4. [toWan EXCEPT ![s] = Append(@, job)] \in [TxSlot -> Seq(WanTx)]
    BY <1>0, <2>2, <2>3, PushType DEF QueueType
  <2> QED
    BY <1>0, <2>1, <2>4 DEF LanBypass, QueueType
<1> QED
  BY <1>1, <1>2, <1>3 DEF DataType

LEMMA LanArriveType ==
  ASSUME DataType, NEW k \in Conn, NEW big \in BOOLEAN, NEW f \in Frame, LanArrive(k, big, f)
  PROVE  DataType'
<1>0. RouteType /\ QueueType /\ CurType /\ WorkType /\ WorldType
  BY DEF DataType
<1> DEFINE j == [f |-> f, k |-> k, n |-> came'.lan, big |-> big]
           i == [pc |-> "insert", f |-> f, k |-> k, n |-> j.n, big |-> big]
<1>1. RouteType' /\ WorkType' /\ UNCHANGED <<wanQ, toWan, toLan, net, peer, given>>
  BY <1>0 DEF LanArrive, routeVars, RouteType, WorkType
<1>2. came' \in [lan : Nat, fault : Nat] /\ k \in Tunnelled
  BY <1>0, LanCameFacts DEF LanArrive
<1>3. j.f \in Frame /\ j.k \in Tunnelled /\ j.n \in Nat /\ j.big \in BOOLEAN
  BY <1>2
<1>4. i \in RxJob
  BY <1>2 DEF RxJob
<1>5. CASE Known(k)
  <2>1. Queue(j, Route(k), Without(free, {f})) /\ cur' = cur
    BY <1>5 DEF LanArrive
  <2>2. Route(k) \in Home
    BY <1>0, <1>5, RouteIsHome
  <2> HIDE DEF j
  <2>3. lanQ' \in [Worker -> Seq(DataJob \cup ArpJob)] /\ homes' \in [Conn -> SUBSET Home]
    BY <1>0, <1>3, <2>1, <2>2, QueueStepType
  <2>4. QueueType' /\ WorldType' /\ CurType'
    BY <1>0, <1>1, <1>2, <2>1, <2>3 DEF QueueType, WorldType, CurType
  <2> QED
    BY <1>1, <2>4 DEF DataType
<1>6. CASE ~Known(k)
  <2>1. Busy(LanRx, i) /\ lanQ' = lanQ /\ homes' = homes
    BY <1>6 DEF LanArrive
  <2> HIDE DEF i
  <2>2. CurType'
    BY <1>0, <1>4, <2>1, RxBusyType
  <2>3. QueueType' /\ WorldType'
    BY <1>0, <1>1, <1>2, <2>1 DEF QueueType, WorldType
  <2> QED
    BY <1>1, <2>2, <2>3 DEF DataType
<1> QED
  BY <1>5, <1>6

LEMMA LanInsertType ==
  ASSUME DataType, LanInsert
  PROVE  DataType'
<1>0. RouteType /\ QueueType /\ CurType /\ WorkType /\ WorldType
  BY DEF DataType
<1> DEFINE j == J(LanRx)
<1>1. /\ Working(LanRx, "insert") /\ Done(LanRx) /\ Insert(j.k, NoHint)
      /\ Queue(j, Routed(j.k, NoHint), free)
      /\ UNCHANGED <<fb, tails, wanQ, held, toWan, toLan, reasm, net, peer, came, given>>
  BY DEF LanInsert
<1>2. j \in RxJob /\ LanRx \in Thread
  BY <1>0, <1>1, RxInHand
<1> HIDE DEF j
<1>3. j.f \in Frame /\ j.k \in Tunnelled /\ j.n \in Nat /\ j.big \in BOOLEAN /\ j.k \in Conn
  BY <1>2, Kinds DEF RxJob
<1>4. NoHint \in Thread
  BY DEF Thread
<1>5. Routed(j.k, NoHint) \in Home
  BY <1>0, <1>3, <1>4, RoutedType
<1>6. RouteType'
  <2>1. table' \in Seq(RouteEntry) /\ workerRr' \in Worker
    BY <1>0, <1>1, <1>3, <1>4, InsertFacts
  <2> QED
    BY <1>0, <1>1, <2>1 DEF RouteType
<1>7. lanQ' \in [Worker -> Seq(DataJob \cup ArpJob)] /\ homes' \in [Conn -> SUBSET Home]
  BY <1>0, <1>1, <1>3, <1>5, QueueStepType
<1>8. CurType'
  BY <1>0, <1>1, <1>2, DoneType
<1>9. QueueType' /\ WorldType' /\ WorkType'
  BY <1>0, <1>1, <1>7 DEF QueueType, WorldType, WorkType
<1> QED
  BY <1>6, <1>8, <1>9 DEF DataType

LEMMA LocalAdmitType ==
  ASSUME DataType, NEW w \in Worker, NEW ok \in BOOLEAN, LocalAdmit(w, ok)
  PROVE  DataType'
<1>0. RouteType /\ QueueType /\ CurType /\ WorkType /\ WorldType
  BY DEF DataType
<1> DEFINE j == Head(lanQ[w])
           X == DataJob \cup ArpJob
           e == [j EXCEPT !.pc = "encrypt"]
<1>1. /\ lanQ[w] # <<>> /\ j.pc = "data" /\ lanQ' = [lanQ EXCEPT ![w] = Tail(@)]
      /\ Busy(w, e) \/ cur' = cur
      /\ UNCHANGED <<routeVars, tails, wanQ, held, toWan, toLan, reasm, net, peer,
                     came, homes, given>>
  BY DEF LocalAdmit
<1>2. j \in X /\ lanQ' \in [Worker -> Seq(X)]
  <2>1. lanQ \in [Worker -> Seq(X)]
    BY <1>0 DEF QueueType
  <2> HIDE DEF X
  <2> QED
    BY <1>1, <2>1, PopType
<1>3. j \in DataJob
  BY <1>1, <1>2, JobKinds
<1>4. e \in EncryptJob
  <2> HIDE DEF j
  <2> QED
    BY <1>3 DEF DataJob, EncryptJob
<1> HIDE DEF e, j
<1>5. CurType'
  <2>1. CASE cur' = cur
    BY <1>0, <2>1 DEF CurType
  <2>2. CASE Busy(w, e)
    BY <1>0, <1>4, <2>2, BusyType
  <2> QED
    BY <1>1, <2>1, <2>2
<1>6. QueueType' /\ WorldType' /\ WorkType' /\ RouteType'
  BY <1>0, <1>1, <1>2 DEF QueueType, WorldType, WorkType, RouteType, routeVars
<1> QED
  BY <1>5, <1>6 DEF DataType

(* A datagram is numbered.                                                 *)
LEMMA NumberType ==
  ASSUME DataType, NEW w \in Worker, NEW j, j.k \in Tunnelled, j.n \in Nat, Number(w, j)
  PROVE  RouteType' /\ given' \in [Conn -> Seq(Nat \X Nat)]
<1>0. RouteType /\ given \in [Conn -> Seq(Nat \X Nat)] /\ j.k \in Conn
  BY Kinds DEF DataType, WorldType
<1>1. Count(w, j.k) /\ workerRr' = workerRr
  BY DEF Number
<1>2. table' \in Seq(RouteEntry) /\ fb' \in [Worker -> Seq(Fallback)]
  BY <1>0, <1>1, CountFacts
<1>3. RouteType'
  BY <1>0, <1>1, <1>2 DEF RouteType
<1> DEFINE d == <<j.n, NextSeq(w, j.k)>>
<1>4. given' = [given EXCEPT ![j.k] = Append(@, d)]
  BY DEF Number
<1>5. d \in Nat \X Nat
  BY <1>0, NextSeqType
<1> HIDE DEF d
<1>6. [given EXCEPT ![j.k] = Append(@, d)] \in [Conn -> Seq(Nat \X Nat)]
  BY <1>0, <1>5, PushType
<1> QED
  BY <1>3, <1>4, <1>6

LEMMA LocalWholeType ==
  ASSUME DataType, NEW w \in Worker, NEW enc \in BOOLEAN, LocalWhole(w, enc)
  PROVE  DataType'
<1>0. RouteType /\ QueueType /\ CurType /\ WorkType /\ WorldType
  BY DEF DataType
<1> DEFINE j == J(w)
           job == [f |-> j.f, k |-> j.k, part |-> "full"]
<1>1. /\ Working(w, "encrypt") /\ Number(w, j) /\ Done(w)
      /\ PushWan(j.slot, job) \/ toWan' = toWan
      /\ UNCHANGED <<tails, lanQ, wanQ, held, toLan, reasm, net, peer, came, homes>>
  BY DEF LocalWhole
<1>2. j \in EncryptJob /\ w \in Thread
  BY <1>0, <1>1, InHand, JobKinds
<1> HIDE DEF j
<1>3. j.f \in Frame /\ j.k \in Tunnelled /\ j.n \in Nat /\ j.slot \in TxSlot /\ j.k \in Conn
  BY <1>2, Kinds DEF EncryptJob
<1>4. RouteType' /\ given' \in [Conn -> Seq(Nat \X Nat)]
  BY <1>1, <1>3, NumberType
<1>5. job \in WanTx
  BY <1>3 DEF WanTx
<1> HIDE DEF job
<1>6. toWan' \in [TxSlot -> Seq(WanTx)]
  <2>1. CASE toWan' = toWan
    BY <1>0, <2>1 DEF QueueType
  <2>2. CASE PushWan(j.slot, job)
    BY <1>0, <1>3, <1>5, <2>2, PushWanType
  <2> QED
    BY <1>1, <2>1, <2>2
<1>7. CurType'
  BY <1>0, <1>1, <1>2, DoneType
<1>8. QueueType' /\ WorldType' /\ WorkType'
  BY <1>0, <1>1, <1>4, <1>6 DEF QueueType, WorldType, WorkType
<1> QED
  BY <1>4, <1>7, <1>8 DEF DataType

LEMMA LocalSplitType ==
  ASSUME DataType, NEW w \in Worker, NEW enc \in BOOLEAN, LocalSplit(w, enc)
  PROVE  DataType'
<1>0. RouteType /\ QueueType /\ CurType /\ WorkType /\ WorldType
  BY DEF DataType
<1> DEFINE j == J(w)
<1>1. /\ Working(w, "encrypt") /\ Number(w, j) /\ Done(w)
      /\ UNCHANGED <<lanQ, wanQ, held, toLan, reasm, net, peer, came, homes>>
  BY DEF LocalSplit
<1>2. j \in EncryptJob /\ w \in Thread
  BY <1>0, <1>1, InHand, JobKinds
<1>3. PICK S \in Refills(w) :
         IF tails[w] \cup S = {}
         THEN Free({j.f}) /\ UNCHANGED <<tails, toWan>>
         ELSE \E tail \in tails[w] \cup S : SplitInto(w, j, S, tail, enc)
  BY DEF LocalSplit
<1> HIDE DEF j
<1>4. j.f \in Frame /\ j.k \in Tunnelled /\ j.n \in Nat /\ j.slot \in TxSlot /\ j.k \in Conn
  BY <1>2, Kinds DEF EncryptJob
<1>5. RouteType' /\ given' \in [Conn -> Seq(Nat \X Nat)]
  BY <1>1, <1>4, NumberType
<1>6. tails \in [Worker -> SUBSET Frame] /\ toWan \in [TxSlot -> Seq(WanTx)]
  BY <1>0 DEF WorkType, QueueType
<1>7. S \subseteq Frame
  BY <1>3 DEF Refills, Available
<1>8. tails' \in [Worker -> SUBSET Frame] /\ toWan' \in [TxSlot -> Seq(WanTx)]
  <2>1. CASE tails[w] \cup S = {}
    BY <1>3, <1>6, <2>1
  <2>2. CASE tails[w] \cup S # {}
    <3>1. PICK tail \in tails[w] \cup S : SplitInto(w, j, S, tail, enc)
      BY <1>3, <2>2
    <3> DEFINE a == [f |-> j.f, part |-> "first"]
               b == [f |-> tail, part |-> "second"]
    <3>2. /\ tails' = [tails EXCEPT ![w] = (@ \cup S) \ {tail}]
          /\ \/ toWan' = [toWan EXCEPT ![j.slot] = @ \o <<a, b>>]
             \/ toWan' = toWan
      BY <3>1 DEF SplitInto
    <3>3. tail \in Frame
      BY <1>6, <1>7, <3>1
    <3>4. a \in WanTx /\ b \in WanTx
      BY <1>4, <3>3 DEF WanTx
    <3> HIDE DEF a, b
    <3>5. <<a, b>> \in Seq(WanTx)
      BY <3>4
    <3>6. toWan[j.slot] \o <<a, b>> \in Seq(WanTx)
      BY <1>4, <1>6, <3>5, ConcatProperties
    <3>7. toWan' \in [TxSlot -> Seq(WanTx)]
      BY <1>4, <1>6, <3>2, <3>6
    <3>8. tails' \in [Worker -> SUBSET Frame]
      BY <1>6, <1>7, <3>2
    <3> QED
      BY <3>7, <3>8
  <2> QED
    BY <2>1, <2>2
<1>9. CurType'
  BY <1>0, <1>1, <1>2, DoneType
<1>10. QueueType' /\ WorldType' /\ WorkType'
  BY <1>0, <1>1, <1>5, <1>8 DEF QueueType, WorldType, WorkType
<1> QED
  BY <1>5, <1>9, <1>10 DEF DataType

(* From the WAN.                                                           *)
LEMMA WanCameFacts ==
  ASSUME WorldType, NEW p, NEW again \in BOOLEAN, WanCame(p, again)
  PROVE  /\ net' \subseteq net /\ p \in net /\ p \in DataPkt \cup ArpPkt \cup PlainPkt
         /\ came' \in [lan : Nat, fault : Nat] /\ came'.lan = came.lan
<1>1. came \in [lan : Nat, fault : Nat] /\ net \subseteq DataPkt \cup ArpPkt \cup PlainPkt
  BY DEF WorldType
<1>2. /\ p \in net /\ net' \in {net, net \ {p}}
      /\ came' = came \/ came' = [came EXCEPT !.fault = @ + 1]
  BY DEF WanCame
<1>3. came' \in [lan : Nat, fault : Nat] /\ came'.lan = came.lan
  BY <1>1, <1>2
<1> QED
  BY <1>1, <1>2, <1>3

LEMMA WanBypassType ==
  ASSUME DataType, NEW p, NEW known \in BOOLEAN, NEW f \in Frame, WanBypass(p, known, f)
  PROVE  DataType'
<1>0. RouteType /\ QueueType /\ CurType /\ WorkType /\ WorldType
  BY DEF DataType
<1>1. RouteType' /\ CurType' /\ WorkType'
  BY <1>0 DEF WanBypass, routeVars, RouteType, CurType, WorkType
<1>2. WanCame(p, FALSE) /\ p.part = "plain" /\ UNCHANGED <<peer, homes, given>>
  BY DEF WanBypass
<1>3. /\ net' \subseteq net /\ p \in DataPkt \cup ArpPkt \cup PlainPkt
      /\ came' \in [lan : Nat, fault : Nat]
  BY <1>0, <1>2, WanCameFacts
<1>4. WorldType'
  BY <1>0, <1>2, <1>3 DEF WorldType
<1>5. p \in PlainPkt
  BY <1>2, <1>3, JobKinds
<1>6. p.k \in Conn /\ p.id \in Half
  BY <1>5, Kinds DEF PlainPkt, Half
<1>7. QueueType'
  <2> DEFINE X == Port \X TxSlot
             r == RingOf(p.k, Canonical(p.k).slot)
             job == [f |-> f, first |-> p.id, second |-> p.id]
  <2>1. /\ toLan' = [toLan EXCEPT ![r] = Append(@, job)] \/ toLan' = toLan
        /\ UNCHANGED <<lanQ, wanQ, toWan>>
    BY DEF WanBypass
  <2>2. Canonical(p.k).slot \in TxSlot
    BY <1>6, CanonicalType DEF Home
  <2>3. r \in X
    BY <1>6, <2>2, RingOfType
  <2>4. job \in LanTx
    BY <1>6 DEF LanTx
  <2>5. toLan \in [X -> Seq(LanTx)]
    BY <1>0 DEF QueueType
  <2> HIDE DEF X, r, job
  <2>6. [toLan EXCEPT ![r] = Append(@, job)] \in [X -> Seq(LanTx)]
    BY <2>3, <2>4, <2>5, PushType
  <2>7. toLan' \in [X -> Seq(LanTx)]
    BY <2>1, <2>5, <2>6
  <2> QED
    BY <1>0, <2>1, <2>7 DEF QueueType, X
<1> QED
  BY <1>1, <1>4, <1>7 DEF DataType

LEMMA WanArriveType ==
  ASSUME DataType, NEW p, NEW again \in BOOLEAN, NEW f \in Frame, WanArrive(p, again, f)
  PROVE  DataType'
<1>0. RouteType /\ QueueType /\ CurType /\ WorkType /\ WorldType
  BY DEF DataType
<1>1. RouteType' /\ CurType' /\ WorkType'
  BY <1>0 DEF WanArrive, routeVars, RouteType, CurType, WorkType
<1>2. WanCame(p, again) /\ p.part # "plain" /\ UNCHANGED <<peer, homes, given>>
  BY DEF WanArrive
<1>3. /\ net' \subseteq net /\ p \in DataPkt \cup ArpPkt \cup PlainPkt
      /\ came' \in [lan : Nat, fault : Nat]
  BY <1>0, <1>2, WanCameFacts
<1>4. WorldType'
  BY <1>0, <1>2, <1>3 DEF WorldType
<1>5. p \in DataPkt \cup ArpPkt /\ p.worker \in Worker
  BY <1>2, <1>3, JobKinds
<1>7. QueueType'
  <2> DEFINE X == [f : Frame, p : DataPkt \cup ArpPkt]
             job == [f |-> f, p |-> p]
  <2>1. /\ wanQ' = [wanQ EXCEPT ![p.worker] = Append(@, job)] \/ wanQ' = wanQ
        /\ UNCHANGED <<lanQ, toLan, toWan>>
    BY DEF WanArrive
  <2>2. job \in X /\ wanQ \in [Worker -> Seq(X)]
    BY <1>0, <1>5 DEF QueueType
  <2> HIDE DEF X, job
  <2>3. [wanQ EXCEPT ![p.worker] = Append(@, job)] \in [Worker -> Seq(X)]
    BY <1>5, <2>2, PushType
  <2>4. wanQ' \in [Worker -> Seq(X)]
    BY <2>1, <2>2, <2>3
  <2> QED
    BY <1>0, <2>1, <2>4 DEF QueueType, X
<1> QED
  BY <1>1, <1>4, <1>7 DEF DataType

(* The frame at the head of a worker's queue.                              *)
LEMMA WanHead ==
  ASSUME QueueType, NEW w \in Worker, wanQ[w] # <<>>
  PROVE  /\ Head(wanQ[w]).f \in Frame /\ Head(wanQ[w]).p \in DataPkt \cup ArpPkt
         /\ Head(wanQ[w]) = wanQ[w][1] /\ 1 \in DOMAIN wanQ[w]
         /\ [wanQ EXCEPT ![w] = Tail(@)] \in [Worker -> Seq([f : Frame, p : DataPkt \cup ArpPkt])]
<1> DEFINE X == [f : Frame, p : DataPkt \cup ArpPkt]
<1>1. wanQ \in [Worker -> Seq(X)]
  BY DEF QueueType
<1>2. \A x \in X : x.f \in Frame /\ x.p \in DataPkt \cup ArpPkt
  OBVIOUS
<1> HIDE DEF X
<1>3. /\ Head(wanQ[w]) \in X /\ [wanQ EXCEPT ![w] = Tail(@)] \in [Worker -> Seq(X)]
      /\ Head(wanQ[w]) = wanQ[w][1] /\ DOMAIN wanQ[w] = 1..Len(wanQ[w])
      /\ Len(wanQ[w]) \in Nat /\ Len(wanQ[w]) > 0
  BY <1>1, PopType
<1>4. 1 \in DOMAIN wanQ[w]
  BY <1>3
<1> QED
  BY <1>2, <1>3, <1>4 DEF X

(* What decrypting leaves.                                                 *)
LEMMA DecryptFacts ==
  ASSUME WorkType, NEW w \in Worker, NEW j, j.f \in Frame, j.p \in DataPkt
  PROVE  /\ Table(w, j) \in [FragSlot -> FragEntry] /\ Item(w, j) \in HeldItem
         /\ Item(w, j).f = j.f
<1>1. reasm[w] \in [FragSlot -> FragEntry]
  BY DEF WorkType
<1>2. j.p.k \in Tunnelled /\ j.p.id \in Half
  BY DEF DataPkt, Half
<1>3. CASE j.p.part = "full"
  BY <1>1, <1>2, <1>3 DEF Table, Item, HeldItem
<1>4. CASE j.p.part # "full"
  <2> DEFINE e == Filled(reasm[w], j.p)
  <2>1. e \in FragEntry
    BY <1>1, <1>4, FilledFacts
  <2>2. Reassembled(reasm[w], j.p) \in [FragSlot -> FragEntry]
    BY <1>1, <1>4, ReassembledFacts
  <2>3. /\ Table(w, j) = Reassembled(reasm[w], j.p)
        /\ Item(w, j) = [f |-> j.f, k |-> j.p.k, first |-> e.first, second |-> e.second]
    BY <1>4 DEF Table, Item
  <2> HIDE DEF e
  <2>4. e.first \in Half /\ e.second \in Half
    BY <2>1 DEF FragEntry
  <2> QED
    BY <1>2, <2>2, <2>3, <2>4 DEF HeldItem
<1> QED
  BY <1>3, <1>4

LEMMA WanDecryptType ==
  ASSUME DataType, NEW w \in Worker, NEW dec \in BOOLEAN, NEW pass \in BOOLEAN,
         WanDecrypt(w, dec, pass)
  PROVE  DataType'
<1>0. RouteType /\ QueueType /\ CurType /\ WorkType /\ WorldType
  BY DEF DataType
<1> DEFINE j == Head(wanQ[w])
<1>1. /\ wanQ[w] # <<>> /\ j.p.part \notin WanArps /\ wanQ' = [wanQ EXCEPT ![w] = Tail(@)]
      /\ reasm' = [reasm EXCEPT ![w] = Table(w, j)] \/ reasm' = reasm
      /\ held' = [held EXCEPT ![w] = @ \cup {Item(w, j)}] \/ held' = held
      /\ UNCHANGED <<routeVars, tails, lanQ, cur, toWan, toLan, net, peer, came,
                     homes, given>>
  BY DEF WanDecrypt
<1>2. /\ j.f \in Frame /\ j.p \in DataPkt \cup ArpPkt
      /\ wanQ' \in [Worker -> Seq([f : Frame, p : DataPkt \cup ArpPkt])]
  BY <1>0, <1>1, WanHead
<1> HIDE DEF j
<1>3. j.p \in DataPkt
  BY <1>1, <1>2, JobKinds
<1>4. Table(w, j) \in [FragSlot -> FragEntry] /\ Item(w, j) \in HeldItem
  BY <1>0, <1>2, <1>3, DecryptFacts
<1>5. WorkType'
  BY <1>0, <1>1, <1>4 DEF WorkType
<1>6. QueueType' /\ WorldType' /\ CurType' /\ RouteType'
  BY <1>0, <1>1, <1>2 DEF QueueType, WorldType, CurType, RouteType, routeVars
<1> QED
  BY <1>5, <1>6 DEF DataType

LEMMA ForwardType ==
  ASSUME QueueType, NEW it, it.f \in Frame, it.k \in Conn, it.first \in Half, it.second \in Half,
         NEW slot \in TxSlot, NEW known \in BOOLEAN, Forward(it, slot, known)
  PROVE  toLan' \in [Port \X TxSlot -> Seq(LanTx)]
<1> DEFINE job == [f |-> it.f, first |-> it.first, second |-> it.second]
<1>1. job \in LanTx
  BY DEF LanTx
<1>2. PushLan(RingOf(it.k, slot), job) \/ toLan' = toLan
  BY DEF Forward
<1> HIDE DEF job
<1>3. CASE toLan' = toLan
  BY <1>3 DEF QueueType
<1>4. CASE PushLan(RingOf(it.k, slot), job)
  <2>1. RingOf(it.k, slot) \in Port \X TxSlot
    BY RingOfType
  <2> QED
    BY <1>1, <1>4, <2>1, PushLanType
<1> QED
  BY <1>2, <1>3, <1>4

LEMMA EmitType ==
  ASSUME DataType, NEW w \in Worker, NEW it \in held[w], NEW known \in BOOLEAN,
         Emit(w, it, known)
  PROVE  DataType'
<1>0. RouteType /\ QueueType /\ CurType /\ WorkType /\ WorldType
  BY DEF DataType
<1> DEFINE e == [pc |-> "insert", f |-> it.f, k |-> it.k, first |-> it.first,
                 second |-> it.second]
<1>1. /\ held' = [held EXCEPT ![w] = @ \ {it}]
      /\ UNCHANGED <<routeVars, tails, lanQ, wanQ, toWan, reasm, net, peer, came,
                     homes, given>>
  BY DEF Emit
<1>2. it \in HeldItem
  BY <1>0 DEF WorkType
<1>3. /\ it.f \in Frame /\ it.k \in Conn /\ it.k \in Tunnelled
      /\ it.first \in Half /\ it.second \in Half
  BY <1>2, Kinds DEF HeldItem
<1>4. WorkType' /\ WorldType' /\ RouteType'
  BY <1>0, <1>1 DEF WorkType, WorldType, RouteType, routeVars
<1>5. CASE Known(it.k)
  <2>1. Forward(it, Route(it.k).slot, known) /\ cur' = cur
    BY <1>5 DEF Emit
  <2>2. Route(it.k).slot \in TxSlot
    BY <1>0, <1>5, RouteIsHome DEF Home
  <2>3. toLan' \in [Port \X TxSlot -> Seq(LanTx)]
    BY <1>0, <1>3, <2>1, <2>2, ForwardType
  <2>4. QueueType' /\ CurType'
    BY <1>0, <1>1, <2>1, <2>3 DEF QueueType, CurType
  <2> QED
    BY <1>4, <2>4 DEF DataType
<1>6. CASE ~Known(it.k)
  <2>1. Busy(w, e) /\ toLan' = toLan
    BY <1>6 DEF Emit
  <2>2. e \in EmitJob
    BY <1>3 DEF EmitJob
  <2> HIDE DEF e
  <2>3. CurType'
    BY <1>0, <2>1, <2>2, BusyType
  <2>4. QueueType'
    BY <1>0, <1>1, <2>1 DEF QueueType
  <2> QED
    BY <1>4, <2>3, <2>4 DEF DataType
<1> QED
  BY <1>5, <1>6

LEMMA EmitInsertType ==
  ASSUME DataType, NEW w \in Worker, NEW known \in BOOLEAN, EmitInsert(w, known)
  PROVE  DataType'
<1>0. RouteType /\ QueueType /\ CurType /\ WorkType /\ WorldType
  BY DEF DataType
<1> DEFINE j == J(w)
<1>1. /\ Working(w, "insert") /\ Done(w) /\ Insert(j.k, w)
      /\ Forward(j, Routed(j.k, w).slot, known)
      /\ UNCHANGED <<fb, tails, lanQ, wanQ, held, toWan, reasm, net, peer, came,
                     homes, given>>
  BY DEF EmitInsert
<1>2. j \in EmitJob /\ w \in Thread
  BY <1>0, <1>1, InHand, JobKinds
<1> HIDE DEF j
<1>3. j.f \in Frame /\ j.k \in Conn /\ j.first \in Half /\ j.second \in Half
  BY <1>2, Kinds DEF EmitJob
<1>4. Routed(j.k, w).slot \in TxSlot
  BY <1>0, <1>2, <1>3, RoutedType DEF Home
<1>5. RouteType'
  <2>1. table' \in Seq(RouteEntry) /\ workerRr' \in Worker
    BY <1>0, <1>1, <1>2, <1>3, InsertFacts
  <2> QED
    BY <1>0, <1>1, <2>1 DEF RouteType
<1>6. toLan' \in [Port \X TxSlot -> Seq(LanTx)]
  BY <1>0, <1>1, <1>3, <1>4, ForwardType
<1>7. CurType'
  BY <1>0, <1>1, <1>2, DoneType
<1>8. QueueType' /\ WorldType' /\ WorkType'
  BY <1>0, <1>1, <1>6 DEF QueueType, WorldType, WorkType
<1> QED
  BY <1>5, <1>7, <1>8 DEF DataType

(* Time, garbage collection and drops.                                     *)
LEMMA AgedFacts ==
  ASSUME NEW t \in [FragSlot -> FragEntry]
  PROVE  /\ Aged(t) \in [FragSlot -> FragEntry] /\ Collected(t) \in [FragSlot -> FragEntry]
         /\ \A s \in FragSlot : Collected(t)[s] \in {Cleared, t[s]}
         /\ \A s \in FragSlot : /\ Aged(t)[s].first = t[s].first /\ Aged(t)[s].second = t[s].second
                                /\ Occupied(t[s]) => Aged(t)[s].old
                                /\ ~Occupied(t[s]) => Aged(t)[s] = t[s]
<1>1. Collected(t) \in [FragSlot -> FragEntry]
  BY SweptFacts DEF Collected
<1>2. \A s \in FragSlot : Collected(t)[s] \in {Cleared, t[s]}
  BY DEF Collected
<1>3. \A e \in FragEntry : LET r == [e EXCEPT !.old = TRUE]
                           IN  /\ r \in FragEntry /\ r.first = e.first /\ r.second = e.second
                               /\ r.old = TRUE
  BY DEF FragEntry
<1>4. \A s \in FragSlot : Aged(t)[s] = IF Occupied(t[s]) THEN [t[s] EXCEPT !.old = TRUE] ELSE t[s]
  BY DEF Aged
<1>5. ASSUME NEW s \in FragSlot
      PROVE  /\ Aged(t)[s] \in FragEntry
             /\ Aged(t)[s].first = t[s].first /\ Aged(t)[s].second = t[s].second
             /\ Occupied(t[s]) => Aged(t)[s].old
             /\ ~Occupied(t[s]) => Aged(t)[s] = t[s]
  <2>1. t[s] \in FragEntry
    OBVIOUS
  <2> QED
    BY <1>3, <1>4, <2>1
<1>6. Aged(t) \in [FragSlot -> FragEntry]
  <2>1. \A s \in FragSlot : Aged(t)[s] \in FragEntry
    BY <1>5
  <2>2. Aged(t) = [s \in FragSlot |-> Aged(t)[s]]
    BY DEF Aged
  <2> QED
    BY <2>1, <2>2
<1> QED
  BY <1>1, <1>2, <1>5, <1>6

LEMMA FragGcType == ASSUME DataType, NEW w \in Worker, FragGc(w) PROVE DataType'
<1>0. RouteType /\ QueueType /\ CurType /\ WorkType /\ WorldType
  BY DEF DataType
<1>1. Collected(reasm[w]) \in [FragSlot -> FragEntry]
  BY <1>0, AgedFacts DEF WorkType
<1>2. WorkType'
  BY <1>0, <1>1 DEF FragGc, WorkType
<1>3. QueueType' /\ WorldType' /\ CurType' /\ RouteType'
  BY <1>0 DEF FragGc, QueueType, WorldType, CurType, RouteType, routeVars
<1> QED
  BY <1>2, <1>3 DEF DataType

LEMMA AllAged == ASSUME WorkType PROVE [w \in Worker |-> Aged(reasm[w])] \in [Worker -> [FragSlot -> FragEntry]]
<1>1. \A w \in Worker : reasm[w] \in [FragSlot -> FragEntry]
  BY DEF WorkType
<1>2. \A w \in Worker : Aged(reasm[w]) \in [FragSlot -> FragEntry]
  BY <1>1, AgedFacts
<1> QED
  BY <1>2

LEMMA WaitType == ASSUME DataType, Wait PROVE DataType'
<1>0. RouteType /\ QueueType /\ CurType /\ WorkType /\ WorldType
  BY DEF DataType
<1>1. reasm' \in [Worker -> [FragSlot -> FragEntry]]
  BY <1>0, AllAged DEF Wait
<1>2. WorkType'
  BY <1>0, <1>1 DEF Wait, WorkType
<1>3. QueueType' /\ WorldType' /\ CurType' /\ RouteType'
  BY <1>0 DEF Wait, QueueType, WorldType, CurType, RouteType, routeVars
<1> QED
  BY <1>2, <1>3 DEF DataType

LEMMA DropHeldType ==
  ASSUME DataType, NEW w \in Worker, NEW it \in held[w], DropHeld(w, it)
  PROVE  DataType'
<1>0. RouteType /\ QueueType /\ CurType /\ WorkType /\ WorldType
  BY DEF DataType
<1>2. WorkType'
  BY <1>0 DEF DropHeld, WorkType
<1>3. QueueType' /\ WorldType' /\ CurType' /\ RouteType'
  BY <1>0 DEF DropHeld, QueueType, WorldType, CurType, RouteType, routeVars
<1> QED
  BY <1>2, <1>3 DEF DataType

(* ARPs.                                                                   *)
LEMMA LanArpType ==
  ASSUME DataType, NEW w \in Worker, NEW kind \in LanArps, NEW f \in Frame, LanArp(w, kind, f)
  PROVE  DataType'
<1>0. RouteType /\ QueueType /\ CurType /\ WorkType /\ WorldType
  BY DEF DataType
<1> DEFINE X == DataJob \cup ArpJob
           job == [pc |-> kind, f |-> f]
<1>1. /\ LanCame
      /\ lanQ' = [lanQ EXCEPT ![w] = Append(@, job)] \/ lanQ' = lanQ
      /\ UNCHANGED <<routeVars, tails, wanQ, cur, held, toWan, toLan, reasm, net,
                     peer, homes, given>>
  BY DEF LanArp
<1>2. job \in X /\ lanQ \in [Worker -> Seq(X)]
  BY <1>0 DEF ArpJob, QueueType
<1> HIDE DEF X, job
<1>3. [lanQ EXCEPT ![w] = Append(@, job)] \in [Worker -> Seq(X)]
  BY <1>2, PushType
<1>4. lanQ' \in [Worker -> Seq(X)]
  BY <1>1, <1>2, <1>3
<1>5. QueueType'
  BY <1>0, <1>1, <1>4 DEF QueueType, X
<1>6. WorldType'
  BY <1>0, <1>1, LanCameFacts DEF WorldType
<1>7. WorkType' /\ CurType' /\ RouteType'
  BY <1>0, <1>1 DEF WorkType, CurType, RouteType, routeVars
<1> QED
  BY <1>5, <1>6, <1>7 DEF DataType

LEMMA LocalArpType ==
  ASSUME DataType, NEW w \in Worker, NEW up \in BOOLEAN, LocalArp(w, up)
  PROVE  DataType'
<1>0. RouteType /\ QueueType /\ CurType /\ WorkType /\ WorldType
  BY DEF DataType
<1> DEFINE X == DataJob \cup ArpJob
           j == Head(lanQ[w])
           job == [f |-> j.f]
<1>1. /\ lanQ[w] # <<>> /\ lanQ' = [lanQ EXCEPT ![w] = Tail(@)]
      /\ toWan' = [toWan EXCEPT ![ArpSlot] = Append(@, job)] \/ toWan' = toWan
      /\ UNCHANGED <<routeVars, tails, wanQ, cur, held, toLan, reasm, net, peer,
                     came, homes, given>>
  BY DEF LocalArp
<1>2. lanQ \in [Worker -> Seq(X)] /\ toWan \in [TxSlot -> Seq(WanTx)]
  BY <1>0 DEF QueueType
<1>3. j \in X /\ lanQ' \in [Worker -> Seq(X)]
  <2> HIDE DEF X
  <2> QED
    BY <1>1, <1>2, PopType
<1> HIDE DEF j
<1>4. j.f \in Frame
  BY <1>3, JobKinds
<1>5. job \in WanTx /\ ArpSlot \in TxSlot
  BY <1>4, Sizes_ DEF WanTx, ArpSlot
<1> HIDE DEF job
<1>6. [toWan EXCEPT ![ArpSlot] = Append(@, job)] \in [TxSlot -> Seq(WanTx)]
  BY <1>2, <1>5, PushType
<1>7. toWan' \in [TxSlot -> Seq(WanTx)]
  BY <1>1, <1>2, <1>6
<1>8. QueueType'
  BY <1>0, <1>1, <1>3, <1>7 DEF QueueType
<1>9. WorldType' /\ WorkType' /\ CurType' /\ RouteType'
  BY <1>0, <1>1 DEF WorldType, WorkType, CurType, RouteType, routeVars
<1> QED
  BY <1>8, <1>9 DEF DataType

LEMMA FloodType ==
  ASSUME QueueType, NEW f \in Frame, Flood(f)
  PROVE  toLan' \in [Port \X TxSlot -> Seq(LanTx)]
<1> DEFINE X == Port \X TxSlot
           rank(li) == Cardinality({x \in Roomy : x < li})
           cloned == {li \in Roomy : rank(li) \in 1 .. Cardinality(Available)}
<1>1. toLan \in [X -> Seq(LanTx)]
  BY DEF QueueType
<1>2. CASE Roomy = {}
  BY <1>1, <1>2 DEF Flood
<1>3. CASE Roomy # {}
  <2>1. PICK clone \in [cloned -> Available] :
           toLan' = [r \in DOMAIN toLan |->
                  IF r[2] # ArpSlot THEN toLan[r]
                  ELSE IF r[1] = Min(Roomy) THEN Append(toLan[r], [f |-> f])
                  ELSE IF r[1] \in cloned THEN Append(toLan[r], [f |-> clone[r[1]]])
                  ELSE toLan[r]]
    BY <1>3 DEF Flood
  <2> HIDE DEF cloned, X
  <2>2. \A g \in Frame : [f |-> g] \in LanTx
    BY DEF LanTx
  <2>3. \A li \in cloned : clone[li] \in Frame
    BY <2>1 DEF Available
  <2>4. \A r \in X : toLan[r] \in Seq(LanTx)
    BY <1>1
  <2>5. ASSUME NEW r \in X
        PROVE  /\ Append(toLan[r], [f |-> f]) \in Seq(LanTx)
               /\ r[1] \in cloned => Append(toLan[r], [f |-> clone[r[1]]]) \in Seq(LanTx)
    BY <2>2, <2>3, <2>4
  <2>6. DOMAIN toLan = X
    BY <1>1
  <2>7. toLan' \in [X -> Seq(LanTx)]
    BY <2>1, <2>4, <2>5, <2>6
  <2> QED
    BY <2>7 DEF X
<1> QED
  BY <1>2, <1>3

LEMMA WanArpType ==
  ASSUME DataType, NEW w \in Worker, NEW known \in BOOLEAN, WanArp(w, known)
  PROVE  DataType'
<1>0. RouteType /\ QueueType /\ CurType /\ WorkType /\ WorldType
  BY DEF DataType
<1> DEFINE j == Head(wanQ[w])
           X == Port \X TxSlot
<1>1. /\ wanQ[w] # <<>> /\ wanQ' = [wanQ EXCEPT ![w] = Tail(@)]
      /\ (\E li \in Port : ArpUnicast(j.f, known, li)) \/ Flood(j.f)
      /\ UNCHANGED <<routeVars, tails, lanQ, cur, held, toWan, reasm, net, peer,
                     came, homes, given>>
  BY DEF WanArp
<1>2. j.f \in Frame /\ wanQ' \in [Worker -> Seq([f : Frame, p : DataPkt \cup ArpPkt])]
  BY <1>0, <1>1, WanHead
<1> HIDE DEF j
<1>3. toLan' \in [X -> Seq(LanTx)]
  <2>1. CASE Flood(j.f)
    BY <1>0, <1>2, <2>1, FloodType
  <2>2. ASSUME NEW li \in Port, ArpUnicast(j.f, known, li)
        PROVE  toLan' \in [X -> Seq(LanTx)]
    <3> DEFINE r == <<li, ArpSlot>>
               job == [f |-> j.f]
    <3>1. toLan' = [toLan EXCEPT ![r] = Append(@, job)] \/ toLan' = toLan
      BY <2>2 DEF ArpUnicast
    <3>2. r \in X /\ job \in LanTx /\ toLan \in [X -> Seq(LanTx)]
      BY <1>0, <1>2, Sizes_ DEF LanTx, ArpSlot, QueueType
    <3> HIDE DEF r, job, X
    <3>3. [toLan EXCEPT ![r] = Append(@, job)] \in [X -> Seq(LanTx)]
      BY <3>2, PushType
    <3> QED
      BY <3>1, <3>2, <3>3
  <2> QED
    BY <1>1, <2>1, <2>2
<1>4. QueueType'
  BY <1>0, <1>1, <1>2, <1>3 DEF QueueType
<1>5. WorldType' /\ WorkType' /\ CurType' /\ RouteType'
  BY <1>0, <1>1 DEF WorldType, WorkType, CurType, RouteType, routeVars
<1> QED
  BY <1>4, <1>5 DEF DataType

(* The TX threads and the peer.                                            *)
LEMMA TxType ==
  ASSUME DataType, (\E s \in TxSlot : TxWan(s)) \/ (\E r \in Port \X TxSlot : TxLan(r))
  PROVE  DataType'
<1>0. RouteType /\ QueueType /\ CurType /\ WorkType /\ WorldType
  BY DEF DataType
<1> DEFINE X == Port \X TxSlot
<1>1. toWan \in [TxSlot -> Seq(WanTx)] /\ toLan \in [X -> Seq(LanTx)]
  BY <1>0 DEF QueueType
<1>2. ASSUME NEW s \in TxSlot, TxWan(s) PROVE DataType'
  <2>1. /\ toWan[s] # <<>> /\ toWan' = [toWan EXCEPT ![s] = Tail(@)]
        /\ UNCHANGED <<routeVars, tails, lanQ, wanQ, cur, held, toLan, reasm, net, peer,
                       came, homes, given>>
    BY <1>2 DEF TxWan
  <2>2. toWan' \in [TxSlot -> Seq(WanTx)]
    BY <1>1, <2>1, PopType
  <2>3. QueueType'
    BY <1>0, <2>1, <2>2 DEF QueueType
  <2>4. WorldType' /\ WorkType' /\ CurType' /\ RouteType'
    BY <1>0, <2>1 DEF WorldType, WorkType, CurType, RouteType, routeVars
  <2> QED
    BY <2>3, <2>4 DEF DataType
<1>3. ASSUME NEW r \in X, TxLan(r) PROVE DataType'
  <2>1. /\ toLan[r] # <<>> /\ toLan' = [toLan EXCEPT ![r] = Tail(@)]
        /\ UNCHANGED <<routeVars, tails, lanQ, wanQ, cur, held, toWan, reasm, net, peer,
                       came, homes, given>>
    BY <1>3 DEF TxLan
  <2>2. toLan' \in [X -> Seq(LanTx)]
    <3> HIDE DEF X
    <3> QED
      BY <1>1, <2>1, PopType
  <2>3. QueueType'
    BY <1>0, <2>1, <2>2 DEF QueueType
  <2>4. WorldType' /\ WorkType' /\ CurType' /\ RouteType'
    BY <1>0, <2>1 DEF WorldType, WorkType, CurType, RouteType, routeVars
  <2> QED
    BY <2>3, <2>4 DEF DataType
<1> QED
  BY <1>2, <1>3

LEMMA PeerSendType ==
  ASSUME DataType, NEW k \in Tunnelled, NEW big \in BOOLEAN, PeerSend(k, big)
  PROVE  DataType'
<1>0. RouteType /\ QueueType /\ CurType /\ WorkType /\ WorldType
  BY DEF DataType
<1> DEFINE w == PeerWorker[k]
           pkt(part) == [part |-> part, k |-> k, worker |-> w, epoch |-> peer.epoch,
              dg |-> peer.clock[w], seq |-> peer.seq[k], id |-> <<k, peer.sent>>]
<1>1. /\ net' = net \cup {pkt(part) : part \in Parts(big)}
      /\ peer' = [peer EXCEPT !.clock[w] = @ + 1, !.seq[k] = @ + 1, !.sent = @ + 1]
      /\ UNCHANGED <<routeVars, free, tails, lanQ, wanQ, cur, held, toWan, toLan,
                     reasm, came, homes, given>>
  BY DEF PeerSend
<1>2. peer \in [epoch : Nat, clock : [Worker -> Nat], seq : [Conn -> Nat], sent : Nat]
  BY <1>0 DEF WorldType
<1>3. k \in Conn /\ w \in Worker
  BY Kinds, DatapathAssumption
<1>4. \A part \in Parts(big) : pkt(part) \in DataPkt
  <2>1. Parts(big) \subseteq {"first", "second", "full"}
    BY DEF Parts
  <2>2. /\ peer.epoch \in Nat /\ peer.clock[w] \in Nat /\ peer.seq[k] \in Nat
        /\ <<k, peer.sent>> \in Id
    BY <1>2, <1>3 DEF Id
  <2> HIDE DEF w
  <2> QED
    BY <1>3, <2>1, <2>2 DEF DataPkt
<1>5. net' \subseteq DataPkt \cup ArpPkt \cup PlainPkt
  <2> HIDE DEF pkt
  <2> QED
    BY <1>0, <1>1, <1>4 DEF WorldType
<1>6. peer' \in [epoch : Nat, clock : [Worker -> Nat], seq : [Conn -> Nat], sent : Nat]
  <2>1. peer' = [epoch |-> peer.epoch, clock |-> [peer.clock EXCEPT ![w] = @ + 1],
                 seq |-> [peer.seq EXCEPT ![k] = @ + 1], sent |-> peer.sent + 1]
    <3> HIDE DEF w
    <3> QED
      BY <1>1, <1>2
  <2>2. /\ peer.epoch \in Nat /\ peer.sent \in Nat
        /\ peer.clock \in [Worker -> Nat] /\ peer.seq \in [Conn -> Nat]
    BY <1>2
  <2>3. [peer.clock EXCEPT ![w] = @ + 1] \in [Worker -> Nat]
    <3> HIDE DEF w
    <3> QED
      BY <1>3, <2>2
  <2>4. [peer.seq EXCEPT ![k] = @ + 1] \in [Conn -> Nat]
    BY <1>3, <2>2
  <2> HIDE DEF w
  <2> QED
    BY <2>1, <2>2, <2>3, <2>4
<1>7. WorldType'
  BY <1>0, <1>1, <1>5, <1>6 DEF WorldType
<1>8. QueueType' /\ WorkType' /\ CurType' /\ RouteType'
  BY <1>0, <1>1 DEF QueueType, WorkType, CurType, RouteType, routeVars
<1> QED
  BY <1>7, <1>8 DEF DataType

LEMMA PeerOtherType ==
  ASSUME DataType, NEW k \in Bypass, NEW part \in {"plain"} \cup WanArps, PeerOther(part, k)
  PROVE  DataType'
<1>0. RouteType /\ QueueType /\ CurType /\ WorkType /\ WorldType
  BY DEF DataType
<1> DEFINE pkt == [part |-> part, k |-> k, worker |-> Hash[k] % NWorker,
                   id |-> <<k, peer.sent>>]
<1>1. /\ net' = net \cup {pkt} /\ peer' = [peer EXCEPT !.sent = @ + 1]
      /\ UNCHANGED <<routeVars, free, tails, lanQ, wanQ, cur, held, toWan, toLan,
                     reasm, came, homes, given>>
  BY DEF PeerOther
<1>2. peer \in [epoch : Nat, clock : [Worker -> Nat], seq : [Conn -> Nat], sent : Nat]
  BY <1>0 DEF WorldType
<1>3. Hash[k] % NWorker \in Worker /\ k \in Conn
  BY Kinds, CanonicalType DEF Canonical, Home
<1>4. pkt \in ArpPkt \cup PlainPkt
  <2>1. <<k, peer.sent>> \in Id
    BY <1>2, <1>3 DEF Id
  <2> QED
    BY <1>3, <2>1 DEF ArpPkt, PlainPkt
<1> HIDE DEF pkt
<1>5. WorldType'
  <2>1. peer' \in [epoch : Nat, clock : [Worker -> Nat], seq : [Conn -> Nat], sent : Nat]
    BY <1>1, <1>2
  <2> QED
    BY <1>0, <1>1, <1>4, <2>1 DEF WorldType
<1>6. QueueType' /\ WorkType' /\ CurType' /\ RouteType'
  BY <1>0, <1>1 DEF QueueType, WorkType, CurType, RouteType, routeVars
<1> QED
  BY <1>5, <1>6 DEF DataType

LEMMA RestartType ==
  ASSUME DataType, PeerReboot \/ PeerRuntimeRestart
  PROVE  DataType'
<1>0. RouteType /\ QueueType /\ CurType /\ WorkType /\ WorldType
  BY DEF DataType
<1>1. /\ \/ peer' = [peer EXCEPT !.epoch = @ + 1, !.clock = [w \in Worker |-> 0],
                                 !.seq = [k \in Conn |-> 0]]
         \/ peer' = [peer EXCEPT !.clock = [w \in Worker |-> 0]]
      /\ net' \in {net, {}} /\ came' = [came EXCEPT !.fault = @ + 1]
      /\ UNCHANGED <<routeVars, free, tails, lanQ, wanQ, cur, held, toWan, toLan,
                     homes, given>>
      /\ reasm' \in {reasm, [w \in Worker |-> Aged(reasm[w])]}
  BY DEF PeerReboot, PeerRuntimeRestart, CanRestart
<1>2. peer' \in [epoch : Nat, clock : [Worker -> Nat], seq : [Conn -> Nat], sent : Nat]
  <2>1. peer \in [epoch : Nat, clock : [Worker -> Nat], seq : [Conn -> Nat], sent : Nat]
    BY <1>0 DEF WorldType
  <2>2. [w \in Worker |-> 0] \in [Worker -> Nat] /\ [k \in Conn |-> 0] \in [Conn -> Nat]
    OBVIOUS
  <2>3. CASE peer' = [peer EXCEPT !.clock = [w \in Worker |-> 0]]
    BY <2>1, <2>2, <2>3
  <2>4. CASE peer' = [peer EXCEPT !.epoch = @ + 1, !.clock = [w \in Worker |-> 0],
                                  !.seq = [k \in Conn |-> 0]]
    <3> DEFINE c == [w \in Worker |-> 0]
               q == [k \in Conn |-> 0]
    <3>1. c \in [Worker -> Nat] /\ q \in [Conn -> Nat]
      OBVIOUS
    <3>2. peer' = [peer EXCEPT !.epoch = @ + 1, !.clock = c, !.seq = q]
      BY <2>4
    <3> HIDE DEF c, q
    <3>3. peer' = [epoch |-> peer.epoch + 1, clock |-> c, seq |-> q, sent |-> peer.sent]
      BY <2>1, <3>2
    <3>4. peer.epoch \in Nat /\ peer.sent \in Nat
      BY <2>1
    <3> QED
      BY <3>1, <3>3, <3>4
  <2> QED
    BY <1>1, <2>3, <2>4
<1>3. came' \in [lan : Nat, fault : Nat]
  BY <1>0, <1>1 DEF WorldType
<1>4. WorldType'
  BY <1>0, <1>1, <1>2, <1>3 DEF WorldType
<1>5. reasm' \in [Worker -> [FragSlot -> FragEntry]]
  BY <1>0, <1>1, AllAged DEF WorkType
<1>6. QueueType' /\ WorkType' /\ CurType' /\ RouteType'
  BY <1>0, <1>1, <1>5 DEF QueueType, WorkType, CurType, RouteType, routeVars
<1> QED
  BY <1>4, <1>6 DEF DataType

LEMMA InitType == Init => DataType
<1>1. SUFFICES ASSUME Init PROVE DataType
  OBVIOUS
<1>2. RouteType
  BY <1>1, Sizes_, EmptySeq DEF Init, RouteInit, RouteType
<1>3. QueueType
  BY <1>1, EmptySeq DEF Init, QueueType
<1>4. CurType
  BY <1>1 DEF Init, CurType, Thread, LanRx
<1>5. WorkType
  <2>1. Cleared \in FragEntry
    BY Sizes_ DEF Cleared, FragEntry, Half
  <2> QED
    BY <1>1, <2>1 DEF Init, WorkType
<1>6. WorldType
  BY <1>1, EmptySeq DEF Init, WorldType
<1> QED
  BY <1>2, <1>3, <1>4, <1>5, <1>6 DEF DataType

(* Every step keeps the types.                                             *)
LEMMA NextType ==
  ASSUME DataType, [Next]_vars
  PROVE  DataType'
<1>1. \A k \in Conn : Sizes[k] \subseteq BOOLEAN /\ PeerSizes[k] \subseteq BOOLEAN
  BY DatapathAssumption
<1>2. Available \subseteq Frame /\ Tunnelled \subseteq Conn
  BY Kinds DEF Available
<1>3. CASE UNCHANGED vars
  BY <1>3 DEF vars, pathVars, routeVars, DataType, RouteType, QueueType, CurType, WorkType,
              WorldType
<1>4. ASSUME NEW f \in Available, NEW k \in Conn,
             LanBypass(k, f) \/ \E big \in Sizes[k] : LanArrive(k, big, f)
      PROVE  DataType'
  BY <1>1, <1>2, <1>4, LanBypassType, LanArriveType
<1>5. CASE LanInsert
  BY <1>5, LanInsertType
<1>6. ASSUME NEW f \in Available, NEW w \in Worker, NEW kind \in LanArps, LanArp(w, kind, f)
      PROVE  DataType'
  BY <1>2, <1>6, LanArpType
<1>7. ASSUME NEW w \in Worker, NEW b \in BOOLEAN,
             \/ LocalAdmit(w, b) \/ LocalWhole(w, b) \/ LocalSplit(w, b)
             \/ LocalArp(w, b) \/ WanArp(w, b)
             \/ EmitInsert(w, b)
             \/ \E pass \in BOOLEAN : WanDecrypt(w, b, pass)
      PROVE  DataType'
  BY <1>7, LocalAdmitType, LocalWholeType, LocalSplitType, LocalArpType, WanArpType,
     EmitInsertType, WanDecryptType
<1>8. ASSUME NEW w \in Worker, FragGc(w) PROVE DataType'
  BY <1>8, FragGcType
<1>9. ASSUME NEW w \in Worker, NEW it \in held[w],
             DropHeld(w, it) \/ \E known \in BOOLEAN : Emit(w, it, known)
      PROVE  DataType'
  BY <1>9, DropHeldType, EmitType
<1>10. ASSUME NEW f \in Available, NEW p \in net, NEW b \in BOOLEAN,
              WanBypass(p, b, f) \/ WanArrive(p, b, f)
       PROVE  DataType'
  BY <1>2, <1>10, WanBypassType, WanArriveType
<1>11. CASE (\E s \in TxSlot : TxWan(s)) \/ (\E r \in Port \X TxSlot : TxLan(r))
  BY <1>11, TxType
<1>12. ASSUME NEW k \in Tunnelled, NEW big \in PeerSizes[k], PeerSend(k, big)
       PROVE  DataType'
  BY <1>1, <1>2, <1>12, PeerSendType
<1>13. ASSUME NEW k \in Bypass, NEW part \in {"plain"} \cup WanArps, PeerOther(part, k)
       PROVE  DataType'
  BY <1>13, PeerOtherType
<1>14. CASE PeerReboot \/ PeerRuntimeRestart \/ Wait
  BY <1>14, RestartType, WaitType
<1> QED
  BY <1>3, <1>4, <1>5, <1>6, <1>7, <1>8, <1>9, <1>10, <1>11, <1>12, <1>13, <1>14 DEF Next

----------------------------------------------------------------------------
(* One worker and one slot per connection.                                 *)

Row(i, k) == i \in 1..Len(table) /\ table[i].key = k
HomeAt(i) == [worker |-> table[i].worker, slot |-> table[i].slot]

(* A connection has one way at most.  The home its frames were given is    *)
(* the one in its way, or the canonical one if the set is full without it. *)
RouteInv ==
  /\ Len(table) <= Ways
  /\ \A i, j \in 1..Len(table) : table[i].key = table[j].key => i = j
  /\ \A k \in Conn : homes[k] # {} =>
       \/ \E i \in 1..Len(table) : table[i].key = k /\ homes[k] = {HomeAt(i)}
       \/ /\ \A i \in 1..Len(table) : table[i].key # k
          /\ Len(table) = Ways /\ homes[k] = {Canonical(k)}

(* The lookup finds the only way there is.                                 *)
LEMMA LookupFacts ==
  ASSUME RouteType, RouteInv, NEW k
  PROVE  /\ Len(table) \in Nat
         /\ Known(k) <=> \E i \in 1..Len(table) : table[i].key = k
         /\ \A i \in 1..Len(table) : table[i].key = k => WayOf(k) = i /\ Route(k) = HomeAt(i)
<1>1. Len(table) \in Nat /\ DOMAIN table = 1..Len(table)
  BY LenProperties DEF RouteType
<1>2. Known(k) <=> \E i \in 1..Len(table) : table[i].key = k
  BY <1>1 DEF Known, WaysOf
<1>3. ASSUME NEW i \in 1..Len(table), table[i].key = k
      PROVE  WayOf(k) = i /\ Route(k) = HomeAt(i)
  <2>1. Known(k)
    BY <1>2, <1>3
  <2>2. WayOf(k) \in 1..Len(table) /\ table[WayOf(k)].key = k
    BY <2>1, WayFacts
  <2>3. WayOf(k) = i
    BY <2>2, <1>3 DEF RouteInv
  <2> QED
    BY <2>3 DEF Route, HomeAt
<1> QED
  BY <1>1, <1>2, <1>3

(* Entering a connection, and giving a frame of it a home.                 *)
LEMMA InsertKeeps ==
  ASSUME RouteType, RouteInv, homes \in [Conn -> SUBSET Home],
         NEW k \in Conn, NEW hint \in Thread, Insert(k, hint),
         homes' = homes \/ homes' = [homes EXCEPT ![k] = @ \cup {Routed(k, hint)}]
  PROVE  RouteInv'
<1>1. Len(table) \in Nat /\ table \in Seq(RouteEntry)
  BY LookupFacts DEF RouteType
<1>2. \A c \in Conn : c # k => homes'[c] = homes[c]
  OBVIOUS
<1>3. homes'[k] = homes[k] \/ homes'[k] = homes[k] \cup {Routed(k, hint)}
  OBVIOUS
<1> DEFINE e == NewEntry(k, hint)
<1>4. CASE Known(k)
  <2>1. table' = table
    BY <1>4 DEF Insert
  <2>2. PICK i \in 1..Len(table) : table[i].key = k
    BY <1>4, LookupFacts
  <2>3. Routed(k, hint) = HomeAt(i)
    BY <1>4, <2>2, LookupFacts DEF Routed
  <2>4. homes[k] = {} \/ homes[k] = {HomeAt(i)}
    BY <2>2 DEF RouteInv
  <2>5. homes'[k] = {} \/ homes'[k] = {HomeAt(i)}
    BY <1>3, <2>3, <2>4
  <2> QED
    BY <1>2, <2>1, <2>2, <2>5 DEF RouteInv, HomeAt
<1>5. CASE ~Known(k) /\ Len(table) >= Ways
  <2>1. table' = table
    BY <1>1, <1>5, Sizes_ DEF Insert
  <2>2. \A i \in 1..Len(table) : table[i].key # k
    BY <1>5, LookupFacts
  <2>3. Routed(k, hint) = Canonical(k)
    BY <1>1, <1>5, Sizes_ DEF Routed
  <2>4. homes[k] = {} \/ homes[k] = {Canonical(k)}
    BY <2>2 DEF RouteInv
  <2>5. homes'[k] = {} \/ homes'[k] = {Canonical(k)}
    BY <1>3, <2>3, <2>4
  <2>6. Len(table) = Ways
    BY <1>1, <1>5, Sizes_ DEF RouteInv
  <2> QED
    BY <1>2, <2>1, <2>2, <2>5, <2>6 DEF RouteInv, HomeAt
<1>6. CASE ~Known(k) /\ Len(table) < Ways
  <2>1. table' = Append(table, e) /\ e.key = k
    BY <1>6, NewEntryType DEF Insert
  <2>2. \A i \in 1..Len(table) : table[i].key # k
    BY <1>6, LookupFacts
  <2>3. Routed(k, hint) = [worker |-> e.worker, slot |-> e.slot]
    BY <1>6 DEF Routed
  <2>4. homes[k] = {}
    BY <1>1, <1>6, <2>2, Sizes_ DEF RouteInv
  <2>5. /\ Len(table') = Len(table) + 1 /\ table'[Len(table) + 1] = e
        /\ \A i \in 1..Len(table) : table'[i] = table[i]
    <3> HIDE DEF e
    <3> QED
      BY <1>1, <2>1
  <2> HIDE DEF e
  <2>n. PICK n \in Nat : n = Len(table) + 1
    BY <1>1
  <2>6. homes'[k] = {} \/ homes'[k] = {HomeAt(n)'}
    BY <1>3, <2>3, <2>4, <2>5, <2>n DEF HomeAt
  <2>7. \A c \in Conn : homes'[c] # {} => \E i \in 1..Len(table') :
          table'[i].key = c /\ homes'[c] = {HomeAt(i)'}
    <3>1. SUFFICES ASSUME NEW c \in Conn, homes'[c] # {}
                   PROVE  \E i \in 1..Len(table') : table'[i].key = c /\ homes'[c] = {HomeAt(i)'}
      OBVIOUS
    <3>2. CASE c = k
      <4>1. n \in 1..Len(table') /\ table'[n].key = k
        BY <1>1, <2>1, <2>5, <2>n
      <4> QED
        BY <2>6, <3>1, <3>2, <4>1
    <3>3. CASE c # k
      <4>1. PICK i \in 1..Len(table) : table[i].key = c /\ homes[c] = {HomeAt(i)}
        BY <1>1, <1>2, <1>6, <3>1, <3>3, Sizes_ DEF RouteInv
      <4>2. i \in 1..Len(table') /\ table'[i] = table[i]
        BY <1>1, <2>5
      <4> QED
        BY <1>2, <3>3, <4>1, <4>2 DEF HomeAt
    <3> QED
      BY <3>2, <3>3
  <2>8. \A i, j \in 1..Len(table') : table'[i].key = table'[j].key => i = j
    <3>1. ASSUME NEW i \in 1..Len(table') PROVE i \in 1..Len(table) \/ i = Len(table) + 1
      BY <1>1, <2>5
    <3> QED
      BY <2>1, <2>2, <2>5, <3>1 DEF RouteInv
  <2>9. Len(table') <= Ways
    BY <1>1, <1>6, <2>5, Sizes_
  <2> QED
    BY <2>7, <2>8, <2>9 DEF RouteInv
<1> QED
  BY <1>1, <1>4, <1>5, <1>6, Sizes_

(* Numbering a datagram.                                                   *)
LEMMA CountKeeps ==
  ASSUME RouteType, RouteInv, NEW w \in Worker, NEW k \in Conn, Count(w, k), homes' = homes
  PROVE  RouteInv'
<1>1. CASE ~Known(k)
  <2>1. table' = table
    BY <1>1, CountFacts
  <2> QED
    BY <2>1 DEF RouteInv, HomeAt
<1>2. CASE Known(k)
  <2>1. /\ Len(table') = Len(table)
        /\ \A i \in 1..Len(table) :
             table'[i] = IF i = WayOf(k) THEN [table[i] EXCEPT !.seq = @ + 1] ELSE table[i]
    BY <1>2, CountFacts
  <2>2. \A i \in 1..Len(table) : table[i] \in RouteEntry
    BY ElementOfSeq DEF RouteType
  <2>3. ASSUME NEW i \in 1..Len(table)
        PROVE  /\ table'[i].key = table[i].key
               /\ table'[i].worker = table[i].worker /\ table'[i].slot = table[i].slot
    BY <2>1, <2>2 DEF RouteEntry
  <2>4. \A i \in 1..Len(table) : HomeAt(i)' = HomeAt(i)
    BY <2>3 DEF HomeAt
  <2> QED
    BY <2>1, <2>3, <2>4 DEF RouteInv
<1> QED
  BY <1>1, <1>2

LEMMA RouteSame ==
  ASSUME RouteInv, table' = table, homes' = homes
  PROVE  RouteInv'
  BY DEF RouteInv, HomeAt

LEMMA RouteStep ==
  ASSUME DataType, RouteInv, [Next]_vars
  PROVE  RouteInv'
<1>0. RouteType /\ CurType /\ homes \in [Conn -> SUBSET Home] /\ Tunnelled \subseteq Conn
  BY Kinds DEF DataType, WorldType
<1>1. CASE LanInsert
  <2>1. J(LanRx) \in RxJob
    BY <1>0, <1>1, RxInHand DEF LanInsert
  <2>2. J(LanRx).k \in Conn /\ NoHint \in Thread
    BY <1>0, <2>1 DEF RxJob, Thread
  <2>3. /\ Insert(J(LanRx).k, NoHint)
        /\ homes' = [homes EXCEPT ![J(LanRx).k] = @ \cup {Routed(J(LanRx).k, NoHint)}]
    BY <1>1 DEF LanInsert, Queue
  <2> QED
    BY <1>0, <2>2, <2>3, InsertKeeps
<1>2. ASSUME NEW w \in Worker, NEW b \in BOOLEAN, EmitInsert(w, b)
      PROVE  RouteInv'
  <2>1. J(w) \in EmitJob /\ w \in Thread
    BY <1>0, <1>2, InHand, JobKinds DEF EmitInsert
  <2>2. J(w).k \in Conn
    BY <1>0, <2>1 DEF EmitJob
  <2>3. Insert(J(w).k, w) /\ homes' = homes
    BY <1>2 DEF EmitInsert
  <2> QED
    BY <1>0, <2>1, <2>2, <2>3, InsertKeeps
<1>3. ASSUME NEW w \in Worker, NEW b \in BOOLEAN, LocalWhole(w, b) \/ LocalSplit(w, b)
      PROVE  RouteInv'
  <2>1. Working(w, "encrypt") /\ Count(w, J(w).k) /\ homes' = homes
    BY <1>3 DEF LocalWhole, LocalSplit, Number
  <2>2. J(w) \in EncryptJob
    BY <1>0, <2>1, InHand, JobKinds
  <2>3. J(w).k \in Conn
    BY <1>0, <2>2 DEF EncryptJob
  <2> QED
    BY <1>0, <2>1, <2>3, CountKeeps
<1>4. ASSUME NEW f, NEW k \in Conn, NEW big, LanArrive(k, big, f)
      PROVE  RouteInv'
  <2>1. table' = table
    BY <1>4 DEF LanArrive, routeVars
  <2>2. CASE ~Known(k)
    <3>1. homes' = homes
      BY <1>4, <2>2 DEF LanArrive
    <3> QED
      BY <2>1, <3>1, RouteSame
  <2>3. CASE Known(k)
    <3>1. homes' = [homes EXCEPT ![k] = @ \cup {Route(k)}]
      BY <1>4, <2>3 DEF LanArrive, Queue
    <3>2. PICK i \in 1..Len(table) : table[i].key = k /\ Route(k) = HomeAt(i)
      BY <1>0, <2>3, LookupFacts
    <3>3. homes[k] = {} \/ homes[k] = {HomeAt(i)}
      BY <3>2 DEF RouteInv
    <3>4. homes'[k] = {HomeAt(i)} /\ \A c \in Conn : c # k => homes'[c] = homes[c]
      BY <1>0, <3>1, <3>2, <3>3
    <3> QED
      BY <2>1, <3>2, <3>4 DEF RouteInv, HomeAt
  <2> QED
    BY <2>2, <2>3
<1>5. ASSUME \/ UNCHANGED vars
             \/ \E f, k, kind, w : LanBypass(k, f) \/ LanArp(w, kind, f)
             \/ \E w, b : LocalAdmit(w, b) \/ LocalArp(w, b) \/ WanArp(w, b)
             \/ \E w, b, pass : WanDecrypt(w, b, pass)
             \/ \E w : FragGc(w)
             \/ \E w, it, known : DropHeld(w, it) \/ Emit(w, it, known)
             \/ \E f, p, b : WanBypass(p, b, f) \/ WanArrive(p, b, f)
             \/ \E s : TxWan(s) \/ TxLan(s)
             \/ \E k, big : PeerSend(k, big) \/ PeerOther(big, k)
             \/ PeerReboot \/ PeerRuntimeRestart \/ Wait
      PROVE  RouteInv'
  <2>1. table' = table /\ homes' = homes
    BY <1>5 DEF vars, pathVars, routeVars, LanBypass, LanArp, LocalAdmit, LocalArp, WanArp,
       WanDecrypt, FragGc, DropHeld, Emit, WanBypass, WanArrive, TxWan, TxLan, PeerSend,
       PeerOther, PeerReboot, PeerRuntimeRestart, Wait
  <2> QED
    BY <2>1, RouteSame
<1> QED
  BY <1>1, <1>2, <1>3, <1>4, <1>5 DEF Next

LEMMA RouteInitial == Init => RouteInv
<1>1. SUFFICES ASSUME Init PROVE RouteInv
  OBVIOUS
<1>2. table = <<>> /\ homes = [k \in Conn |-> {}]
  BY <1>1 DEF Init, RouteInit
<1>3. Len(table) = 0
  BY <1>2
<1>4. \A k \in Conn : homes[k] = {}
  BY <1>2
<1> QED
  BY <1>3, <1>4, Sizes_ DEF RouteInv

(* A connection's frames are given one home.                               *)
LEMMA OneHome == ASSUME RouteInv PROVE OneWorker
<1>1. SUFFICES ASSUME NEW k \in Conn PROVE Cardinality(homes[k]) <= 1
  BY DEF OneWorker
<1>2. homes[k] = {} \/ \E h : homes[k] = {h}
  BY DEF RouteInv
<1>3. CASE homes[k] = {}
  BY <1>3, FS_EmptySet
<1>4. ASSUME NEW h, homes[k] = {h} PROVE Cardinality(homes[k]) <= 1
  <2>1. Cardinality({h}) = 1
    BY FS_Singleton
  <2> QED
    BY <1>4, <2>1
<1> QED
  BY <1>2, <1>3, <1>4

----------------------------------------------------------------------------
(* What leaves the reassembly is one datagram.                             *)

(* The encrypted packets on their way to a worker.                         *)
InFlight(w) ==
  {p \in DataPkt : \/ p \in net /\ p.worker = w
                   \/ \E i \in 1..Len(wanQ[w]) : wanQ[w][i].p = p}

(* Epoch m and datagram number d were used for worker w since its clock    *)
(* was last set to zero.                                                   *)
Used(w, m, d) == m < peer.epoch \/ (m = peer.epoch /\ d < peer.clock[w])

(* Epoch and number name one datagram among the packets on their way and   *)
(* the halves that have not timed out; no half waits for one that is here. *)
TagInv ==
  /\ \A w \in Worker : \A p, q \in InFlight(w) :
       p.epoch = q.epoch /\ p.dg = q.dg => p.id = q.id
  /\ \A w \in Worker : \A p \in InFlight(w) : Used(w, p.epoch, p.dg)
  /\ \A w \in Worker : \A s \in FragSlot : LET e == reasm[w][s] IN
       /\ ~Whole(e)
       /\ Occupied(e) /\ ~e.old =>
            /\ Used(w, e.epoch, e.dg)
            /\ \A p \in InFlight(w) : p.epoch = e.epoch /\ p.dg = e.dg =>
                 e.first \in {NoHalf, p.id} /\ e.second \in {NoHalf, p.id}

(* The two halves of what a worker holds, emits and has sent.              *)
Paired(q) == \A i \in 1..Len(q) : "first" \in DOMAIN q[i] => q[i].first = q[i].second
PairInv ==
  /\ \A w \in Worker : \A it \in held[w] : it.first = it.second
  /\ \A w \in Worker : cur[w] # <<>> /\ cur[w][1].pc = "insert" =>
       cur[w][1].first = cur[w][1].second
  /\ \A r \in Port \X TxSlot : Paired(toLan[r])

(* Packets only leave.                                                     *)
LEMMA TagsShrink ==
  ASSUME TagInv, peer' = peer, reasm' = reasm,
         \A w \in Worker : InFlight(w)' \subseteq InFlight(w)
  PROVE  TagInv'
  BY DEF TagInv, Used

LEMMA TagsSame ==
  ASSUME TagInv, UNCHANGED <<net, wanQ, reasm, peer>>
  PROVE  TagInv'
  BY DEF TagInv, Used, InFlight

LEMMA PairSame ==
  ASSUME PairInv, UNCHANGED <<held, cur, toLan>>
  PROVE  PairInv'
  BY DEF PairInv

LEMMA PairedPush ==
  ASSUME NEW q \in Seq(LanTx), Paired(q), NEW j \in LanTx,
         "first" \in DOMAIN j => j.first = j.second
  PROVE  Paired(Append(q, j))
<1>1. /\ Len(q) \in Nat /\ Len(Append(q, j)) = Len(q) + 1 /\ Append(q, j)[Len(q) + 1] = j
      /\ \A i \in 1..Len(q) : Append(q, j)[i] = q[i]
  BY LenProperties
<1>2. \A i \in 1..(Len(q) + 1) : i \in 1..Len(q) \/ i = Len(q) + 1
  BY <1>1
<1> QED
  BY <1>1, <1>2 DEF Paired

LEMMA PairedTail ==
  ASSUME NEW q \in Seq(LanTx), Paired(q), q # <<>>
  PROVE  Paired(Tail(q))
<1>1. /\ Len(q) \in Nat /\ Len(Tail(q)) = Len(q) - 1
      /\ \A i \in 1..Len(Tail(q)) : Tail(q)[i] = q[i + 1]
  BY LenProperties, HeadTailProperties
<1>2. \A i \in 1..(Len(q) - 1) : i + 1 \in 1..Len(q)
  BY <1>1
<1> QED
  BY <1>1, <1>2 DEF Paired

(* The head of a worker's queue was on its way to the worker; what is left *)
(* still is.                                                               *)
LEMMA TakenFacts ==
  ASSUME QueueType, NEW w \in Worker, wanQ[w] # <<>>, wanQ' = [wanQ EXCEPT ![w] = Tail(@)],
         net' = net
  PROVE  /\ Head(wanQ[w]).p \in DataPkt => Head(wanQ[w]).p \in InFlight(w)
         /\ \A v \in Worker : InFlight(v)' \subseteq InFlight(v)
<1> DEFINE X == [f : Frame, p : DataPkt \cup ArpPkt]
<1>1. wanQ \in [Worker -> Seq(X)]
  BY DEF QueueType
<1> HIDE DEF X
<1>2. /\ Len(wanQ[w]) \in Nat /\ Len(wanQ[w]) > 0 /\ Head(wanQ[w]) = wanQ[w][1]
      /\ Len(Tail(wanQ[w])) = Len(wanQ[w]) - 1
      /\ \A i \in 1..(Len(wanQ[w]) - 1) : Tail(wanQ[w])[i] = wanQ[w][i + 1]
  BY <1>1, PopType
<1>3. 1 \in 1..Len(wanQ[w])
  BY <1>2
<1>4. Head(wanQ[w]).p \in DataPkt => Head(wanQ[w]).p \in InFlight(w)
  BY <1>2, <1>3 DEF InFlight
<1>5. ASSUME NEW v \in Worker, NEW i \in 1..Len(wanQ'[v])
      PROVE  \E x \in 1..Len(wanQ[v]) : wanQ'[v][i] = wanQ[v][x]
  <2>1. CASE v # w
    <3>1. wanQ'[v] = wanQ[v]
      BY <1>1, <2>1
    <3> QED
      BY <1>5, <3>1
  <2>2. CASE v = w
    <3>1. wanQ'[v] = Tail(wanQ[w])
      BY <1>1, <2>2
    <3>2. i \in 1..Len(Tail(wanQ[w]))
      BY <1>5, <3>1
    <3>3. ASSUME NEW n \in Nat, n > 0, NEW x \in 1..(n - 1) PROVE x + 1 \in 1..n
      OBVIOUS
    <3>4. i \in 1..(Len(wanQ[w]) - 1)
      BY <1>2, <3>2
    <3>5. i + 1 \in 1..Len(wanQ[w])
      BY <1>2, <3>3, <3>4
    <3> QED
      BY <1>2, <2>2, <3>1, <3>4, <3>5
  <2> QED
    BY <2>1, <2>2
<1>6. \A v \in Worker : InFlight(v)' \subseteq InFlight(v)
  BY <1>5 DEF InFlight
<1> QED
  BY <1>4, <1>6

LEMMA WanArriveTags ==
  ASSUME DataType, TagInv, NEW p \in net, NEW again \in BOOLEAN, NEW f \in Frame,
         WanArrive(p, again, f)
  PROVE  TagInv'
<1> DEFINE X == [f : Frame, p : DataPkt \cup ArpPkt]
           job == [f |-> f, p |-> p]
<1>0. QueueType /\ WorldType
  BY DEF DataType
<1>1. /\ WanCame(p, again) /\ UNCHANGED <<reasm, peer>>
      /\ wanQ' = [wanQ EXCEPT ![p.worker] = Append(@, job)] \/ wanQ' = wanQ
  BY DEF WanArrive
<1>2. net' \subseteq net
  BY <1>0, <1>1, WanCameFacts
<1>3. wanQ \in [Worker -> Seq(X)]
  BY <1>0 DEF QueueType
<1> HIDE DEF X
<1>4. ASSUME NEW v \in Worker, NEW i \in 1..Len(wanQ'[v])
      PROVE  \/ \E x \in 1..Len(wanQ[v]) : wanQ'[v][i] = wanQ[v][x]
             \/ v = p.worker /\ wanQ'[v][i].p = p
  <2>1. CASE wanQ'[v] = wanQ[v]
    BY <1>4, <2>1
  <2>2. CASE wanQ'[v] # wanQ[v]
    <3>1. v = p.worker /\ wanQ'[v] = Append(wanQ[v], job)
      BY <1>1, <1>3, <2>2
    <3> HIDE DEF job
    <3>2. /\ Len(wanQ[v]) \in Nat /\ Len(wanQ'[v]) = Len(wanQ[v]) + 1
          /\ wanQ'[v][Len(wanQ[v]) + 1] = job
          /\ \A x \in 1..Len(wanQ[v]) : wanQ'[v][x] = wanQ[v][x]
      BY <1>3, <3>1, LenProperties
    <3>3. i \in 1..Len(wanQ[v]) \/ i = Len(wanQ[v]) + 1
      BY <1>4, <3>2
    <3> QED
      BY <3>1, <3>2, <3>3 DEF job
  <2> QED
    BY <2>1, <2>2
<1>5. \A v \in Worker : InFlight(v)' \subseteq InFlight(v)
  BY <1>2, <1>4 DEF InFlight
<1> QED
  BY <1>1, <1>5, TagsShrink

(* A half is stored, or completes its datagram.                            *)
LEMMA DecryptTags ==
  ASSUME DataType, TagInv, PairInv, NEW w \in Worker, NEW dec \in BOOLEAN, NEW pass \in BOOLEAN,
         WanDecrypt(w, dec, pass)
  PROVE  TagInv' /\ PairInv'
<1>0. QueueType /\ WorkType /\ WorldType
  BY DEF DataType
<1> DEFINE j == Head(wanQ[w])
           p == j.p
           e == Filled(reasm[w], p)
<1>1. /\ wanQ[w] # <<>> /\ p.part \notin WanArps /\ wanQ' = [wanQ EXCEPT ![w] = Tail(@)]
      /\ reasm' = IF dec THEN [reasm EXCEPT ![w] = Table(w, j)] ELSE reasm
      /\ \/ held' = held
         \/ dec /\ Complete(w, j) /\ held' = [held EXCEPT ![w] = @ \cup {Item(w, j)}]
      /\ UNCHANGED <<net, peer, cur, toLan>>
  BY DEF WanDecrypt
<1>2. p \in DataPkt
  BY <1>0, <1>1, WanHead, JobKinds
<1>3. p \in InFlight(w) /\ \A v \in Worker : InFlight(v)' \subseteq InFlight(v)
  BY <1>0, <1>1, <1>2, TakenFacts
<1>4. reasm \in [Worker -> [FragSlot -> FragEntry]] /\ held \in [Worker -> SUBSET HeldItem]
  BY <1>0 DEF WorkType
<1> HIDE DEF j, p, e
<1>5. ASSUME p.part # "full"
      PROVE  /\ e.epoch = p.epoch /\ e.dg = p.dg /\ ~e.old
             /\ e.first \in {NoHalf, p.id} /\ e.second \in {NoHalf, p.id}
  <2> DEFINE t == reasm[w]
             Same(s) == ~t[s].old /\ t[s].epoch = p.epoch /\ t[s].dg = p.dg
  <2>1. t \in [FragSlot -> FragEntry]
    BY <1>4
  <2> HIDE DEF t
  <2>2. /\ e.epoch = p.epoch /\ e.dg = p.dg /\ ~e.old
        /\ \/ /\ p.part = "first" /\ e.first = p.id
              /\ e.second = NoHalf \/ \E s \in FragSlot : Same(s) /\ e.second = t[s].second
           \/ /\ p.part = "second" /\ e.second = p.id
              /\ e.first = NoHalf \/ \E s \in FragSlot : Same(s) /\ e.first = t[s].first
    BY <1>2, <1>5, <2>1, FilledFacts DEF e, t
  <2>3. ASSUME NEW s \in FragSlot, Same(s)
        PROVE  t[s].first \in {NoHalf, p.id} /\ t[s].second \in {NoHalf, p.id}
    <3>1. Occupied(t[s]) => t[s].first \in {NoHalf, p.id} /\ t[s].second \in {NoHalf, p.id}
      BY <1>3, <2>3 DEF TagInv, t
    <3> QED
      BY <3>1 DEF Occupied
  <2> QED
    BY <2>2, <2>3
<1>6. PairInv'
  <2>1. Complete(w, j) => Item(w, j).first = Item(w, j).second
    <3>1. CASE p.part = "full"
      BY <3>1 DEF Item, p
    <3>2. CASE p.part # "full"
      <4>1. Complete(w, j) => e.first # NoHalf /\ e.second # NoHalf
        BY <3>2 DEF Complete, Whole, e, p
      <4>2. Item(w, j).first = e.first /\ Item(w, j).second = e.second
        BY <3>2 DEF Item, e, p
      <4> QED
        BY <1>5, <3>2, <4>1, <4>2
    <3> QED
      BY <3>1, <3>2
  <2>2. \A v \in Worker : \A it \in held'[v] :
          it \in held[v] \/ (Complete(w, j) /\ it = Item(w, j))
    BY <1>1, <1>4
  <2> QED
    BY <1>1, <2>1, <2>2 DEF PairInv
<1>7. TagInv'
  <2>1. CASE ~dec \/ p.part = "full"
    <3>1. reasm' = reasm
      <4>1. Table(w, j) = reasm[w] \/ ~dec
        BY <2>1 DEF Table, p
      <4> QED
        BY <1>1, <1>4, <4>1
    <3> QED
      BY <1>1, <1>3, <3>1, TagsShrink
  <2>2. CASE dec /\ p.part # "full"
    <3> DEFINE R == Reassembled(reasm[w], p)
    <3>1. reasm' = [reasm EXCEPT ![w] = R]
      BY <1>1, <2>2 DEF Table, p
    <3>2. R \in [FragSlot -> FragEntry]
      BY <1>2, <1>4, <2>2, ReassembledFacts
    <3>3. \A s \in FragSlot :
              \/ R[s].first = NoHalf /\ R[s].second = NoHalf
              \/ R[s] = e /\ ~Whole(R[s])
              \/ /\ R[s].epoch = reasm[w][s].epoch /\ R[s].dg = reasm[w][s].dg
                 /\ R[s].old = reasm[w][s].old
                 /\ R[s].first = reasm[w][s].first /\ R[s].second = reasm[w][s].second
      BY <1>2, <1>4, <2>2, ReassembledFacts DEF e
    <3> HIDE DEF R
    <3>4. Used(w, p.epoch, p.dg) /\ \A q \in InFlight(w) : q.epoch = p.epoch /\ q.dg = p.dg => q.id = p.id
      BY <1>3 DEF TagInv
    <3>5. \A v \in Worker : \A m, d : Used(v, m, d)' = Used(v, m, d)
      BY <1>1 DEF Used
    <3>6. ASSUME NEW v \in Worker, NEW s \in FragSlot
          PROVE  LET x == reasm'[v][s] IN
                 /\ ~Whole(x)
                 /\ Occupied(x) /\ ~x.old =>
                      /\ Used(v, x.epoch, x.dg)
                      /\ \A q \in InFlight(v) : q.epoch = x.epoch /\ q.dg = x.dg =>
                           x.first \in {NoHalf, q.id} /\ x.second \in {NoHalf, q.id}
      <4>1. CASE v # w
        <5>1. reasm'[v] = reasm[v]
          BY <1>4, <3>1, <4>1
        <5> QED
          BY <5>1 DEF TagInv
      <4>2. CASE v = w
        <5>1. reasm'[v][s] = R[s]
          BY <1>4, <3>1, <4>2
        <5>2. CASE R[s].first = NoHalf /\ R[s].second = NoHalf
          BY <5>1, <5>2 DEF Whole, Occupied
        <5>3. CASE R[s] = e /\ ~Whole(R[s])
          <6>1. /\ e.epoch = p.epoch /\ e.dg = p.dg
                /\ e.first \in {NoHalf, p.id} /\ e.second \in {NoHalf, p.id}
            BY <1>5, <2>2
          <6>2. \A q \in InFlight(w) : q.epoch = e.epoch /\ q.dg = e.dg =>
                  e.first \in {NoHalf, q.id} /\ e.second \in {NoHalf, q.id}
            BY <3>4, <6>1
          <6> QED
            BY <3>4, <4>2, <5>1, <5>3, <6>1, <6>2
        <5>4. CASE /\ R[s].epoch = reasm[w][s].epoch /\ R[s].dg = reasm[w][s].dg
                   /\ R[s].old = reasm[w][s].old
                   /\ R[s].first = reasm[w][s].first /\ R[s].second = reasm[w][s].second
          BY <4>2, <5>1, <5>4 DEF TagInv, Whole, Occupied
        <5> QED
          BY <3>3, <5>2, <5>3, <5>4
      <4> QED
        BY <4>1, <4>2
    <3> QED
      BY <1>3, <3>5, <3>6 DEF TagInv
  <2> QED
    BY <2>1, <2>2
<1> QED
  BY <1>6, <1>7

(* A ring gets a frame whose halves belong together, or none.              *)
LEMMA LanPush ==
  ASSUME QueueType, PairInv, NEW r \in Port \X TxSlot, NEW job \in LanTx,
         "first" \in DOMAIN job => job.first = job.second,
         toLan' = toLan \/ toLan' = [toLan EXCEPT ![r] = Append(@, job)]
  PROVE  \A x \in Port \X TxSlot : Paired(toLan'[x])
<1> DEFINE Ring == Port \X TxSlot
<1>1. toLan \in [Ring -> Seq(LanTx)] /\ \A x \in Ring : Paired(toLan[x])
  BY DEF QueueType, PairInv
<1>2. Paired(Append(toLan[r], job))
  BY <1>1, PairedPush
<1>3. \A x \in Ring : toLan'[x] = toLan[x] \/ toLan'[x] = Append(toLan[r], job)
  BY <1>1
<1> QED
  BY <1>1, <1>2, <1>3

LEMMA ForwardPairs ==
  ASSUME QueueType, PairInv, NEW it, it.f \in Frame, it.k \in Conn, it.first \in Half,
         it.second \in Half, it.first = it.second,
         NEW slot \in TxSlot, NEW known \in BOOLEAN, Forward(it, slot, known)
  PROVE  \A x \in Port \X TxSlot : Paired(toLan'[x])
<1> DEFINE job == [f |-> it.f, first |-> it.first, second |-> it.second]
<1>1. job \in LanTx /\ job.first = job.second
  BY DEF LanTx
<1>2. RingOf(it.k, slot) \in Port \X TxSlot
  BY RingOfType
<1>3. toLan' = toLan \/ toLan' = [toLan EXCEPT ![RingOf(it.k, slot)] = Append(@, job)]
  BY DEF Forward, PushLan
<1> HIDE DEF job
<1> QED
  BY <1>1, <1>2, <1>3, LanPush

(* A thread lays down its packet, or takes one.                            *)
LEMMA HandsPaired ==
  ASSUME CurType, PairInv, NEW t \in Thread,
         \/ Done(t)
         \/ \E j : Busy(t, j) /\ (j.pc = "insert" /\ t \in Worker => j.first = j.second)
  PROVE  \A w \in Worker : cur'[w] # <<>> /\ cur'[w][1].pc = "insert" =>
           cur'[w][1].first = cur'[w][1].second
<1>1. \A w \in Worker : w # t => cur'[w] = cur[w]
  BY DEF Done, Busy, CurType, Thread
<1>2. CASE Done(t)
  BY <1>1, <1>2 DEF Done, CurType, PairInv
<1>3. ASSUME NEW j, Busy(t, j), j.pc = "insert" /\ t \in Worker => j.first = j.second
      PROVE  \A w \in Worker : cur'[w] # <<>> /\ cur'[w][1].pc = "insert" =>
               cur'[w][1].first = cur'[w][1].second
  <2>1. cur'[t] = <<j>> /\ cur'[t][1] = j
    BY <1>3 DEF Busy, CurType
  <2> QED
    BY <1>1, <1>3, <2>1 DEF PairInv
<1> QED
  BY <1>2, <1>3

LEMMA BypassPairs ==
  ASSUME DataType, TagInv, PairInv, NEW p \in net, NEW known \in BOOLEAN, NEW f \in Frame,
         WanBypass(p, known, f)
  PROVE  TagInv' /\ PairInv'
<1>0. QueueType /\ WorldType
  BY DEF DataType
<1> DEFINE r == RingOf(p.k, Canonical(p.k).slot)
           job == [f |-> f, first |-> p.id, second |-> p.id]
<1>1. /\ WanCame(p, FALSE) /\ p.part = "plain" /\ UNCHANGED <<wanQ, cur, held, reasm, peer>>
      /\ toLan' = toLan \/ toLan' = [toLan EXCEPT ![r] = Append(@, job)]
  BY DEF WanBypass
<1>2. net' \subseteq net /\ p \in DataPkt \cup ArpPkt \cup PlainPkt
  BY <1>0, <1>1, WanCameFacts
<1>3. p.k \in Conn /\ p.id \in Id
  BY <1>2, DatapathAssumption DEF DataPkt, ArpPkt, PlainPkt, Tunnelled
<1>4. r \in Port \X TxSlot
  BY <1>3, RingOfType, CanonicalType DEF Home
<1>5. job \in LanTx /\ job.first = job.second
  BY <1>3 DEF LanTx, Half
<1> HIDE DEF job, r
<1>6. \A x \in Port \X TxSlot : Paired(toLan'[x])
  BY <1>0, <1>1, <1>4, <1>5, LanPush
<1>7. \A w \in Worker : InFlight(w)' \subseteq InFlight(w)
  BY <1>1, <1>2 DEF InFlight
<1>8. PairInv'
  BY <1>1, <1>6 DEF PairInv
<1> QED
  BY <1>1, <1>7, <1>8, TagsShrink

LEMMA EmitPairs ==
  ASSUME DataType, PairInv, NEW w \in Worker, NEW it \in held[w],
         NEW known \in BOOLEAN, Emit(w, it, known)
  PROVE  PairInv'
<1>0. QueueType /\ WorkType /\ CurType /\ RouteType
  BY DEF DataType
<1>1. /\ it \in HeldItem /\ it.first = it.second /\ held \in [Worker -> SUBSET HeldItem]
      /\ held' = [held EXCEPT ![w] = @ \ {it}]
  BY <1>0 DEF WorkType, PairInv, Emit
<1>2. \A v \in Worker : \A x \in held'[v] : x.first = x.second
  BY <1>1 DEF PairInv
<1>3. it.f \in Frame /\ it.k \in Conn /\ it.first \in Half /\ it.second \in Half
  BY <1>1 DEF HeldItem, Tunnelled
<1>4. CASE Known(it.k)
  <2>1. Forward(it, Route(it.k).slot, known) /\ cur' = cur
    BY <1>4 DEF Emit
  <2>2. Route(it.k).slot \in TxSlot
    BY <1>0, <1>3, <1>4, RouteIsHome DEF Home
  <2>3. \A x \in Port \X TxSlot : Paired(toLan'[x])
    BY <1>0, <1>1, <1>3, <2>1, <2>2, ForwardPairs
  <2> QED
    BY <1>2, <2>1, <2>3 DEF PairInv
<1>5. CASE ~Known(it.k)
  <2> DEFINE j == [pc |-> "insert", f |-> it.f, k |-> it.k, first |-> it.first,
                   second |-> it.second]
  <2>1. Busy(w, j) /\ j.first = j.second /\ toLan' = toLan
    BY <1>1, <1>5 DEF Emit
  <2>2. w \in Thread
    BY DEF Thread
  <2> HIDE DEF j
  <2>3. \A v \in Worker : cur'[v] # <<>> /\ cur'[v][1].pc = "insert" =>
          cur'[v][1].first = cur'[v][1].second
    BY <1>0, <2>1, <2>2, HandsPaired
  <2> QED
    BY <1>2, <2>1, <2>3 DEF PairInv
<1> QED
  BY <1>4, <1>5

LEMMA EmitInsertPairs ==
  ASSUME DataType, PairInv, NEW w \in Worker, NEW known \in BOOLEAN, EmitInsert(w, known)
  PROVE  PairInv'
<1>0. QueueType /\ CurType /\ RouteType
  BY DEF DataType
<1>1. /\ Working(w, "insert") /\ Done(w) /\ held' = held
      /\ Forward(J(w), Routed(J(w).k, w).slot, known)
  BY DEF EmitInsert
<1>2. J(w) \in EncryptJob \cup EmitJob /\ J(w).pc = "insert" /\ w \in Thread
  BY <1>0, <1>1, InHand
<1>3. J(w) \in EmitJob
  BY <1>2 DEF EncryptJob
<1>4. /\ J(w).f \in Frame /\ J(w).k \in Conn /\ J(w).first \in Half /\ J(w).second \in Half
  BY <1>3 DEF EmitJob, Tunnelled
<1>5. J(w).first = J(w).second
  BY <1>1 DEF PairInv, Working, J
<1>6. Routed(J(w).k, w).slot \in TxSlot
  BY <1>0, <1>2, <1>4, RoutedType DEF Home
<1>7. \A x \in Port \X TxSlot : Paired(toLan'[x])
  BY <1>0, <1>1, <1>4, <1>5, <1>6, ForwardPairs
<1>8. \A v \in Worker : cur'[v] # <<>> /\ cur'[v][1].pc = "insert" =>
        cur'[v][1].first = cur'[v][1].second
  BY <1>0, <1>1, <1>2, HandsPaired
<1> QED
  BY <1>1, <1>7, <1>8 DEF PairInv

LEMMA ArpPairs ==
  ASSUME DataType, TagInv, PairInv, NEW w \in Worker, NEW known \in BOOLEAN, WanArp(w, known)
  PROVE  TagInv' /\ PairInv'
<1>0. QueueType
  BY DEF DataType
<1> DEFINE f == Head(wanQ[w]).f
           Ring == Port \X TxSlot
<1>1. /\ wanQ[w] # <<>> /\ wanQ' = [wanQ EXCEPT ![w] = Tail(@)]
      /\ UNCHANGED <<net, reasm, peer, held, cur>>
      /\ (\E li \in Port : ArpUnicast(f, known, li)) \/ Flood(f)
  BY DEF WanArp
<1>2. \A v \in Worker : InFlight(v)' \subseteq InFlight(v)
  BY <1>0, <1>1, TakenFacts
<1>3. f \in Frame
  BY <1>0, <1>1, WanHead
<1>4. \A g \in Frame : [f |-> g] \in LanTx /\ "first" \notin DOMAIN [f |-> g]
  BY DEF LanTx
<1>5. toLan \in [Ring -> Seq(LanTx)] /\ \A x \in Ring : Paired(toLan[x])
  BY <1>0 DEF QueueType, PairInv
<1> HIDE DEF f
<1>6. ASSUME NEW x \in Ring
      PROVE  toLan'[x] = toLan[x] \/ \E g \in Frame : toLan'[x] = Append(toLan[x], [f |-> g])
  <2>1. CASE \E li \in Port : ArpUnicast(f, known, li)
    <3>1. PICK li \in Port : ArpUnicast(f, known, li)
      BY <2>1
    <3>2. toLan' = toLan \/ toLan' = [toLan EXCEPT ![<<li, ArpSlot>>] = Append(@, [f |-> f])]
      BY <3>1 DEF ArpUnicast
    <3>3. x = <<li, ArpSlot>> \/ x # <<li, ArpSlot>>
      OBVIOUS
    <3> QED
      BY <1>3, <1>5, <3>2, <3>3
  <2>2. CASE Flood(f)
    <3>1. CASE Roomy = {}
      BY <2>2, <3>1 DEF Flood
    <3>2. CASE Roomy # {}
      <4> DEFINE rank(li) == Cardinality({y \in Roomy : y < li})
                 cloned == {li \in Roomy : rank(li) \in 1 .. Cardinality(Available)}
      <4>1. PICK clone \in [cloned -> Available] :
               toLan' = [r \in DOMAIN toLan |->
                  IF r[2] # ArpSlot THEN toLan[r]
                  ELSE IF r[1] = Min(Roomy) THEN Append(toLan[r], [f |-> f])
                  ELSE IF r[1] \in cloned THEN Append(toLan[r], [f |-> clone[r[1]]])
                  ELSE toLan[r]]
        BY <2>2, <3>2 DEF Flood
      <4> HIDE DEF cloned
      <4>2. \A li \in cloned : clone[li] \in Frame
        BY <4>1 DEF Available
      <4> QED
        BY <1>3, <1>5, <4>1, <4>2
    <3> QED
      BY <3>1, <3>2
  <2> QED
    BY <1>1, <2>1, <2>2
<1>7. ASSUME NEW x \in Ring PROVE Paired(toLan'[x])
  <2>1. \A g \in Frame : Paired(Append(toLan[x], [f |-> g]))
    <3>1. SUFFICES ASSUME NEW g \in Frame PROVE Paired(Append(toLan[x], [f |-> g]))
      OBVIOUS
    <3> DEFINE j == [f |-> g]
    <3>2. j \in LanTx /\ "first" \notin DOMAIN j
      BY <1>4
    <3> HIDE DEF j
    <3>3. Paired(Append(toLan[x], j))
      BY <1>5, <3>2, PairedPush
    <3> QED
      BY <3>3 DEF j
  <2> QED
    BY <1>5, <1>6, <2>1
<1>8. PairInv'
  BY <1>1, <1>7 DEF PairInv
<1> QED
  BY <1>1, <1>2, <1>8, TagsShrink

LEMMA TxPairs ==
  ASSUME DataType, PairInv, NEW r \in Port \X TxSlot, TxLan(r)
  PROVE  PairInv'
<1> DEFINE Ring == Port \X TxSlot
<1>1. toLan \in [Ring -> Seq(LanTx)] /\ \A x \in Ring : Paired(toLan[x])
  BY DEF DataType, QueueType, PairInv
<1>2. toLan[r] # <<>> /\ toLan' = [toLan EXCEPT ![r] = Tail(@)] /\ UNCHANGED <<held, cur>>
  BY DEF TxLan
<1>3. Paired(Tail(toLan[r]))
  BY <1>1, <1>2, PairedTail
<1>4. \A x \in Ring : toLan'[x] = toLan[x] \/ toLan'[x] = Tail(toLan[r])
  BY <1>1, <1>2
<1>5. \A x \in Ring : Paired(toLan'[x])
  BY <1>1, <1>3, <1>4
<1> QED
  BY <1>2, <1>5 DEF PairInv

LEMMA DropPairs ==
  ASSUME DataType, PairInv, NEW w \in Worker, NEW it \in held[w], DropHeld(w, it)
  PROVE  PairInv'
<1>1. held \in [Worker -> SUBSET HeldItem]
  BY DEF DataType, WorkType
<1>2. held' = [held EXCEPT ![w] = @ \ {it}] /\ UNCHANGED <<cur, toLan>>
  BY DEF DropHeld
<1>3. \A v \in Worker : held'[v] \subseteq held[v]
  BY <1>1, <1>2
<1> QED
  BY <1>2, <1>3 DEF PairInv

(* A step that only takes up or lays down a packet from the LAN.           *)
LEMMA LocalPairs ==
  ASSUME DataType, PairInv, UNCHANGED <<held, toLan>>, NEW t \in Thread,
         \/ cur' = cur
         \/ Done(t)
         \/ \E j : Busy(t, j) /\ (j.pc # "insert" \/ t \notin Worker)
  PROVE  PairInv'
<1>1. CASE cur' = cur
  BY <1>1, PairSame
<1>2. CASE Done(t) \/ \E j : Busy(t, j) /\ (j.pc # "insert" \/ t \notin Worker)
  <2>1. \A v \in Worker : cur'[v] # <<>> /\ cur'[v][1].pc = "insert" =>
          cur'[v][1].first = cur'[v][1].second
    BY <1>2, HandsPaired DEF DataType
  <2> QED
    BY <2>1 DEF PairInv
<1> QED
  BY <1>1, <1>2

(* The table of a worker after the sweep, or after a time-out, holds at    *)
(* most what it held.                                                      *)
LEMMA LaterTags ==
  ASSUME TagInv, UNCHANGED <<net, wanQ, peer>>,
         \A w \in Worker : \A s \in FragSlot : LET x == reasm'[w][s] IN
           \/ x = Cleared \/ x = reasm[w][s]
           \/ x.old /\ x.first = reasm[w][s].first /\ x.second = reasm[w][s].second
  PROVE  TagInv'
<1>1. \A w \in Worker : InFlight(w)' = InFlight(w)
  BY DEF InFlight
<1>2. \A w \in Worker : \A m, d : Used(w, m, d)' = Used(w, m, d)
  BY DEF Used
<1>3. ASSUME NEW w \in Worker, NEW s \in FragSlot
      PROVE  LET x == reasm'[w][s] IN
                 /\ ~Whole(x)
                 /\ Occupied(x) /\ ~x.old =>
                      /\ Used(w, x.epoch, x.dg)
                      /\ \A q \in InFlight(w) : q.epoch = x.epoch /\ q.dg = x.dg =>
                           x.first \in {NoHalf, q.id} /\ x.second \in {NoHalf, q.id}
  <2> DEFINE x == reasm'[w][s]
  <2>1. CASE x = Cleared
    BY <2>1 DEF Cleared, Whole, Occupied
  <2>2. CASE x = reasm[w][s]
    BY <2>2 DEF TagInv
  <2>3. CASE x.old /\ x.first = reasm[w][s].first /\ x.second = reasm[w][s].second
    BY <2>3 DEF TagInv, Whole
  <2> QED
    BY <2>1, <2>2, <2>3
<1> QED
  BY <1>1, <1>2, <1>3 DEF TagInv

LEMMA GcTags ==
  ASSUME DataType, TagInv, (\E w \in Worker : FragGc(w)) \/ Wait
  PROVE  TagInv'
<1>1. reasm \in [Worker -> [FragSlot -> FragEntry]]
  BY DEF DataType, WorkType
<1>2. UNCHANGED <<net, wanQ, peer>>
  BY DEF FragGc, Wait
<1>3. ASSUME NEW w \in Worker, NEW s \in FragSlot
      PROVE  LET x == reasm'[w][s] IN
             \/ x = Cleared \/ x = reasm[w][s]
             \/ x.old /\ x.first = reasm[w][s].first /\ x.second = reasm[w][s].second
  <2>1. /\ Collected(reasm[w])[s] \in {Cleared, reasm[w][s]}
        /\ Aged(reasm[w])[s].first = reasm[w][s].first
        /\ Aged(reasm[w])[s].second = reasm[w][s].second
        /\ Occupied(reasm[w][s]) => Aged(reasm[w])[s].old
        /\ ~Occupied(reasm[w][s]) => Aged(reasm[w])[s] = reasm[w][s]
    BY <1>1, AgedFacts
  <2>2. reasm'[w] \in {reasm[w], Collected(reasm[w]), Aged(reasm[w])}
    BY <1>1 DEF FragGc, Wait
  <2> QED
    BY <2>1, <2>2
<1> QED
  BY <1>2, <1>3, LaterTags

(* A datagram gets a number that nothing on the way or in the table has.   *)
LEMMA SendTags ==
  ASSUME DataType, TagInv, NEW k \in Tunnelled, NEW big \in BOOLEAN, PeerSend(k, big)
  PROVE  TagInv'
<1> DEFINE w == PeerWorker[k]
           P == [part |-> "full", k |-> k, worker |-> w, epoch |-> peer.epoch,
                 dg |-> peer.clock[w], seq |-> peer.seq[k], id |-> <<k, peer.sent>>]
<1>0. peer \in [epoch : Nat, clock : [Worker -> Nat], seq : [Conn -> Nat], sent : Nat]
  BY DEF DataType, WorldType
<1>1. w \in Worker /\ k \in Conn
  BY DatapathAssumption DEF Tunnelled
<1>2. /\ \A p \in net' : p \in net \/ (/\ p.worker = w /\ p.epoch = peer.epoch
                                        /\ p.dg = peer.clock[w] /\ p.id = <<k, peer.sent>>)
      /\ UNCHANGED <<wanQ, reasm>>
  BY DEF PeerSend
<1>3. /\ peer' = [peer EXCEPT !.clock[w] = @ + 1, !.seq[k] = @ + 1, !.sent = @ + 1]
  BY DEF PeerSend
<1>4. peer'.epoch = peer.epoch /\ peer'.clock = [peer.clock EXCEPT ![w] = @ + 1]
  BY <1>0, <1>3
<1> DEFINE ep == peer.epoch
           ck == peer.clock
           id == <<k, peer.sent>>
<1>5. ep \in Nat /\ ck \in [Worker -> Nat]
  BY <1>0
<1> HIDE DEF w
<1>6. ASSUME NEW v \in Worker, NEW p \in InFlight(v)'
      PROVE  p \in InFlight(v) \/ (v = w /\ p.epoch = ep /\ p.dg = ck[w] /\ p.id = id)
  BY <1>2 DEF InFlight
<1> DEFINE Used2(v, m, d) == m < peer'.epoch \/ (m = peer'.epoch /\ d < peer'.clock[v])
<1>7. /\ Used2(w, ep, ck[w]) /\ ~Used(w, ep, ck[w])
      /\ \A v \in Worker, m, d \in Nat : Used(v, m, d) => Used2(v, m, d)
  <2> HIDE DEF ep, ck
  <2>1. ep = peer.epoch /\ ck = peer.clock /\ ck[w] \in Nat
    BY <1>1, <1>5 DEF ep, ck
  <2>2. peer'.clock = [ck EXCEPT ![w] = @ + 1] /\ peer'.epoch = ep
    BY <1>4, <2>1
  <2>3. Used2(w, ep, ck[w])
    <3>1. peer'.clock[w] = ck[w] + 1
      BY <1>1, <1>5, <2>2
    <3> QED
      BY <2>1, <2>2, <3>1
  <2>4. ~Used(w, ep, ck[w])
    BY <1>5, <2>1 DEF Used
  <2>5. ASSUME NEW v \in Worker, NEW m \in Nat, NEW d \in Nat, Used(v, m, d)
        PROVE  Used2(v, m, d)
    <3>1. ck[v] \in Nat
      BY <1>5
    <3>2. peer'.clock[v] = IF v = w THEN ck[v] + 1 ELSE ck[v]
      BY <1>5, <2>2
    <3>3. m < ep \/ (m = ep /\ d < ck[v])
      BY <2>1, <2>5 DEF Used
    <3>4. d < ck[v] => d < ck[v] + 1
      BY <3>1
    <3> QED
      BY <2>2, <3>2, <3>3, <3>4
  <2> HIDE DEF Used2
  <2> QED
    BY <2>3, <2>4, <2>5
<1> HIDE DEF Used2
<1>8. \A v \in Worker : \A p \in InFlight(v) : p.epoch \in Nat /\ p.dg \in Nat
  BY DEF InFlight, DataPkt
<1> HIDE DEF ep, ck, id
<1>9. \A v \in Worker : \A p, q \in InFlight(v)' :
        p.epoch = q.epoch /\ p.dg = q.dg => p.id = q.id
  <2>1. SUFFICES ASSUME NEW v \in Worker, NEW p \in InFlight(v)', NEW q \in InFlight(v)',
                        p.epoch = q.epoch, p.dg = q.dg
                 PROVE  p.id = q.id
    OBVIOUS
  <2>2. \A x \in InFlight(v) : Used(v, x.epoch, x.dg)
    BY DEF TagInv
  <2>3. p \in InFlight(v) \/ (v = w /\ p.epoch = ep /\ p.dg = ck[w] /\ p.id = id)
    BY <1>6
  <2>4. q \in InFlight(v) \/ (v = w /\ q.epoch = ep /\ q.dg = ck[w] /\ q.id = id)
    BY <1>6
  <2>5. ~Used(w, ep, ck[w])
    BY <1>7, <1>1
  <2> QED
    BY <2>1, <2>2, <2>3, <2>4, <2>5 DEF TagInv
<1>10. \A v \in Worker : \A p \in InFlight(v)' : Used2(v, p.epoch, p.dg)
  <2>1. SUFFICES ASSUME NEW v \in Worker, NEW p \in InFlight(v)' PROVE Used2(v, p.epoch, p.dg)
    OBVIOUS
  <2>2. CASE p \in InFlight(v)
    <3>1. Used(v, p.epoch, p.dg)
      BY <2>2 DEF TagInv
    <3> QED
      BY <1>7, <1>8, <2>2, <3>1
  <2>3. CASE v = w /\ p.epoch = ep /\ p.dg = ck[w]
    BY <1>7, <2>3
  <2> QED
    BY <1>6, <2>2, <2>3
<1>11. ASSUME NEW v \in Worker, NEW s \in FragSlot
       PROVE  LET e == reasm[v][s] IN
              /\ ~Whole(e)
              /\ Occupied(e) /\ ~e.old =>
                   /\ Used2(v, e.epoch, e.dg)
                   /\ \A p \in InFlight(v)' : p.epoch = e.epoch /\ p.dg = e.dg =>
                        e.first \in {NoHalf, p.id} /\ e.second \in {NoHalf, p.id}
  <2> DEFINE e == reasm[v][s]
  <2>1. e \in FragEntry
    BY DEF DataType, WorkType
  <2>2. e.epoch \in Nat /\ e.dg \in Nat
    BY <2>1 DEF FragEntry
  <2>3. /\ ~Whole(e)
        /\ Occupied(e) /\ ~e.old =>
             /\ Used(v, e.epoch, e.dg)
             /\ \A p \in InFlight(v) : p.epoch = e.epoch /\ p.dg = e.dg =>
                  e.first \in {NoHalf, p.id} /\ e.second \in {NoHalf, p.id}
    BY DEF TagInv
  <2> HIDE DEF e
  <2>4. Used(v, e.epoch, e.dg) => Used2(v, e.epoch, e.dg)
    BY <1>7, <2>2
  <2>5. ASSUME NEW p \in InFlight(v)', Used(v, e.epoch, e.dg), p.epoch = e.epoch, p.dg = e.dg
        PROVE  p \in InFlight(v)
    BY <1>6, <1>7, <2>5
  <2> QED
    BY <2>3, <2>4, <2>5 DEF e
<1>12. reasm' = reasm
  BY <1>2
<1> QED
  BY <1>9, <1>10, <1>11, <1>12 DEF TagInv, Used, Used2

(* Plain frames and ARPs are not in the table.                             *)
LEMMA OtherTags ==
  ASSUME DataType, TagInv, NEW k \in Bypass, NEW part \in {"plain"} \cup WanArps,
         PeerOther(part, k)
  PROVE  TagInv'
<1>1. peer \in [epoch : Nat, clock : [Worker -> Nat], seq : [Conn -> Nat], sent : Nat]
  BY DEF DataType, WorldType
<1> DEFINE p == [part |-> part, k |-> k, worker |-> Hash[k] % NWorker, id |-> <<k, peer.sent>>]
<1>2. /\ net' = net \cup {p} /\ peer' = [peer EXCEPT !.sent = @ + 1]
      /\ UNCHANGED <<wanQ, reasm>>
  BY DEF PeerOther
<1>3. p \notin DataPkt
  <2>1. p.part \notin {"first", "second", "full"}
    BY DatapathAssumption
  <2> QED
    BY <2>1 DEF DataPkt
<1> HIDE DEF p
<1>4. peer'.epoch = peer.epoch /\ peer'.clock = peer.clock
  BY <1>1, <1>2
<1>5. \A w \in Worker : InFlight(w)' = InFlight(w)
  BY <1>2, <1>3 DEF InFlight
<1> QED
  BY <1>2, <1>4, <1>5 DEF TagInv, Used

(* A new epoch leaves the old numbers used; a restart of the peer's        *)
(* threads leaves none on the way, and the halves in the table time out.   *)
LEMMA RestartTags ==
  ASSUME DataType, TagInv, PeerReboot \/ PeerRuntimeRestart
  PROVE  TagInv'
<1>1. /\ peer \in [epoch : Nat, clock : [Worker -> Nat], seq : [Conn -> Nat], sent : Nat]
      /\ reasm \in [Worker -> [FragSlot -> FragEntry]]
  BY DEF DataType, WorldType, WorkType
<1>2. CASE PeerReboot
  <2>1. UNCHANGED <<net, wanQ, reasm>> /\ peer'.epoch = peer.epoch + 1
    BY <1>1, <1>2 DEF PeerReboot
  <2> DEFINE n == peer.epoch
  <2>2. n \in Nat /\ peer'.epoch = n + 1
    BY <1>1, <2>1
  <2>3. ASSUME NEW w \in Worker, NEW m \in Nat, NEW d, Used(w, m, d)
        PROVE  m < peer'.epoch
    <3>1. m < n \/ m = n
      BY <2>3 DEF Used
    <3> HIDE DEF n
    <3> QED
      BY <2>2, <3>1
  <2>4. \A w \in Worker : InFlight(w)' = InFlight(w)
    BY <2>1 DEF InFlight
  <2>5. \A w \in Worker : \A p \in InFlight(w) : p.epoch \in Nat /\ Used(w, p.epoch, p.dg)
    BY DEF InFlight, DataPkt, TagInv
  <2>6. \A w \in Worker : \A p \in InFlight(w)' : Used(w, p.epoch, p.dg)'
    BY <2>3, <2>4, <2>5 DEF Used
  <2>7. ASSUME NEW w \in Worker, NEW s \in FragSlot
        PROVE  LET e == reasm[w][s] IN
               /\ ~Whole(e)
               /\ Occupied(e) /\ ~e.old =>
                    /\ e.epoch < peer'.epoch
                    /\ \A p \in InFlight(w) : p.epoch = e.epoch /\ p.dg = e.dg =>
                         e.first \in {NoHalf, p.id} /\ e.second \in {NoHalf, p.id}
    <3> DEFINE e == reasm[w][s]
    <3>1. e \in FragEntry
      BY <1>1
    <3>2. e.epoch \in Nat
      BY <3>1 DEF FragEntry
    <3>3. /\ ~Whole(e)
          /\ Occupied(e) /\ ~e.old =>
               /\ Used(w, e.epoch, e.dg)
               /\ \A p \in InFlight(w) : p.epoch = e.epoch /\ p.dg = e.dg =>
                    e.first \in {NoHalf, p.id} /\ e.second \in {NoHalf, p.id}
      BY DEF TagInv
    <3> HIDE DEF e
    <3>4. ASSUME Used(w, e.epoch, e.dg) PROVE e.epoch < peer'.epoch
      BY <2>3, <3>2, <3>4
    <3> QED
      BY <3>3, <3>4 DEF e
  <2> QED
    BY <2>1, <2>4, <2>6, <2>7 DEF TagInv, Used
<1>3. CASE PeerRuntimeRestart
  <2>1. /\ net' = {} /\ wanQ' = wanQ /\ \A w \in Worker : wanQ[w] = <<>>
        /\ reasm' = [w \in Worker |-> Aged(reasm[w])]
    BY <1>3 DEF PeerRuntimeRestart
  <2>2. Len(<<>>) = 0 /\ 1..0 = {}
    OBVIOUS
  <2>3. \A w \in Worker : InFlight(w)' = {}
    BY <2>1, <2>2 DEF InFlight
  <2>4. ASSUME NEW w \in Worker, NEW s \in FragSlot
        PROVE  ~Whole(reasm'[w][s]) /\ (Occupied(reasm'[w][s]) => reasm'[w][s].old)
    <3>1. reasm'[w] = Aged(reasm[w])
      BY <2>1
    <3>2. /\ Aged(reasm[w])[s].first = reasm[w][s].first
          /\ Aged(reasm[w])[s].second = reasm[w][s].second
          /\ Occupied(reasm[w][s]) => Aged(reasm[w])[s].old
      BY <1>1, AgedFacts
    <3>3. ~Whole(reasm[w][s])
      BY DEF TagInv
    <3> QED
      BY <3>1, <3>2, <3>3 DEF Whole, Occupied
  <2> QED
    BY <2>3, <2>4 DEF TagInv
<1> QED
  BY <1>2, <1>3

(* What each step does to packets, halves and pairs.                       *)
LEMMA JoinStep ==
  ASSUME DataType, TagInv, PairInv, [Next]_vars
  PROVE  TagInv' /\ PairInv'
<1>0. CurType /\ QueueType /\ LanRx \notin Worker /\ \A t \in Worker \cup {LanRx} : t \in Thread
  BY Sizes_ DEF DataType, Thread, LanRx
<1>1. ASSUME NEW w \in Worker, NEW b \in BOOLEAN, NEW pass \in BOOLEAN, WanDecrypt(w, b, pass)
      PROVE  TagInv' /\ PairInv'
  BY <1>1, DecryptTags
<1>2. ASSUME NEW w \in Worker, NEW b \in BOOLEAN, WanArp(w, b)
      PROVE  TagInv' /\ PairInv'
  BY <1>2, ArpPairs
<1>3. ASSUME NEW w \in Worker, NEW b \in BOOLEAN, EmitInsert(w, b)
      PROVE  TagInv' /\ PairInv'
  <2>1. UNCHANGED <<net, wanQ, reasm, peer>>
    BY <1>3 DEF EmitInsert
  <2> QED
    BY <1>3, <2>1, TagsSame, EmitInsertPairs
<1>4. ASSUME NEW w \in Worker, NEW it \in held[w],
             DropHeld(w, it) \/ \E known \in BOOLEAN : Emit(w, it, known)
      PROVE  TagInv' /\ PairInv'
  <2>1. UNCHANGED <<net, wanQ, reasm, peer>>
    BY <1>4 DEF DropHeld, Emit
  <2> QED
    BY <1>4, <2>1, TagsSame, EmitPairs, DropPairs
<1>5. ASSUME NEW f \in Available, NEW p \in net, NEW b \in BOOLEAN,
             WanBypass(p, b, f) \/ WanArrive(p, b, f)
      PROVE  TagInv' /\ PairInv'
  <2>1. f \in Frame
    BY DEF Available
  <2>2. CASE WanBypass(p, b, f)
    BY <2>1, <2>2, BypassPairs
  <2>3. CASE WanArrive(p, b, f)
    <3>1. UNCHANGED <<held, cur, toLan>>
      BY <2>3 DEF WanArrive
    <3> QED
      BY <2>1, <2>3, <3>1, WanArriveTags, PairSame
  <2> QED
    BY <1>5, <2>2, <2>3
<1>6. ASSUME NEW r \in Port \X TxSlot, TxLan(r) PROVE TagInv' /\ PairInv'
  <2>1. UNCHANGED <<net, wanQ, reasm, peer>>
    BY <1>6 DEF TxLan
  <2> QED
    BY <1>6, <2>1, TagsSame, TxPairs
<1>7. ASSUME \/ LanInsert
             \/ \E f, k, big : LanArrive(k, big, f)
             \/ \E w \in Worker : \E b : LocalAdmit(w, b) \/ LocalWhole(w, b) \/ LocalSplit(w, b)
      PROVE  TagInv' /\ PairInv'
  <2>1. UNCHANGED <<net, wanQ, reasm, peer, held, toLan>>
    BY <1>7 DEF LanInsert, LanArrive, LocalAdmit, LocalWhole, LocalSplit
  <2>2. PICK t \in Thread :
          cur' = cur \/ Done(t) \/ \E j : Busy(t, j) /\ (j.pc # "insert" \/ t \notin Worker)
    <3>1. CASE LanInsert
      BY <1>0, <3>1 DEF LanInsert
    <3>2. ASSUME NEW f, NEW k, NEW big, LanArrive(k, big, f)
          PROVE  cur' = cur \/ \E j : Busy(LanRx, j)
      BY <3>2 DEF LanArrive
    <3>3. ASSUME NEW w \in Worker, NEW b, LocalAdmit(w, b)
          PROVE  cur' = cur \/ \E j : Busy(w, j) /\ j.pc # "insert"
      <4>1. lanQ[w] # <<>> /\ Head(lanQ[w]).pc = "data"
        BY <3>3 DEF LocalAdmit
      <4>2. Head(lanQ[w]) \in DataJob
        BY <1>0, <4>1, PopType, JobKinds DEF QueueType
      <4> DEFINE j == [Head(lanQ[w]) EXCEPT !.pc = "encrypt"]
      <4>3. j.pc = "encrypt"
        BY <4>2 DEF DataJob
      <4>4. cur' = cur \/ Busy(w, j)
        BY <3>3 DEF LocalAdmit
      <4> HIDE DEF j
      <4> QED
        BY <4>3, <4>4
    <3>4. ASSUME NEW w \in Worker, NEW b, LocalWhole(w, b) \/ LocalSplit(w, b)
          PROVE  Done(w)
      BY <3>4 DEF LocalWhole, LocalSplit
    <3> QED
      BY <1>0, <1>7, <3>1, <3>2, <3>3, <3>4
  <2> QED
    BY <2>1, <2>2, TagsSame, LocalPairs
<1>8. CASE (\E w \in Worker : FragGc(w)) \/ Wait
  <2>1. UNCHANGED <<held, cur, toLan>>
    BY <1>8 DEF FragGc, Wait
  <2> QED
    BY <1>8, <2>1, GcTags, PairSame
<1>9. ASSUME NEW k \in Tunnelled, NEW big \in PeerSizes[k], PeerSend(k, big)
      PROVE  TagInv' /\ PairInv'
  <2>1. big \in BOOLEAN
    BY DatapathAssumption DEF Tunnelled
  <2>2. UNCHANGED <<held, cur, toLan>>
    BY <1>9 DEF PeerSend
  <2> QED
    BY <1>9, <2>1, <2>2, SendTags, PairSame
<1>10. ASSUME NEW k \in Bypass, NEW part \in {"plain"} \cup WanArps, PeerOther(part, k)
       PROVE  TagInv' /\ PairInv'
  <2>1. UNCHANGED <<held, cur, toLan>>
    BY <1>10 DEF PeerOther
  <2> QED
    BY <1>10, <2>1, OtherTags, PairSame
<1>11. CASE PeerReboot \/ PeerRuntimeRestart
  <2>1. UNCHANGED <<held, cur, toLan>>
    BY <1>11 DEF PeerReboot, PeerRuntimeRestart
  <2> QED
    BY <1>11, <2>1, RestartTags, PairSame
<1>12. ASSUME \/ UNCHANGED vars
              \/ \E f, k, kind, w : LanBypass(k, f) \/ LanArp(w, kind, f)
              \/ \E w, b : LocalArp(w, b)
              \/ \E s : TxWan(s)
       PROVE  TagInv' /\ PairInv'
  <2>1. UNCHANGED <<net, wanQ, reasm, peer, held, cur, toLan>>
    BY <1>12 DEF vars, pathVars, LanBypass, LanArp, LocalArp, TxWan
  <2> QED
    BY <2>1, TagsSame, PairSame
<1> QED
  BY <1>1, <1>2, <1>3, <1>4, <1>5, <1>6, <1>7, <1>8, <1>9, <1>10, <1>11, <1>12 DEF Next

LEMMA JoinInitial == Init => TagInv /\ PairInv
<1>1. SUFFICES ASSUME Init PROVE TagInv /\ PairInv
  OBVIOUS
<1>2. /\ wanQ = [w \in Worker |-> <<>>] /\ held = [w \in Worker |-> {}] /\ net = {}
      /\ cur = [t \in Thread |-> <<>>] /\ toLan = [r \in Port \X TxSlot |-> <<>>]
      /\ reasm = [w \in Worker |-> [s \in FragSlot |-> Cleared]]
  BY <1>1 DEF Init
<1>3. Len(<<>>) = 0 /\ 1..0 = {}
  OBVIOUS
<1>4. \A w \in Worker : InFlight(w) = {}
  BY <1>2, <1>3 DEF InFlight
<1>5. \A w \in Worker, s \in FragSlot : ~Occupied(reasm[w][s]) /\ ~Whole(reasm[w][s])
  BY <1>2 DEF Cleared, Occupied, Whole
<1>6. TagInv
  BY <1>4, <1>5 DEF TagInv
<1>7. \A w \in Worker : cur[w] = <<>> /\ held[w] = {}
  BY <1>2 DEF Thread
<1>8. \A r \in Port \X TxSlot : Paired(toLan[r])
  BY <1>2, <1>3 DEF Paired
<1> QED
  BY <1>6, <1>7, <1>8 DEF PairInv

LEMMA PairsJoin == ASSUME DataType, PairInv PROVE JoinedWhole
<1>1. \A r \in Port \X TxSlot : toLan[r] \in Seq(LanTx)
  BY DEF DataType, QueueType
<1>2. \A r \in Port \X TxSlot : DOMAIN toLan[r] = 1..Len(toLan[r])
  BY <1>1, LenProperties
<1> QED
  BY <1>2 DEF PairInv, Paired, JoinedWhole

----------------------------------------------------------------------------
(* The numbers a connection's datagrams get.                               *)

(* Every connection has a way or a place in the list of fallback numbers,  *)
(* so that no list gives one up.                                           *)
FewConnections == IsFiniteSet(Tunnelled) /\ Cardinality(Tunnelled) <= Ways + FbWays

(* Frames are counted as they come; all that went on to a worker came      *)
(* before the one the RX thread has in hand.                               *)
Bound == IF cur[LanRx] = <<>> THEN came.lan + 1 ELSE came.lan

(* Worker w is the one of a home of k.                                     *)
HomeOf(k, w) == \E h \in homes[k] : h.worker = w

(* A frame of k that came as the n-th waits for its number.                *)
IsData(w, i) == i \in 1..Len(lanQ[w]) /\ lanQ[w][i].pc = "data"
Waits(w, k, n) == \/ \E i \in 1..Len(lanQ[w]) : IsData(w, i) /\ lanQ[w][i].k = k /\ lanQ[w][i].n = n
                  \/ Working(w, "encrypt") /\ J(w).k = k /\ J(w).n = n

(* A worker's frames wait in the order in which they came, and are of the  *)
(* connections that have their home there.                                 *)
LineInv ==
  /\ cur[LanRx] # <<>> => cur[LanRx][1].n = came.lan
  /\ \A w \in Worker :
       /\ \A k \in Conn, n \in Nat : Waits(w, k, n) => n < Bound /\ HomeOf(k, w)
       /\ \A i, j \in 1..Len(lanQ[w]) :
            IsData(w, i) /\ IsData(w, j) /\ i < j => lanQ[w][i].n < lanQ[w][j].n
       /\ Working(w, "encrypt") =>
            \A i \in 1..Len(lanQ[w]) : IsData(w, i) => J(w).n < lanQ[w][i].n

(* What was numbered came before what waits.                               *)
Rising(s) == \A i, j \in 1..Len(s) : i < j => s[i][1] < s[j][1] /\ s[i][2] < s[j][2]
GivenInv ==
  \A k \in Conn :
    /\ Rising(given[k])
    /\ \A g \in 1..Len(given[k]) :
         /\ given[k][g][1] < Bound /\ homes[k] # {}
         /\ \A w \in Worker, n \in Nat : Waits(w, k, n) => given[k][g][1] < n

(* The ways are those of tunnelled connections; a list holds only what a   *)
(* full set has no way for, each connection once.                          *)
Absent(k) == \A i \in 1..Len(table) : table[i].key # k
ListInv ==
  /\ \A i \in 1..Len(table) : table[i].key \in Tunnelled
  /\ \A w \in Worker :
       /\ Len(fb[w]) <= FbWays
       /\ \A i, j \in 1..Len(fb[w]) : fb[w][i].key = fb[w][j].key => i = j
       /\ \A i \in 1..Len(fb[w]) :
            fb[w][i].key \in Tunnelled /\ Len(table) = Ways /\ Absent(fb[w][i].key)

(* The next number of a connection is past those given.                    *)
Above(k, n) == \A g \in 1..Len(given[k]) : given[k][g][2] < n
DrawnInv ==
  \A k \in Conn :
    /\ \A i \in 1..Len(table) : table[i].key = k => Above(k, table[i].seq)
    /\ given[k] # <<>> /\ Absent(k) =>
         \A w \in Worker : HomeOf(k, w) =>
           \E j \in 1..Len(fb[w]) : fb[w][j].key = k /\ Above(k, fb[w][j].next)

NumberInv == LineInv /\ GivenInv /\ ListInv /\ DrawnInv

LEMMA BoundType == ASSUME WorldType PROVE Bound \in Nat /\ came.lan \in Nat
  BY DEF WorldType, Bound

(* The data frames of a queue.                                             *)
LEMMA LineJob ==
  ASSUME DataType, NEW w \in Worker, NEW i, IsData(w, i)
  PROVE  /\ lanQ[w][i] \in DataJob /\ lanQ[w][i].n \in Nat /\ lanQ[w][i].k \in Conn
         /\ Waits(w, lanQ[w][i].k, lanQ[w][i].n)
<1>1. lanQ[w] \in Seq(DataJob \cup ArpJob) /\ i \in 1..Len(lanQ[w])
  BY DEF DataType, QueueType, IsData
<1>2. lanQ[w][i] \in DataJob \cup ArpJob
  BY <1>1, ElementOfSeq
<1>3. lanQ[w][i] \in DataJob
  BY <1>2, JobKinds DEF IsData
<1> QED
  BY <1>1, <1>3, Kinds DEF DataJob, Waits

(* The frame a worker is about to number.                                  *)
LEMMA HandJob ==
  ASSUME DataType, NEW w \in Worker, Working(w, "encrypt")
  PROVE  /\ J(w) \in EncryptJob /\ J(w).n \in Nat /\ J(w).k \in Tunnelled /\ J(w).k \in Conn
         /\ Waits(w, J(w).k, J(w).n)
<1>1. J(w) \in EncryptJob
  BY InHand, JobKinds DEF DataType
<1> QED
  BY <1>1, Kinds DEF EncryptJob, Waits

(* What waits is a frame in a queue or in hand.                            *)
LEMMA WaitsCases ==
  ASSUME NEW w, NEW k, NEW n, Waits(w, k, n)
  PROVE  \/ \E i : IsData(w, i) /\ lanQ[w][i].k = k /\ lanQ[w][i].n = n
         \/ Working(w, "encrypt") /\ J(w).k = k /\ J(w).n = n
  BY DEF Waits

(* Nothing moves but what is in the hands of threads.                      *)
LEMMA LineSame ==
  ASSUME DataType, WorldType', LineInv, lanQ' = lanQ, Bound' >= Bound,
         \A k \in Conn : homes[k] \subseteq homes'[k],
         \A w \in Worker : Working(w, "encrypt")' => Working(w, "encrypt") /\ J(w)' = J(w),
         cur'[LanRx] # <<>> => cur'[LanRx][1].n = came'.lan
  PROVE  LineInv' /\ \A w \in Worker : \A k, n : Waits(w, k, n)' => Waits(w, k, n)
<1>1. ASSUME NEW w \in Worker, NEW k, NEW n, Waits(w, k, n)'
      PROVE  Waits(w, k, n)
  BY <1>1 DEF Waits, IsData
<1>2. Bound \in Nat /\ Bound' \in Nat
  BY BoundType DEF DataType, Bound, WorldType
<1>3. ASSUME NEW w \in Worker, NEW k \in Conn, NEW n \in Nat, Waits(w, k, n)'
      PROVE  n < Bound' /\ HomeOf(k, w)'
  <2>1. n < Bound /\ HomeOf(k, w)
    BY <1>1, <1>3 DEF LineInv
  <2> QED
    BY <2>1, <1>2 DEF HomeOf
<1>4. ASSUME NEW w \in Worker
      PROVE  /\ \A i, j \in 1..Len(lanQ'[w]) :
                  IsData(w, i)' /\ IsData(w, j)' /\ i < j => lanQ'[w][i].n < lanQ'[w][j].n
             /\ Working(w, "encrypt")' =>
                  \A i \in 1..Len(lanQ'[w]) : IsData(w, i)' => J(w)'.n < lanQ'[w][i].n
  BY DEF LineInv, IsData
<1>5. LineInv'
  BY <1>3, <1>4 DEF LineInv
<1> QED
  BY <1>1, <1>5

(* A worker takes the first frame of its queue in hand, or drops it.       *)
LEMMA LinePop ==
  ASSUME DataType, LineInv, NEW w \in Worker, lanQ[w] # <<>>, Idle(w), came' = came,
         homes' = homes, lanQ' = [lanQ EXCEPT ![w] = Tail(@)],
         \/ cur' = cur
         \/ Head(lanQ[w]).pc = "data" /\ Busy(w, [Head(lanQ[w]) EXCEPT !.pc = "encrypt"])
  PROVE  LineInv' /\ Bound' = Bound
         /\ \A v \in Worker : \A k, n : Waits(v, k, n)' => Waits(v, k, n)
<1> DEFINE S == DataJob \cup ArpJob
           h == Head(lanQ[w])
<1>1. lanQ \in [Worker -> Seq(S)] /\ CurType
  BY DEF DataType, QueueType
<1>2. /\ Len(lanQ[w]) \in Nat /\ Len(lanQ[w]) > 0 /\ h = lanQ[w][1]
      /\ Len(lanQ'[w]) = Len(lanQ[w]) - 1
      /\ \A i \in 1..(Len(lanQ[w]) - 1) : lanQ'[w][i] = lanQ[w][i + 1]
      /\ h \in S
  <2> HIDE DEF S
  <2>1. lanQ'[w] = Tail(lanQ[w])
    BY <1>1
  <2> QED
    BY <1>1, <2>1, PopType
<1>3. \A v \in Worker : v # w => lanQ'[v] = lanQ[v]
  BY <1>1
<1>4. /\ w \in Thread /\ LanRx # w /\ LanRx \in Thread /\ DOMAIN cur = Thread
      /\ \A v \in Worker : v \in Thread
  BY <1>1, Sizes_ DEF Thread, LanRx, CurType
<1>5. /\ \A t \in Thread : t # w => cur'[t] = cur[t]
      /\ \/ cur'[w] = <<>>
         \/ h.pc = "data" /\ cur'[w] = <<[h EXCEPT !.pc = "encrypt"]>>
  BY <1>1, <1>4 DEF Busy, Idle, CurType
<1>6. Bound' = Bound
  BY <1>4, <1>5 DEF Bound
<1>7. ASSUME NEW i, IsData(w, i)'
      PROVE  /\ i \in 1..(Len(lanQ[w]) - 1) /\ i + 1 \in 1..Len(lanQ[w])
             /\ IsData(w, i + 1) /\ lanQ'[w][i] = lanQ[w][i + 1]
  BY <1>2, <1>7 DEF IsData
<1>8. ASSUME Working(w, "encrypt")'
      PROVE  /\ IsData(w, 1) /\ J(w)'.n = lanQ[w][1].n /\ J(w)'.k = lanQ[w][1].k
  <2>1. cur'[w] = <<[h EXCEPT !.pc = "encrypt"]>> /\ h.pc = "data"
    BY <1>5, <1>8 DEF Working
  <2>2. h \in DataJob
    BY <1>2, <2>1, JobKinds
  <2>3. J(w)' = [h EXCEPT !.pc = "encrypt"]
    BY <2>1 DEF J
  <2>4. J(w)'.n = h.n /\ J(w)'.k = h.k
    BY <2>2, <2>3 DEF DataJob
  <2> QED
    BY <1>2, <2>1, <2>4 DEF IsData
<1>9. ASSUME NEW v \in Worker, v # w, Working(v, "encrypt")'
      PROVE  Working(v, "encrypt") /\ J(v)' = J(v)
  BY <1>4, <1>5, <1>9 DEF Working, J
<1>10. ASSUME NEW v \in Worker, NEW k, NEW n, Waits(v, k, n)'
       PROVE  Waits(v, k, n)
  <2>1. CASE v = w
    <3>1. CASE \E i : IsData(w, i)' /\ lanQ'[w][i].k = k /\ lanQ'[w][i].n = n
      <4>1. PICK i : IsData(w, i)' /\ lanQ'[w][i].k = k /\ lanQ'[w][i].n = n
        BY <3>1
      <4> QED
        BY <2>1, <4>1, <1>7 DEF Waits
    <3>2. CASE Working(w, "encrypt")' /\ J(w)'.k = k /\ J(w)'.n = n
      BY <2>1, <3>2, <1>2, <1>8 DEF Waits
    <3> QED
      BY <2>1, <3>1, <3>2, <1>10 DEF Waits
  <2>2. CASE v # w
    BY <1>3, <1>9, <1>10, <2>2 DEF Waits, IsData
  <2> QED
    BY <2>1, <2>2
<1>11. ASSUME NEW v \in Worker, NEW k \in Conn, NEW n \in Nat, Waits(v, k, n)'
       PROVE  n < Bound' /\ HomeOf(k, v)'
  BY <1>6, <1>10, <1>11 DEF LineInv, HomeOf
<1>12. ASSUME NEW v \in Worker
       PROVE  /\ \A i, j \in 1..Len(lanQ'[v]) :
                   IsData(v, i)' /\ IsData(v, j)' /\ i < j => lanQ'[v][i].n < lanQ'[v][j].n
              /\ Working(v, "encrypt")' =>
                   \A i \in 1..Len(lanQ'[v]) : IsData(v, i)' => J(v)'.n < lanQ'[v][i].n
  <2>1. CASE v # w
    BY <1>3, <1>9, <2>1 DEF LineInv, IsData
  <2>2. CASE v = w
    <3>1. ASSUME NEW i, NEW j, IsData(w, i)', IsData(w, j)', i < j
          PROVE  lanQ'[w][i].n < lanQ'[w][j].n
      <4>1. i + 1 < j + 1
        BY <1>7, <3>1
      <4> QED
        BY <1>7, <3>1, <4>1 DEF LineInv
    <3>2. ASSUME NEW i, IsData(w, i)', Working(w, "encrypt")'
          PROVE  J(w)'.n < lanQ'[w][i].n
      <4>1. 1 < i + 1 /\ 1 \in 1..Len(lanQ[w])
        BY <1>2, <1>7, <3>2
      <4> QED
        BY <1>7, <1>8, <3>2, <4>1 DEF LineInv
    <3> QED
      BY <2>2, <3>1, <3>2
  <2> QED
    BY <2>1, <2>2
<1>13. cur'[LanRx] = cur[LanRx]
  BY <1>4, <1>5
<1>14. LineInv'
  BY <1>11, <1>12, <1>13 DEF LineInv
<1> QED
  BY <1>6, <1>10, <1>14

(* A frame that comes is queued, for its home or, without a number, as one *)
(* that no number is for; or the queue is full.                            *)
LEMMA LinePush ==
  ASSUME DataType, WorldType', LineInv, NEW w \in Worker, NEW job \in DataJob \cup ArpJob,
         lanQ' = [lanQ EXCEPT ![w] = Append(@, job)],
         \A v \in Worker : cur'[v] = cur[v],
         cur'[LanRx] = <<>>, Bound' >= Bound, \A k \in Conn : homes[k] \subseteq homes'[k],
         job \in DataJob => job.n >= Bound /\ job.n < Bound' /\ HomeOf(job.k, w)'
  PROVE  LineInv' /\ \A v \in Worker : \A k, n : Waits(v, k, n)' => Waits(v, k, n) \/ n >= Bound
<1> DEFINE S == DataJob \cup ArpJob
           m == Len(lanQ[w]) + 1
<1>0. Bound \in Nat /\ Bound' \in Nat
  BY BoundType DEF DataType, Bound, WorldType
<1>1. lanQ \in [Worker -> Seq(S)] /\ Bound \in Nat /\ Bound' \in Nat
  BY <1>0 DEF DataType, QueueType
<1>2. /\ lanQ[w] \in Seq(S) /\ Len(lanQ[w]) \in Nat /\ m \in Nat /\ lanQ'[w] = Append(lanQ[w], job)
      /\ \A v \in Worker : v # w => lanQ'[v] = lanQ[v]
  BY <1>1, LenProperties
<1>3. /\ Len(lanQ'[w]) = m /\ lanQ'[w][m] = job
      /\ \A i \in 1..Len(lanQ[w]) : lanQ'[w][i] = lanQ[w][i]
  <2> HIDE DEF S
  <2> QED
    BY <1>2
<1>4. ASSUME NEW i, IsData(w, i)'
      PROVE  \/ IsData(w, i) /\ i < m /\ lanQ'[w][i] = lanQ[w][i]
             \/ i = m /\ job \in DataJob /\ lanQ'[w][i] = job
  <2>1. i \in 1..m /\ lanQ'[w][i].pc = "data"
    BY <1>3, <1>4 DEF IsData
  <2>2. CASE i = m
    BY <1>3, <2>1, <2>2, JobKinds
  <2>3. CASE i # m
    <3>1. i \in 1..Len(lanQ[w])
      BY <1>2, <2>1, <2>3
    <3> QED
      BY <1>2, <1>3, <2>1, <3>1 DEF IsData
  <2> QED
    BY <2>2, <2>3
<1>5. ASSUME NEW v \in Worker, Working(v, "encrypt")'
      PROVE  Working(v, "encrypt") /\ J(v)' = J(v)
  BY <1>5 DEF Working, J
<1>6. ASSUME NEW v \in Worker, NEW k, NEW n, Waits(v, k, n)'
      PROVE  Waits(v, k, n) \/ (v = w /\ job \in DataJob /\ k = job.k /\ n = job.n)
  <2>1. CASE Working(v, "encrypt")' /\ J(v)'.k = k /\ J(v)'.n = n
    BY <1>5, <2>1 DEF Waits
  <2>2. CASE \E i : IsData(v, i)' /\ lanQ'[v][i].k = k /\ lanQ'[v][i].n = n
    <3>1. PICK i : IsData(v, i)' /\ lanQ'[v][i].k = k /\ lanQ'[v][i].n = n
      BY <2>2
    <3>2. CASE v # w
      BY <1>2, <3>1, <3>2 DEF Waits, IsData
    <3>3. CASE v = w
      <4>1. CASE IsData(w, i) /\ lanQ'[w][i] = lanQ[w][i]
        BY <3>1, <3>3, <4>1 DEF Waits, IsData
      <4> QED
        BY <1>4, <3>1, <3>3, <4>1
    <3> QED
      BY <3>2, <3>3
  <2> QED
    BY <1>6, <2>1, <2>2 DEF Waits
<1>7. ASSUME NEW v \in Worker, NEW k \in Conn, NEW n \in Nat, Waits(v, k, n)'
      PROVE  n < Bound' /\ HomeOf(k, v)'
  <2>1. CASE Waits(v, k, n)
    <3>1. n < Bound /\ HomeOf(k, v)
      BY <1>7, <2>1 DEF LineInv
    <3>2. HomeOf(k, v)'
      BY <3>1 DEF HomeOf
    <3> QED
      BY <1>1, <3>1, <3>2
  <2>2. CASE v = w /\ job \in DataJob /\ k = job.k /\ n = job.n
    BY <2>2
  <2> QED
    BY <1>6, <1>7, <2>1, <2>2
<1>8. ASSUME NEW i, IsData(w, i)
      PROVE  lanQ[w][i].n < Bound /\ lanQ[w][i].n \in Nat
  BY <1>8, LineJob DEF LineInv
<1>9. ASSUME NEW v \in Worker
      PROVE  /\ \A i, j \in 1..Len(lanQ'[v]) :
                  IsData(v, i)' /\ IsData(v, j)' /\ i < j => lanQ'[v][i].n < lanQ'[v][j].n
             /\ Working(v, "encrypt")' =>
                  \A i \in 1..Len(lanQ'[v]) : IsData(v, i)' => J(v)'.n < lanQ'[v][i].n
  <2>1. CASE v # w
    <3>1. lanQ'[v] = lanQ[v] /\ \A i : IsData(v, i)' <=> IsData(v, i)
      BY <1>2, <2>1 DEF IsData
    <3>2. ASSUME NEW i \in 1..Len(lanQ'[v]), NEW j \in 1..Len(lanQ'[v]),
                 IsData(v, i)', IsData(v, j)', i < j
          PROVE  lanQ'[v][i].n < lanQ'[v][j].n
      BY <3>1, <3>2 DEF LineInv
    <3>3. ASSUME NEW i \in 1..Len(lanQ'[v]), IsData(v, i)', Working(v, "encrypt")'
          PROVE  J(v)'.n < lanQ'[v][i].n
      BY <1>5, <3>1, <3>3 DEF LineInv
    <3> QED
      BY <3>2, <3>3
  <2>2. CASE v = w
    <3>1. ASSUME NEW i \in 1..Len(lanQ'[w]), NEW j \in 1..Len(lanQ'[w]),
                 IsData(w, i)', IsData(w, j)', i < j
          PROVE  lanQ'[w][i].n < lanQ'[w][j].n
      <4>1. i < m /\ IsData(w, i) /\ lanQ'[w][i] = lanQ[w][i]
        BY <1>2, <1>3, <1>4, <3>1
      <4>2. CASE j = m /\ job \in DataJob /\ lanQ'[w][j] = job
        <5>1. job.n \in Nat /\ job.n >= Bound
          BY <4>2 DEF DataJob
        <5> QED
          BY <1>1, <1>8, <4>1, <4>2, <5>1
      <4>3. CASE IsData(w, j) /\ lanQ'[w][j] = lanQ[w][j]
        BY <3>1, <4>1, <4>3 DEF LineInv, IsData
      <4> QED
        BY <1>4, <3>1, <4>2, <4>3
    <3>2. ASSUME NEW i, IsData(w, i)', Working(w, "encrypt")'
          PROVE  J(w)'.n < lanQ'[w][i].n
      <4>1. Working(w, "encrypt") /\ J(w)' = J(w)
        BY <1>5, <3>2
      <4>2. J(w).n < Bound /\ J(w).n \in Nat
        BY <4>1, HandJob DEF LineInv
      <4>3. CASE i = m /\ job \in DataJob /\ lanQ'[w][i] = job
        <5>1. job.n \in Nat /\ job.n >= Bound
          BY <4>3 DEF DataJob
        <5> QED
          BY <1>1, <4>1, <4>2, <4>3, <5>1
      <4>4. CASE IsData(w, i) /\ lanQ'[w][i] = lanQ[w][i]
        BY <4>1, <4>4 DEF LineInv, IsData
      <4> QED
        BY <1>4, <3>2, <4>3, <4>4
    <3> QED
      BY <2>2, <3>1, <3>2
  <2> QED
    BY <2>1, <2>2
<1>10. LineInv'
  BY <1>7, <1>9 DEF LineInv
<1>11. ASSUME NEW v \in Worker, NEW k, NEW n, Waits(v, k, n)'
       PROVE  Waits(v, k, n) \/ n >= Bound
  BY <1>6, <1>11
<1> QED
  BY <1>10, <1>11

(* Nothing is numbered.                                                    *)
LEMMA GivenKeeps ==
  ASSUME DataType, WorldType', GivenInv, given' = given, Bound' >= Bound,
         \A k \in Conn : homes[k] \subseteq homes'[k],
         \A w \in Worker : \A k, n : Waits(w, k, n)' => Waits(w, k, n) \/ n >= Bound
  PROVE  GivenInv'
<1>1. Bound \in Nat /\ Bound' \in Nat
  BY BoundType DEF DataType, Bound, WorldType
<1>2. ASSUME NEW k \in Conn, NEW g \in 1..Len(given[k])
      PROVE  given[k][g][1] \in Nat
  <2>1. given[k] \in Seq(Nat \X Nat)
    BY DEF DataType, WorldType
  <2>2. given[k][g] \in Nat \X Nat
    BY <2>1, ElementOfSeq
  <2> QED
    BY <2>2
<1>3. SUFFICES ASSUME NEW k \in Conn
      PROVE  /\ Rising(given[k])
             /\ \A g \in 1..Len(given[k]) :
                  /\ given[k][g][1] < Bound' /\ homes'[k] # {}
                  /\ \A w \in Worker, n \in Nat : Waits(w, k, n)' => given[k][g][1] < n
  BY DEF GivenInv, Rising
<1>4. Rising(given[k])
  BY DEF GivenInv
<1>5. SUFFICES ASSUME NEW g \in 1..Len(given[k])
      PROVE  /\ given[k][g][1] < Bound' /\ homes'[k] # {}
             /\ \A w \in Worker, n \in Nat : Waits(w, k, n)' => given[k][g][1] < n
  BY <1>4
<1>6. given[k][g][1] < Bound /\ homes[k] # {} /\ given[k][g][1] \in Nat
  BY <1>2 DEF GivenInv
<1>7. ASSUME NEW w \in Worker, NEW n \in Nat, Waits(w, k, n)'
      PROVE  given[k][g][1] < n
  <2>1. CASE Waits(w, k, n)
    BY <2>1 DEF GivenInv
  <2>2. CASE n >= Bound
    BY <1>1, <1>6, <2>2
  <2> QED
    BY <1>7, <2>1, <2>2
<1> QED
  BY <1>1, <1>6, <1>7

(* The entry of a list that Count looks at is the only one of its key.     *)
LEMMA ListLookup ==
  ASSUME RouteType, RouteInv, ListInv, NEW w \in Worker, NEW k \in Conn, ~Known(k)
  PROVE  /\ Absent(k) /\ Len(fb[w]) \in Nat /\ DOMAIN fb[w] = 1..Len(fb[w])
         /\ \A j \in 1..Len(fb[w]) : fb[w][j].key = k =>
              FbWaysOf(w, k) = {j} /\ Min(FbWaysOf(w, k)) = j /\ NextSeq(w, k) = fb[w][j].next
         /\ FbWaysOf(w, k) # {} =>
              \E j \in 1..Len(fb[w]) : fb[w][j].key = k
<1>1. Absent(k)
  BY LookupFacts DEF Absent
<1>2. fb[w] \in Seq(Fallback) /\ Len(fb[w]) \in Nat /\ DOMAIN fb[w] = 1..Len(fb[w])
  BY LenProperties DEF RouteType
<1>3. ASSUME NEW j \in 1..Len(fb[w]), fb[w][j].key = k
      PROVE  FbWaysOf(w, k) = {j} /\ Min(FbWaysOf(w, k)) = j /\ NextSeq(w, k) = fb[w][j].next
  <2>1. FbWaysOf(w, k) = {j}
    <3>1. \A i \in 1..Len(fb[w]) : fb[w][i].key = k => i = j
      BY <1>3 DEF ListInv
    <3> QED
      BY <1>2, <1>3, <3>1 DEF FbWaysOf
  <2>2. FbWaysOf(w, k) # {}
    BY <2>1
  <2>3. Min(FbWaysOf(w, k)) \in 1..Len(fb[w]) /\ fb[w][Min(FbWaysOf(w, k))].key = k
    BY <2>2, NextSeqType
  <2>4. Min(FbWaysOf(w, k)) = j
    BY <1>3, <2>3 DEF ListInv
  <2> QED
    BY <2>1, <2>2, <2>4 DEF NextSeq
<1>4. FbWaysOf(w, k) # {} => \E j \in 1..Len(fb[w]) : fb[w][j].key = k
  BY <1>2 DEF FbWaysOf
<1> QED
  BY <1>1, <1>2, <1>3, <1>4

(* A list has room for a connection that is neither in it nor in the set.  *)
LEMMA RoomLeft ==
  ASSUME FewConnections, RouteType, RouteInv, ListInv, NEW w \in Worker, NEW k \in Tunnelled,
         Absent(k), Len(table) = Ways, \A j \in 1..Len(fb[w]) : fb[w][j].key # k
  PROVE  Len(fb[w]) < FbWays
<1> DEFINE n == Len(fb[w])
           I == 1..(Ways + n + 1)
           g == [i \in I |-> IF i <= Ways THEN table[i].key
                             ELSE IF i <= Ways + n THEN fb[w][i - Ways].key ELSE k]
<1>1. n \in Nat /\ Ways \in Nat /\ FbWays \in Nat
  BY LenProperties, Sizes_ DEF RouteType
<1>2. ASSUME NEW i \in I
      PROVE  /\ i \in Int
             /\ i <= Ways => i \in 1..Len(table) /\ g[i] = table[i].key
             /\ i > Ways /\ i <= Ways + n => i - Ways \in 1..Len(fb[w]) /\ g[i] = fb[w][i - Ways].key
             /\ i > Ways + n => i = Ways + n + 1 /\ g[i] = k
  <2>1. /\ i \in Int /\ i >= 1 /\ i <= Ways + n + 1
    BY <1>1
  <2>2. g[i] = IF i <= Ways THEN table[i].key ELSE IF i <= Ways + n THEN fb[w][i - Ways].key ELSE k
    <3> HIDE DEF I, n
    <3> QED
      OBVIOUS
  <2> HIDE DEF g, I
  <2>3. i <= Ways => i \in 1..Len(table) /\ g[i] = table[i].key
    BY <1>1, <2>1, <2>2
  <2>4. i > Ways /\ i <= Ways + n => i - Ways \in 1..Len(fb[w]) /\ g[i] = fb[w][i - Ways].key
    BY <1>1, <2>1, <2>2
  <2>5. i > Ways + n => i = Ways + n + 1 /\ g[i] = k
    BY <1>1, <2>1, <2>2
  <2> QED
    BY <2>1, <2>3, <2>4, <2>5
<1> HIDE DEF g, n, I
<1>3. ASSUME NEW i \in I PROVE g[i] \in Tunnelled
  <2>1. CASE i <= Ways
    BY <1>2, <2>1 DEF ListInv
  <2>2. CASE i > Ways /\ i <= Ways + n
    BY <1>2, <2>2 DEF ListInv
  <2>3. CASE i > Ways + n
    BY <1>2, <2>3
  <2> QED
    BY <1>1, <1>2, <2>1, <2>2, <2>3
<1>4. ASSUME NEW i \in I, NEW j \in I, g[i] = g[j], i < j PROVE FALSE
  <2>1. CASE j <= Ways
    <3>1. i <= Ways
      BY <1>1, <1>2, <1>4, <2>1
    <3>2. i = j
      BY <1>2, <1>4, <2>1, <3>1 DEF RouteInv
    <3> QED
      BY <1>2, <1>4, <3>2
  <2>2. CASE j > Ways /\ j <= Ways + n
    <3>1. g[j] = fb[w][j - Ways].key /\ j - Ways \in 1..Len(fb[w])
      BY <1>2, <2>2
    <3>2. CASE i <= Ways
      BY <1>2, <1>4, <3>1, <3>2 DEF ListInv, Absent
    <3>3. CASE i > Ways
      <4>1. i <= Ways + n
        BY <1>1, <1>2, <1>4, <2>2
      <4>2. i - Ways = j - Ways
        BY <1>2, <1>4, <3>1, <3>3, <4>1 DEF ListInv
      <4> QED
        BY <1>1, <1>2, <1>4, <4>2
    <3> QED
      BY <1>1, <1>2, <3>2, <3>3
  <2>3. CASE j > Ways + n
    <3>1. g[j] = k /\ i <= Ways + n
      BY <1>1, <1>2, <1>4, <2>3
    <3>2. CASE i <= Ways
      BY <1>2, <1>4, <3>1, <3>2 DEF Absent
    <3>3. CASE i > Ways
      BY <1>2, <1>4, <3>1, <3>3
    <3> QED
      BY <1>1, <1>2, <3>2, <3>3
  <2> QED
    BY <1>1, <1>2, <2>1, <2>2, <2>3
<1>5. \A i, j \in I : g[i] = g[j] => i = j
  <2>1. I \subseteq Int
    BY DEF I
  <2> QED
    BY <1>4, <2>1
<1>6. g \in Injection(I, Tunnelled)
  <2>1. g \in [I -> Tunnelled]
    <3>1. DOMAIN g = I /\ g = [i \in I |-> g[i]]
      BY DEF g
    <3> QED
      BY <1>3, <3>1
  <2> QED
    BY <1>5, <2>1 DEF Injection, IsInjective
<1>7. IsFiniteSet(I) /\ Cardinality(I) = Ways + n + 1
  <2>1. 1 \in Int /\ Ways + n + 1 \in Int /\ 1 <= Ways + n + 1
    BY <1>1
  <2>2. IsFiniteSet(I) /\ Cardinality(I) = (Ways + n + 1) - 1 + 1
    BY <2>1, FS_Interval DEF I
  <2> QED
    BY <1>1, <2>2
<1>8. Cardinality(I) <= Cardinality(Tunnelled)
  BY <1>6, FS_Injection DEF FewConnections
<1>9. Cardinality(Tunnelled) \in Nat
  BY FS_CardinalityType DEF FewConnections
<1> QED
  BY <1>1, <1>7, <1>8, <1>9 DEF FewConnections, n

(* Numbering in a full set: the entry of the connection moves to the end   *)
(* of the list, one further, and no other one is lost.                     *)
LEMMA CountList ==
  ASSUME FewConnections, RouteType, RouteInv, ListInv, NEW w \in Worker, NEW k \in Tunnelled,
         k \in Conn, ~Known(k), Len(table) = Ways, Count(w, k)
  PROVE  /\ ListInv'
         /\ \E j \in 1..Len(fb'[w]) : fb'[w][j].key = k /\ fb'[w][j].next = NextSeq(w, k) + 1
         /\ \A i \in 1..Len(fb[w]) : fb[w][i].key # k =>
              \E j \in 1..Len(fb'[w]) : fb'[w][j] = fb[w][i]
         /\ \A v \in Worker : v # w => fb'[v] = fb[v]
<1> DEFINE e == [key |-> k, next |-> NextSeq(w, k) + 1]
           a == Kept(w, k)
           m == Len(a) + 1
<1>1. /\ table' = table /\ fb' = [fb EXCEPT ![w] = Append(a, e)]
      /\ fb \in [Worker -> Seq(Fallback)] /\ a \in Seq(Fallback) /\ e \in Fallback
  <2>1. NextSeq(w, k) \in Nat
    BY NextSeqType
  <2>2. e \in Fallback
    BY <2>1 DEF Fallback
  <2>3. a \in Seq(Fallback)
    BY KeptType
  <2>4. table' = table /\ fb' = [fb EXCEPT ![w] = Append(a, e)]
    BY CountFacts
  <2> QED
    BY <2>2, <2>3, <2>4 DEF RouteType
<1>2. Absent(k) /\ Len(fb[w]) \in Nat /\ fb[w] \in Seq(Fallback)
  BY <1>1, ListLookup
<1>3. /\ Len(a) \in Nat /\ Len(a) < FbWays
      /\ \A i \in 1..Len(a) : a[i].key # k /\ \E j \in 1..Len(fb[w]) : a[i] = fb[w][j]
      /\ \A i, j \in 1..Len(a) : a[i].key = a[j].key => i = j
      /\ \A i \in 1..Len(fb[w]) : fb[w][i].key # k => \E j \in 1..Len(a) : a[j] = fb[w][i]
  <2>0. FbWays \in Nat /\ Len(fb[w]) <= FbWays
    BY Sizes_ DEF ListInv
  <2>1. CASE FbWaysOf(w, k) # {}
    <3>1. PICK p \in 1..Len(fb[w]) : fb[w][p].key = k
      BY <2>1, ListLookup
    <3>2. a = RemoveAt(fb[w], p)
      BY <2>1, <3>1, ListLookup DEF Kept
    <3> HIDE DEF a
    <3>3. /\ Len(a) = Len(fb[w]) - 1
          /\ \A j \in 1..(Len(fb[w]) - 1) : a[j] = IF j < p THEN fb[w][j] ELSE fb[w][j + 1]
      BY <1>2, <3>2, RemoveFacts
    <3> DEFINE From(i) == IF i < p THEN i ELSE i + 1
    <3>4. ASSUME NEW i \in 1..Len(a)
          PROVE  From(i) \in 1..Len(fb[w]) /\ From(i) # p /\ a[i] = fb[w][From(i)] /\ i \in Int
      <4>1. i \in Int /\ i >= 1 /\ i <= Len(fb[w]) - 1
        BY <1>2, <3>3
      <4>2. a[i] = IF i < p THEN fb[w][i] ELSE fb[w][i + 1]
        BY <3>3
      <4> QED
        BY <1>2, <4>1, <4>2
    <3>5. \A i, j \in 1..Len(a) : From(i) = From(j) => i = j
      BY <3>1, <3>4
    <3> HIDE DEF From
    <3>6. ASSUME NEW i \in 1..Len(a)
          PROVE  a[i].key # k /\ \E j \in 1..Len(fb[w]) : a[i] = fb[w][j]
      BY <3>1, <3>4 DEF ListInv
    <3>7. ASSUME NEW i \in 1..Len(a), NEW j \in 1..Len(a), a[i].key = a[j].key PROVE i = j
      <4>1. From(i) = From(j)
        BY <3>4, <3>7 DEF ListInv
      <4> QED
        BY <3>5, <4>1
    <3>8. ASSUME NEW i \in 1..Len(fb[w]), fb[w][i].key # k
          PROVE  \E j \in 1..Len(a) : a[j] = fb[w][i]
      <4>1. i # p
        BY <3>1, <3>8
      <4>2. CASE i < p
        <5>1. i \in 1..Len(a)
          BY <1>2, <3>3, <4>2
        <5> QED
          BY <3>3, <4>2, <5>1
      <4>3. CASE i > p
        <5>1. i - 1 \in 1..Len(a) /\ ~(i - 1 < p) /\ (i - 1) + 1 = i
          BY <1>2, <3>3, <4>3
        <5> QED
          BY <3>3, <5>1
      <4> QED
        BY <4>1, <4>2, <4>3
    <3>9. Len(a) \in Nat /\ Len(a) < FbWays
      BY <1>2, <2>0, <3>3
    <3> QED
      BY <3>6, <3>7, <3>8, <3>9
  <2>2. CASE FbWaysOf(w, k) = {}
    <3>1. ASSUME NEW j \in 1..Len(fb[w]), fb[w][j].key = k PROVE FALSE
      <4>1. FbWaysOf(w, k) = {j}
        BY <3>1, ListLookup
      <4> QED
        BY <2>2, <4>1
    <3>2. Len(fb[w]) < FbWays
      BY <1>2, <3>1, RoomLeft
    <3>3. a = fb[w]
      BY <2>2, <3>2 DEF Kept
    <3> HIDE DEF a
    <3> QED
      BY <1>2, <3>1, <3>2, <3>3 DEF ListInv
  <2> QED
    BY <2>1, <2>2
<1> HIDE DEF e, a
<1>4. fb'[w] = Append(a, e) /\ \A v \in Worker : v # w => fb'[v] = fb[v]
  BY <1>1
<1>5. /\ Len(fb'[w]) = m /\ fb'[w][m] = e /\ m \in 1..m
      /\ \A i \in 1..Len(a) : i \in 1..m /\ fb'[w][i] = a[i]
      /\ \A i \in 1..m : i = m \/ i \in 1..Len(a)
  BY <1>1, <1>3, <1>4
<1> HIDE DEF m
<1>6. e.key = k /\ e.next = NextSeq(w, k) + 1
  BY DEF e
<1>7. ASSUME NEW v \in Worker
      PROVE  /\ Len(fb'[v]) <= FbWays
             /\ \A i, j \in 1..Len(fb'[v]) : fb'[v][i].key = fb'[v][j].key => i = j
             /\ \A i \in 1..Len(fb'[v]) :
                  fb'[v][i].key \in Tunnelled /\ Absent(fb'[v][i].key)
  <2>1. CASE v # w
    BY <1>4, <2>1 DEF ListInv
  <2>2. CASE v = w
    <3>1. Len(fb'[w]) <= FbWays
      BY <1>3, <1>5, Sizes_ DEF m
    <3>2. ASSUME NEW i \in 1..Len(fb'[w])
          PROVE  fb'[w][i].key \in Tunnelled /\ Absent(fb'[w][i].key)
      <4>1. CASE i = m
        BY <1>2, <1>5, <1>6, <4>1
      <4>2. CASE i \in 1..Len(a)
        <5>1. fb'[w][i] = a[i]
          BY <1>5, <4>2
        <5>2. PICK j \in 1..Len(fb[w]) : a[i] = fb[w][j]
          BY <1>3, <4>2
        <5> QED
          BY <5>1, <5>2 DEF ListInv
      <4> QED
        BY <1>5, <4>1, <4>2
    <3>3. ASSUME NEW i \in 1..Len(fb'[w]), NEW j \in 1..Len(fb'[w]),
                 fb'[w][i].key = fb'[w][j].key
          PROVE  i = j
      BY <1>3, <1>5, <1>6, <3>3
    <3> QED
      BY <2>2, <3>1, <3>2, <3>3
  <2> QED
    BY <2>1, <2>2
<1>8. ListInv'
  <2>1. \A i \in 1..Len(table') : table'[i].key \in Tunnelled
    BY <1>1 DEF ListInv
  <2>2. \A c : Absent(c)' <=> Absent(c)
    BY <1>1 DEF Absent
  <2> QED
    BY <1>1, <1>7, <2>1, <2>2 DEF ListInv
<1>9. \E j \in 1..Len(fb'[w]) : fb'[w][j].key = k /\ fb'[w][j].next = NextSeq(w, k) + 1
  BY <1>5, <1>6
<1>10. ASSUME NEW i \in 1..Len(fb[w]), fb[w][i].key # k
       PROVE  \E j \in 1..Len(fb'[w]) : fb'[w][j] = fb[w][i]
  BY <1>3, <1>5, <1>10
<1> QED
  BY <1>4, <1>8, <1>9, <1>10

(* Entering a connection changes no list and gives it the number 0.        *)
LEMMA InsertList ==
  ASSUME RouteType, RouteInv, ListInv, NEW k \in Tunnelled, NEW hint \in Thread,
         Insert(k, hint), fb' = fb
  PROVE  /\ ListInv'
         /\ \/ table' = table
            \/ /\ Absent(k) /\ Len(table) < Ways /\ Len(table') = Len(table) + 1
               /\ \A i \in 1..Len(table) : table'[i] = table[i]
               /\ table'[Len(table) + 1].key = k /\ table'[Len(table) + 1].seq = 0
<1>1. k \in Conn /\ Len(table) \in Nat
  BY Kinds, LookupFacts
<1>2. CASE table' = table
  BY <1>2 DEF ListInv, Absent
<1>3. CASE table' # table
  <2> DEFINE e == NewEntry(k, hint)
  <2>1. ~Known(k) /\ Len(table) < Ways /\ table' = Append(table, e) /\ table \in Seq(RouteEntry)
    BY <1>1, <1>3, InsertFacts DEF RouteType
  <2>2. e.key = k /\ e.seq = 0
    BY <1>1, NewEntryType
  <2> HIDE DEF e
  <2>3. /\ Len(table') = Len(table) + 1 /\ table'[Len(table) + 1] = e
        /\ \A i \in 1..Len(table) : table'[i] = table[i]
    BY <1>1, <2>1
  <2>4. Absent(k)
    BY <1>1, <2>1, LookupFacts DEF Absent
  <2>5. \A w \in Worker : 1..Len(fb[w]) = {} /\ Len(fb[w]) <= FbWays
    BY <2>1, <1>1, Sizes_ DEF ListInv
  <2>6. \A i \in 1..Len(table') : table'[i].key \in Tunnelled
    <3>1. \A i \in 1..Len(table') : i \in 1..Len(table) \/ i = Len(table) + 1
      BY <1>1, <2>3
    <3> QED
      BY <2>2, <2>3, <3>1 DEF ListInv
  <2>7. ListInv'
    BY <2>5, <2>6 DEF ListInv
  <2> QED
    BY <2>1, <2>2, <2>3, <2>4, <2>7
<1> QED
  BY <1>2, <1>3

(* A connection with a home keeps it.                                      *)
LEMMA HomeStays ==
  ASSUME RouteInv, RouteInv', NEW k \in Conn, homes[k] # {}, homes[k] \subseteq homes'[k]
  PROVE  homes'[k] = homes[k]
<1>1. \E h : homes[k] = {h}
  BY DEF RouteInv
<1>2. \E h : homes'[k] = {h}
  BY <1>1 DEF RouteInv
<1> QED
  BY <1>1, <1>2

(* Two workers are not both the home of a connection.                      *)
LEMMA OneHomeOf ==
  ASSUME RouteInv, NEW k \in Conn, NEW v, NEW w, HomeOf(k, v), HomeOf(k, w)
  PROVE  v = w
<1>1. \E h : homes[k] = {h}
  BY DEF RouteInv, HomeOf
<1> QED
  BY <1>1 DEF HomeOf

(* Nothing is numbered, and at most a connection is entered.               *)
LEMMA DrawnKeeps ==
  ASSUME RouteType, RouteInv, RouteInv', WorldType, GivenInv, DrawnInv, given' = given, fb' = fb,
         \A k \in Conn : homes[k] \subseteq homes'[k],
         \/ table' = table
         \/ \E k \in Conn :
              /\ Absent(k) /\ Len(table) < Ways /\ Len(table') = Len(table) + 1
              /\ \A i \in 1..Len(table) : table'[i] = table[i]
              /\ table'[Len(table) + 1].key = k
  PROVE  DrawnInv'
<1>1. Len(table) \in Nat
  BY LookupFacts
<1>2. ASSUME NEW k \in Conn
      PROVE  /\ given[k] \in Seq(Nat \X Nat) /\ Len(given[k]) \in Nat
             /\ given[k] # <<>> => Len(given[k]) > 0
  <2>1. given[k] \in Seq(Nat \X Nat)
    BY DEF WorldType
  <2> QED
    BY <2>1, LenProperties, EmptySeq
<1>3. ASSUME NEW k \in Conn, given[k] # <<>>
      PROVE  homes[k] # {} /\ homes'[k] = homes[k]
  <2>1. homes[k] # {}
    <3>1. 1 \in 1..Len(given[k])
      BY <1>2, <1>3
    <3> QED
      BY <3>1 DEF GivenInv
  <2> QED
    BY <2>1, HomeStays
<1>4. \A k \in Conn : \A n : Above(k, n)' <=> Above(k, n)
  BY DEF Above
<1>5. ASSUME NEW k \in Conn, NEW i \in 1..Len(table'), table'[i].key = k
      PROVE  Above(k, table'[i].seq)
  <2>1. CASE i \in 1..Len(table) /\ table'[i] = table[i]
    BY <1>5, <2>1 DEF DrawnInv
  <2>2. CASE ~(i \in 1..Len(table) /\ table'[i] = table[i])
    <3>1. PICK c \in Conn :
              /\ Absent(c) /\ Len(table) < Ways /\ Len(table') = Len(table) + 1
              /\ \A j \in 1..Len(table) : table'[j] = table[j]
              /\ table'[Len(table) + 1].key = c
      BY <1>5, <2>2
    <3>2. i = Len(table) + 1 /\ k = c
      BY <1>1, <1>5, <2>2, <3>1
    <3>3. homes[k] = {}
      BY <1>1, <3>1, <3>2, Sizes_ DEF RouteInv, Absent
    <3>4. given[k] = <<>>
      BY <1>3, <3>3
    <3>5. Len(given[k]) = 0
      BY <3>4
    <3> QED
      BY <3>5 DEF Above
  <2> QED
    BY <2>1, <2>2
<1>6. ASSUME NEW k, Absent(k)'
      PROVE  Absent(k)
  <2>1. CASE table' = table
    BY <1>6, <2>1 DEF Absent
  <2>2. CASE /\ Len(table') = Len(table) + 1
             /\ \A j \in 1..Len(table) : table'[j] = table[j]
    <3>1. \A j \in 1..Len(table) : j \in 1..Len(table')
      BY <1>1, <2>2
    <3> QED
      BY <1>6, <2>2, <3>1 DEF Absent
  <2> QED
    BY <2>1, <2>2
<1>7. ASSUME NEW k \in Conn, given[k] # <<>>, Absent(k)', NEW w \in Worker, HomeOf(k, w)'
      PROVE  \E j \in 1..Len(fb[w]) : fb[w][j].key = k /\ Above(k, fb[w][j].next)
  BY <1>3, <1>6, <1>7 DEF DrawnInv, HomeOf
<1> QED
  BY <1>4, <1>5, <1>7 DEF DrawnInv

(* A worker numbers the frame in its hand.                                 *)
LEMMA NumberStep ==
  ASSUME FewConnections, DataType, DataType', RouteInv, NumberInv, NEW w \in Worker,
         Working(w, "encrypt"), Number(w, J(w)), Done(w),
         lanQ' = lanQ, homes' = homes, came' = came
  PROVE  NumberInv'
<1>0. PICK k, n, s : k = J(w).k /\ n = J(w).n /\ s = NextSeq(w, k)
  OBVIOUS
<1> DEFINE G == given[k]
           Past(c, m) == \A g \in 1..Len(given'[c]) : given'[c][g][2] < m
<1>1. /\ RouteType /\ WorldType /\ WorldType' /\ CurType
      /\ LineInv /\ GivenInv /\ ListInv /\ DrawnInv
  BY DEF DataType, NumberInv
<1>2. k \in Tunnelled /\ k \in Conn /\ n \in Nat /\ Waits(w, k, n)
  BY <1>0, HandJob DEF DataType
<1>3. HomeOf(k, w) /\ n < Bound
  BY <1>1, <1>2 DEF LineInv
<1>4. Count(w, k) /\ given' = [given EXCEPT ![k] = Append(@, <<n, s>>)]
  BY <1>0 DEF Number
<1>5. s \in Nat /\ \A c \in Conn : given[c] \in Seq(Nat \X Nat)
  BY <1>0, <1>1, <1>2, NextSeqType DEF WorldType
<1>6. /\ w \in Thread /\ LanRx # w /\ LanRx \in Thread /\ DOMAIN cur = Thread
      /\ \A v \in Worker : v \in Thread
  BY <1>1, Sizes_ DEF Thread, LanRx, CurType
<1>7. cur'[w] = <<>> /\ \A t \in Thread : t # w => cur'[t] = cur[t]
  BY <1>6 DEF Done
<1>8. Bound' = Bound /\ Bound \in Nat /\ cur'[LanRx] = cur[LanRx]
  BY <1>1, <1>6, <1>7, BoundType DEF Bound
<1>9. ~Working(w, "encrypt")'
  BY <1>7 DEF Working
<1>10. LineInv' /\ \A v \in Worker : \A c, m : Waits(v, c, m)' => Waits(v, c, m)
  <2>1. \A v \in Worker : Working(v, "encrypt")' => Working(v, "encrypt") /\ J(v)' = J(v)
    BY <1>6, <1>7, <1>9 DEF Working, J
  <2>2. cur'[LanRx] # <<>> => cur'[LanRx][1].n = came'.lan
    BY <1>1, <1>8 DEF LineInv
  <2> QED
    BY <1>1, <1>8, <2>1, <2>2, LineSame
<1>11. /\ \A c \in Conn : c # k => given'[c] = given[c]
       /\ given'[k] = Append(G, <<n, s>>)
       /\ Len(G) \in Nat /\ Len(given'[k]) = Len(G) + 1 /\ given'[k][Len(G) + 1] = <<n, s>>
       /\ \A g \in 1..Len(G) : given'[k][g] = G[g] /\ G[g][1] \in Nat /\ G[g][2] \in Nat
  <2>1. given \in [Conn -> Seq(Nat \X Nat)] /\ G \in Seq(Nat \X Nat)
    BY <1>1, <1>2 DEF WorldType
  <2>2. given'[k] = Append(G, <<n, s>>) /\ \A c \in Conn : c # k => given'[c] = given[c]
    BY <1>2, <1>4, <2>1
  <2>3. <<n, s>> \in Nat \X Nat
    BY <1>2, <1>5
  <2> HIDE DEF G
  <2>4. /\ Len(G) \in Nat /\ Len(given'[k]) = Len(G) + 1 /\ given'[k][Len(G) + 1] = <<n, s>>
        /\ \A g \in 1..Len(G) : given'[k][g] = G[g]
    BY <2>1, <2>2, <2>3
  <2>5. ASSUME NEW g \in 1..Len(G) PROVE G[g][1] \in Nat /\ G[g][2] \in Nat
    <3>1. G[g] \in Nat \X Nat
      BY <2>1, ElementOfSeq
    <3> QED
      BY <3>1
  <2> QED
    BY <2>2, <2>4, <2>5
<1>12. \A g \in 1..Len(given'[k]) : g \in 1..Len(G) \/ g = Len(G) + 1
  BY <1>11
(* The numbers given before are lower.                                     *)
<1>13. /\ Known(k) => \E i \in 1..Len(table) :
            table[i].key = k /\ WayOf(k) = i /\ s = table[i].seq
       /\ ~Known(k) => /\ Absent(k) /\ Len(table) = Ways
                       /\ given[k] # <<>> => \E j \in 1..Len(fb[w]) :
                            fb[w][j].key = k /\ s = fb[w][j].next /\ Above(k, fb[w][j].next)
  <2>1. ASSUME Known(k)
        PROVE  \E i \in 1..Len(table) : table[i].key = k /\ WayOf(k) = i /\ s = table[i].seq
    <3>1. PICK i \in 1..Len(table) : table[i].key = k
      BY <1>1, <2>1, LookupFacts
    <3>2. WayOf(k) = i
      BY <1>1, <3>1, LookupFacts
    <3> QED
      BY <1>0, <2>1, <3>1, <3>2 DEF NextSeq
  <2>2. ASSUME ~Known(k)
        PROVE  /\ Absent(k) /\ Len(table) = Ways
               /\ given[k] # <<>> => \E j \in 1..Len(fb[w]) :
                    fb[w][j].key = k /\ s = fb[w][j].next /\ Above(k, fb[w][j].next)
    <3>1. Absent(k)
      BY <1>1, <1>2, <2>2, ListLookup
    <3>2. Len(table) = Ways
      BY <1>2, <1>3, <3>1 DEF RouteInv, HomeOf, Absent
    <3>3. ASSUME given[k] # <<>>
          PROVE  \E j \in 1..Len(fb[w]) :
                   fb[w][j].key = k /\ s = fb[w][j].next /\ Above(k, fb[w][j].next)
      <4>1. PICK j \in 1..Len(fb[w]) : fb[w][j].key = k /\ Above(k, fb[w][j].next)
        BY <1>1, <1>2, <1>3, <3>1, <3>3 DEF DrawnInv
      <4>2. s = fb[w][j].next
        BY <1>0, <1>1, <1>2, <2>2, <4>1, ListLookup
      <4> QED
        BY <4>1, <4>2
    <3> QED
      BY <3>1, <3>2, <3>3
  <2> QED
    BY <2>1, <2>2
<1>14. \A g \in 1..Len(G) : G[g][1] < n /\ G[g][2] < s
  <2>1. \A g \in 1..Len(G) : G[g][1] < n
    BY <1>1, <1>2 DEF GivenInv
  <2>2. CASE Known(k)
    BY <1>1, <1>2, <1>13, <2>1, <2>2 DEF DrawnInv, Above
  <2>3. CASE ~Known(k)
    <3>1. CASE given[k] = <<>>
      <4>1. Len(G) = 0
        BY <3>1
      <4> QED
        BY <4>1
    <3>2. CASE given[k] # <<>>
      BY <1>13, <2>1, <2>3, <3>2 DEF Above
    <3> QED
      BY <3>1, <3>2
  <2> QED
    BY <2>2, <2>3
<1>15. Rising(given[k])'
  <2>1. Rising(G)
    BY <1>1, <1>2 DEF GivenInv
  <2>2. SUFFICES ASSUME NEW i \in 1..Len(given'[k]), NEW j \in 1..Len(given'[k]), i < j
                 PROVE  given'[k][i][1] < given'[k][j][1] /\ given'[k][i][2] < given'[k][j][2]
    BY DEF Rising
  <2>3. i \in 1..Len(G)
    BY <1>11, <1>12, <2>2
  <2>4. CASE j \in 1..Len(G)
    BY <1>11, <2>1, <2>2, <2>3, <2>4 DEF Rising
  <2>5. CASE j = Len(G) + 1
    BY <1>11, <1>14, <2>3, <2>5
  <2> QED
    BY <1>12, <2>4, <2>5
<1>16. ASSUME NEW v \in Worker, NEW m \in Nat, Waits(v, k, m)'
       PROVE  n < m
  <2>1. Waits(v, k, m) /\ HomeOf(k, v)
    BY <1>1, <1>2, <1>10, <1>16 DEF LineInv
  <2>2. v = w
    BY <1>2, <1>3, <2>1, OneHomeOf
  <2>3. PICK i : IsData(w, i) /\ lanQ[w][i].n = m
    BY <1>9, <1>16, <2>2 DEF Waits, IsData
  <2> QED
    BY <1>0, <1>1, <2>3 DEF LineInv, IsData
<1>17. GivenInv'
  <2>1. SUFFICES ASSUME NEW c \in Conn
        PROVE  /\ Rising(given[c])'
               /\ \A g \in 1..Len(given'[c]) :
                    /\ given'[c][g][1] < Bound' /\ homes'[c] # {}
                    /\ \A v \in Worker, m \in Nat : Waits(v, c, m)' => given'[c][g][1] < m
    BY DEF GivenInv
  <2>2. CASE c # k
    <3>1. given'[c] = given[c]
      BY <1>11, <2>2
    <3>2. Rising(given[c])'
      BY <1>1, <3>1 DEF GivenInv, Rising
    <3> QED
      BY <1>1, <1>8, <1>10, <3>1, <3>2 DEF GivenInv
  <2>3. CASE c = k
    <3>1. ASSUME NEW g \in 1..Len(given'[k])
          PROVE  /\ given'[k][g][1] < Bound' /\ homes'[k] # {}
                 /\ \A v \in Worker, m \in Nat : Waits(v, k, m)' => given'[k][g][1] < m
      <4>1. CASE g \in 1..Len(G)
        BY <1>1, <1>2, <1>8, <1>10, <1>11, <4>1 DEF GivenInv
      <4>2. CASE g = Len(G) + 1
        BY <1>2, <1>3, <1>8, <1>11, <1>16, <4>2 DEF HomeOf
      <4> QED
        BY <1>12, <4>1, <4>2
    <3> QED
      BY <1>15, <2>3, <3>1
  <2> QED
    BY <2>2, <2>3
<1>18. /\ Len(table') = Len(table)
       /\ \A i \in 1..Len(table) : table'[i].key = table[i].key
       /\ \A c : Absent(c)' <=> Absent(c)
  <2>1. CASE ~Known(k)
    <3>1. table' = table
      BY <1>1, <1>2, <1>4, <2>1, CountFacts
    <3> QED
      BY <3>1 DEF Absent
  <2>2. CASE Known(k)
    <3>1. /\ Len(table') = Len(table)
          /\ \A i \in 1..Len(table) :
               table'[i] = IF i = WayOf(k) THEN [table[i] EXCEPT !.seq = @ + 1] ELSE table[i]
      BY <1>1, <1>2, <1>4, <2>2, CountFacts
    <3>2. \A i \in 1..Len(table) : table[i] \in RouteEntry
      BY <1>1, ElementOfSeq DEF RouteType
    <3>3. \A i \in 1..Len(table) : table'[i].key = table[i].key
      BY <3>1, <3>2 DEF RouteEntry
    <3> QED
      BY <3>1, <3>3 DEF Absent
  <2> QED
    BY <2>1, <2>2
<1>19. ASSUME ~Known(k)
       PROVE  /\ ListInv' /\ table' = table
              /\ \E j \in 1..Len(fb'[w]) : fb'[w][j].key = k /\ fb'[w][j].next = s + 1
              /\ \A i \in 1..Len(fb[w]) : fb[w][i].key # k =>
                   \E j \in 1..Len(fb'[w]) : fb'[w][j] = fb[w][i]
              /\ \A v \in Worker : v # w => fb'[v] = fb[v]
  <2>1. table' = table
    BY <1>1, <1>2, <1>4, <1>19, CountFacts
  <2> QED
    BY <1>1, <1>2, <1>4, <1>13, <1>19, <2>1, <1>0, CountList
<1>20. ASSUME Known(k)
       PROVE  /\ ListInv' /\ fb' = fb
              /\ \A i \in 1..Len(table) : table'[i].seq =
                   IF table[i].key = k THEN s + 1 ELSE table[i].seq
  <2>1. /\ fb' = fb /\ s = table[WayOf(k)].seq
        /\ \A i \in 1..Len(table) :
             table'[i] = IF i = WayOf(k) THEN [table[i] EXCEPT !.seq = @ + 1] ELSE table[i]
    BY <1>1, <1>2, <1>4, <1>20, <1>0, CountFacts
  <2>2. \A i \in 1..Len(table) : table[i] \in RouteEntry
    BY <1>1, ElementOfSeq DEF RouteType
  <2>3. \A i \in 1..Len(table) : table[i].key = k <=> i = WayOf(k)
    BY <1>1, <1>13, <1>20, LookupFacts
  <2>4. \A i \in 1..Len(table) : table'[i].seq =
          IF table[i].key = k THEN s + 1 ELSE table[i].seq
    BY <2>1, <2>2, <2>3 DEF RouteEntry
  <2>5. ListInv'
    BY <1>1, <1>18, <2>1 DEF ListInv
  <2> QED
    BY <2>1, <2>4, <2>5
(* The next numbers are above the one just given as well.                  *)
<1>21. \A c \in Conn : \A m : c # k => (Past(c, m) <=> Above(c, m))
  BY <1>11 DEF Above
<1>22. Past(k, s + 1)
  <2>1. SUFFICES ASSUME NEW g \in 1..Len(given'[k]) PROVE given'[k][g][2] < s + 1
    OBVIOUS
  <2>2. CASE g \in 1..Len(G)
    BY <1>5, <1>11, <1>14, <2>2
  <2>3. CASE g = Len(G) + 1
    BY <1>5, <1>11, <2>3
  <2> QED
    BY <1>12, <2>2, <2>3
<1>23. ASSUME NEW c \in Conn, NEW i \in 1..Len(table'), table'[i].key = c
       PROVE  Past(c, table'[i].seq)
  <2>1. i \in 1..Len(table) /\ table[i].key = c
    BY <1>18, <1>23
  <2>2. CASE Known(k)
    <3>1. CASE c = k
      BY <1>20, <1>22, <2>1, <2>2, <3>1
    <3>2. CASE c # k
      <4>1. table'[i].seq = table[i].seq /\ Above(c, table[i].seq)
        BY <1>1, <1>20, <2>1, <2>2, <3>2 DEF DrawnInv
      <4> QED
        BY <1>11, <3>2, <4>1 DEF Above
    <3> QED
      BY <3>1, <3>2
  <2>3. CASE ~Known(k)
    <3>1. table' = table /\ c # k
      BY <1>13, <1>19, <2>1, <2>3 DEF Absent
    <3>2. Above(c, table[i].seq)
      BY <1>1, <2>1 DEF DrawnInv
    <3> QED
      BY <1>11, <3>1, <3>2 DEF Above
  <2> QED
    BY <2>2, <2>3
<1>24. ASSUME NEW c \in Conn, given'[c] # <<>>, Absent(c)', NEW v \in Worker, HomeOf(c, v)'
       PROVE  \E j \in 1..Len(fb'[v]) : fb'[v][j].key = c /\ Past(c, fb'[v][j].next)
  <2>1. Absent(c) /\ HomeOf(c, v)
    BY <1>18, <1>24 DEF HomeOf
  <2>2. CASE c = k
    <3>1. ~Known(k) /\ v = w
      BY <1>2, <1>3, <1>1, <1>13, <2>1, <2>2, OneHomeOf DEF Absent
    <3>2. PICK j \in 1..Len(fb'[w]) : fb'[w][j].key = k /\ fb'[w][j].next = s + 1
      BY <1>19, <3>1
    <3> QED
      BY <1>22, <2>2, <3>1, <3>2
  <2>3. CASE c # k
    <3>1. given[c] # <<>> /\ given'[c] = given[c]
      BY <1>11, <1>24, <2>3
    <3>2. PICK i \in 1..Len(fb[v]) : fb[v][i].key = c /\ Above(c, fb[v][i].next)
      BY <1>1, <1>24, <2>1, <3>1 DEF DrawnInv
    <3>3. \E j \in 1..Len(fb'[v]) : fb'[v][j] = fb[v][i]
      BY <1>19, <1>20, <2>3, <3>2
    <3>4. PICK j \in 1..Len(fb'[v]) : fb'[v][j] = fb[v][i]
      BY <3>3
    <3> QED
      BY <3>1, <3>2, <3>4 DEF Above
  <2> QED
    BY <2>2, <2>3
<1>25. DrawnInv'
  BY <1>23, <1>24 DEF DrawnInv, Above
<1>26. ListInv'
  BY <1>19, <1>20
<1> QED
  BY <1>10, <1>17, <1>25, <1>26 DEF NumberInv

(* Nothing is numbered in a step that keeps the order of what waits.       *)
LEMMA NumberKeeps ==
  ASSUME DataType, DataType', RouteInv, RouteInv', NumberInv, given' = given, fb' = fb,
         LineInv', Bound' >= Bound, \A k \in Conn : homes[k] \subseteq homes'[k],
         \A w \in Worker : \A k, n : Waits(w, k, n)' => Waits(w, k, n) \/ n >= Bound,
         table' = table \/ \E k \in Tunnelled, hint \in Thread : Insert(k, hint)
  PROVE  NumberInv'
<1>1. /\ RouteType /\ WorldType /\ WorldType' /\ GivenInv /\ ListInv /\ DrawnInv
  BY DEF DataType, NumberInv
<1>2. GivenInv'
  BY <1>1, GivenKeeps
<1>3. /\ ListInv'
      /\ \/ table' = table
         \/ \E k \in Conn :
              /\ Absent(k) /\ Len(table) < Ways /\ Len(table') = Len(table) + 1
              /\ \A i \in 1..Len(table) : table'[i] = table[i]
              /\ table'[Len(table) + 1].key = k
  <2>1. CASE table' = table
    BY <1>1, <2>1 DEF ListInv, Absent
  <2>2. ASSUME NEW k \in Tunnelled, NEW hint \in Thread, Insert(k, hint), table' # table
        PROVE  /\ ListInv'
               /\ \E c \in Conn :
                    /\ Absent(c) /\ Len(table) < Ways /\ Len(table') = Len(table) + 1
                    /\ \A i \in 1..Len(table) : table'[i] = table[i]
                    /\ table'[Len(table) + 1].key = c
    <3>1. k \in Conn
      BY Kinds
    <3> QED
      BY <1>1, <2>2, <3>1, InsertList
  <2> QED
    BY <2>1, <2>2
<1>4. DrawnInv'
  BY <1>1, <1>3, DrawnKeeps
<1> QED
  BY <1>2, <1>3, <1>4 DEF NumberInv

(* The RX thread gives a frame its home and queues it, or finds no room.   *)
LEMMA QueueLine ==
  ASSUME DataType, WorldType', LineInv, NEW j, j.f \in Frame, j.k \in Tunnelled, j.n \in Nat,
         j.big \in BOOLEAN, NEW rt \in Home, NEW b, Queue(j, rt, b),
         \A v \in Worker : cur'[v] = cur[v], cur'[LanRx] = <<>>,
         Bound' >= Bound, j.n >= Bound, j.n < Bound'
  PROVE  /\ LineInv' /\ \A k \in Conn : homes[k] \subseteq homes'[k]
         /\ \A v \in Worker : \A k, n : Waits(v, k, n)' => Waits(v, k, n) \/ n >= Bound
<1> DEFINE job == [pc |-> "data", f |-> j.f, k |-> j.k, n |-> j.n, big |-> j.big,
                   slot |-> rt.slot]
           w == rt.worker
<1>1. w \in Worker /\ rt.slot \in TxSlot
  BY DEF Home
<1>2. job \in DataJob /\ job.k = j.k /\ job.n = j.n
  BY <1>1 DEF DataJob
<1>3. /\ homes' = [homes EXCEPT ![j.k] = @ \cup {rt}]
      /\ lanQ' = [lanQ EXCEPT ![w] = Append(@, job)] \/ lanQ' = lanQ
  BY DEF Queue
<1> HIDE DEF job
<1>4. j.k \in Conn /\ homes \in [Conn -> SUBSET Home]
  BY Kinds DEF DataType, WorldType
<1>5. \A k \in Conn : homes[k] \subseteq homes'[k]
  BY <1>3, <1>4
<1>6. rt \in homes'[j.k]
  BY <1>3, <1>4
<1>7. HomeOf(job.k, w)'
  <2>1. \E h \in homes'[j.k] : h.worker = rt.worker
    BY <1>6
  <2>2. PICK k, v : k = j.k /\ v = rt.worker
    OBVIOUS
  <2> QED
    BY <1>2, <2>1 DEF HomeOf
<1>8. CASE lanQ' = lanQ
  <2>1. \A v \in Worker : Working(v, "encrypt")' => Working(v, "encrypt") /\ J(v)' = J(v)
    BY DEF Working, J
  <2> QED
    BY <1>5, <1>8, <2>1, LineSame
<1>9. CASE lanQ' = [lanQ EXCEPT ![w] = Append(@, job)]
  BY <1>1, <1>2, <1>5, <1>7, <1>9, LinePush
<1> QED
  BY <1>3, <1>5, <1>8, <1>9

(* A frame comes from the LAN.                                             *)
LEMMA ArriveNumbers ==
  ASSUME DataType, DataType', RouteInv, RouteInv', NumberInv,
         NEW k \in Conn, NEW big \in BOOLEAN, NEW f \in Frame, LanArrive(k, big, f)
  PROVE  NumberInv'
<1>1. /\ RouteType /\ QueueType /\ CurType /\ WorldType /\ WorldType' /\ LineInv
  BY DEF DataType, NumberInv
<1>2. /\ cur[LanRx] = <<>> /\ came'.lan = came.lan + 1 /\ came.lan \in Nat
      /\ k \in Tunnelled /\ UNCHANGED <<routeVars, given>>
  BY <1>1, LanCameFacts DEF LanArrive
<1>3. table' = table /\ fb' = fb /\ given' = given /\ Bound = came.lan + 1
  BY <1>2 DEF routeVars, Bound
<1>4. CASE Known(k)
  <2> DEFINE j == [f |-> f, k |-> k, n |-> came'.lan, big |-> big]
  <2>1. Queue(j, Route(k), Without(free, {f})) /\ cur' = cur
    BY <1>4 DEF LanArrive
  <2>2. PICK i, rt : i = j /\ rt = Route(k)
    OBVIOUS
  <2>3. i.f \in Frame /\ i.k \in Tunnelled /\ i.n = came'.lan /\ i.n \in Nat /\ i.big \in BOOLEAN
    BY <1>2, <2>2
  <2> HIDE DEF j
  <2>4. rt \in Home
    BY <1>1, <1>4, <2>2, RouteIsHome
  <2>5. Bound' = came'.lan + 1 /\ Bound' >= Bound /\ i.n >= Bound /\ i.n < Bound'
    BY <1>2, <1>3, <2>1, <2>3 DEF Bound
  <2>6. Queue(i, rt, Without(free, {f}))
    BY <2>1, <2>2
  <2>7. PICK b : b = Without(free, {f})
    OBVIOUS
  <2>8. /\ LineInv' /\ \A c \in Conn : homes[c] \subseteq homes'[c]
        /\ \A v \in Worker : \A c, n : Waits(v, c, n)' => Waits(v, c, n) \/ n >= Bound
    BY <1>1, <1>2, <2>1, <2>3, <2>4, <2>5, <2>6, <2>7, QueueLine
  <2> QED
    BY <1>3, <2>5, <2>8, NumberKeeps
<1>5. CASE ~Known(k)
  <2> DEFINE i == [pc |-> "insert", f |-> f, k |-> k, n |-> came'.lan, big |-> big]
  <2>1. Busy(LanRx, i) /\ lanQ' = lanQ /\ homes' = homes
    BY <1>5 DEF LanArrive
  <2>2. i.n = came'.lan
    OBVIOUS
  <2> HIDE DEF i
  <2>3. /\ LanRx \in Thread /\ LanRx \notin Worker /\ DOMAIN cur = Thread
        /\ \A v \in Worker : v \in Thread
    BY <1>1, Sizes_ DEF Thread, LanRx, CurType
  <2>4. cur'[LanRx] = <<i>> /\ \A v \in Worker : cur'[v] = cur[v]
    BY <2>1, <2>3 DEF Busy
  <2>5. \A v \in Worker : Working(v, "encrypt")' => Working(v, "encrypt") /\ J(v)' = J(v)
    BY <2>4 DEF Working, J
  <2>6. cur'[LanRx][1].n = came'.lan /\ cur'[LanRx] # <<>>
    BY <2>2, <2>4
  <2>7. Bound' = Bound /\ Bound' >= Bound
    BY <1>2, <1>3, <2>6 DEF Bound
  <2>8. LineInv' /\ \A v \in Worker : \A c, n : Waits(v, c, n)' => Waits(v, c, n)
    BY <1>1, <2>1, <2>5, <2>6, <2>7, LineSame
  <2> QED
    BY <1>3, <2>1, <2>7, <2>8, NumberKeeps
<1> QED
  BY <1>4, <1>5

LEMMA RxInsertNumbers ==
  ASSUME DataType, DataType', RouteInv, RouteInv', NumberInv, LanInsert
  PROVE  NumberInv'
<1>1. /\ RouteType /\ CurType /\ WorldType /\ WorldType' /\ LineInv
  BY DEF DataType, NumberInv
<1>2. /\ Working(LanRx, "insert") /\ Done(LanRx) /\ Insert(J(LanRx).k, NoHint)
      /\ Queue(J(LanRx), Routed(J(LanRx).k, NoHint), free)
      /\ UNCHANGED <<fb, came, given>>
  BY DEF LanInsert
<1>3. cur[LanRx] = <<J(LanRx)>> /\ J(LanRx) \in RxJob /\ LanRx \in Thread
  BY <1>1, <1>2, RxInHand
<1>4. PICK j, rt, b : j = J(LanRx) /\ rt = Routed(J(LanRx).k, NoHint) /\ b = free
  OBVIOUS
<1>5. /\ j.f \in Frame /\ j.k \in Tunnelled /\ j.k \in Conn /\ j.n \in Nat /\ j.big \in BOOLEAN
      /\ NoHint \in Thread
  BY <1>3, <1>4, Kinds DEF RxJob, Thread
<1>6. j.n = came.lan /\ Bound = came.lan /\ came.lan \in Nat
  BY <1>1, <1>3, <1>4, BoundType DEF LineInv, Bound, J
<1>7. /\ DOMAIN cur = Thread /\ LanRx \notin Worker /\ \A v \in Worker : v \in Thread
  BY <1>1, Sizes_ DEF Thread, CurType
<1>8. cur'[LanRx] = <<>> /\ \A v \in Worker : cur'[v] = cur[v]
  BY <1>2, <1>3, <1>7 DEF Done
<1>9. Bound' >= Bound /\ j.n >= Bound /\ j.n < Bound'
  BY <1>2, <1>6, <1>8 DEF Bound
<1>10. rt \in Home
  BY <1>1, <1>4, <1>5, RoutedType
<1>11. Queue(j, rt, b) /\ Insert(j.k, NoHint)
  BY <1>2, <1>4
<1>12. /\ LineInv' /\ \A c \in Conn : homes[c] \subseteq homes'[c]
       /\ \A v \in Worker : \A c, n : Waits(v, c, n)' => Waits(v, c, n) \/ n >= Bound
  BY <1>1, <1>5, <1>8, <1>9, <1>10, <1>11, QueueLine
<1> QED
  BY <1>2, <1>5, <1>9, <1>11, <1>12, NumberKeeps

LEMMA OtherArrivals ==
  ASSUME DataType, DataType', RouteInv, RouteInv', NumberInv, NEW f \in Frame,
         \/ \E k \in Conn : LanBypass(k, f)
         \/ \E w \in Worker, kind \in LanArps : LanArp(w, kind, f)
  PROVE  NumberInv'
<1>1. /\ CurType /\ WorldType /\ WorldType' /\ LineInv
  BY DEF DataType, NumberInv
<1>2. LanCame /\ UNCHANGED <<routeVars, cur, homes, given>>
  BY DEF LanBypass, LanArp
<1>3. /\ cur[LanRx] = <<>> /\ came'.lan = came.lan + 1 /\ came.lan \in Nat
      /\ table' = table /\ fb' = fb /\ given' = given /\ homes' = homes /\ cur' = cur
  BY <1>1, <1>2, LanCameFacts DEF routeVars
<1>4. Bound' >= Bound
  BY <1>3 DEF Bound
<1>5. CASE lanQ' = lanQ
  <2>1. \A v \in Worker : Working(v, "encrypt")' => Working(v, "encrypt") /\ J(v)' = J(v)
    BY <1>3 DEF Working, J
  <2>2. LineInv' /\ \A v \in Worker : \A c, n : Waits(v, c, n)' => Waits(v, c, n)
    BY <1>1, <1>3, <1>4, <1>5, <2>1, LineSame
  <2> QED
    BY <1>3, <1>4, <2>2, NumberKeeps
<1>6. ASSUME NEW w \in Worker, NEW kind \in LanArps,
             lanQ' = [lanQ EXCEPT ![w] = Append(@, [pc |-> kind, f |-> f])]
      PROVE  NumberInv'
  <2> DEFINE job == [pc |-> kind, f |-> f]
  <2>1. job \in ArpJob /\ job \notin DataJob
    BY DatapathAssumption DEF ArpJob, DataJob
  <2>2. lanQ' = [lanQ EXCEPT ![w] = Append(@, job)]
    BY <1>6
  <2> HIDE DEF job
  <2>3. /\ LineInv'
        /\ \A v \in Worker : \A c, n : Waits(v, c, n)' => Waits(v, c, n) \/ n >= Bound
    BY <1>1, <1>3, <1>4, <2>1, <2>2, LinePush
  <2> QED
    BY <1>3, <1>4, <2>3, NumberKeeps
<1> QED
  BY <1>5, <1>6 DEF LanBypass, LanArp

(* A worker takes a frame of its queue in hand, or is done with it.        *)
LEMMA TakeNumbers ==
  ASSUME DataType, DataType', RouteInv, RouteInv', NumberInv, NEW w \in Worker,
         NEW ok \in BOOLEAN, LocalAdmit(w, ok) \/ LocalArp(w, ok)
  PROVE  NumberInv'
<1>1. /\ CurType /\ WorldType /\ WorldType' /\ LineInv
  BY DEF DataType, NumberInv
<1>2. /\ Idle(w) /\ lanQ[w] # <<>> /\ lanQ' = [lanQ EXCEPT ![w] = Tail(@)]
      /\ table' = table /\ fb' = fb /\ given' = given /\ homes' = homes /\ came' = came
      /\ \/ cur' = cur
         \/ Head(lanQ[w]).pc = "data" /\ Busy(w, [Head(lanQ[w]) EXCEPT !.pc = "encrypt"])
  BY DEF LocalAdmit, LocalArp, routeVars
<1>3. /\ LineInv' /\ Bound' = Bound
      /\ \A v \in Worker : \A k, n : Waits(v, k, n)' => Waits(v, k, n)
  BY <1>1, <1>2, LinePop
<1>4. Bound' >= Bound
  BY <1>1, <1>3, BoundType
<1> QED
  BY <1>2, <1>3, <1>4, NumberKeeps

(* A worker gives back what it had in hand, or takes what came from the    *)
(* reorder stage; or nothing of the traffic from the LAN is touched.       *)
LEMMA RestNumbers ==
  ASSUME DataType, DataType', RouteInv, RouteInv', NumberInv,
         lanQ' = lanQ, homes' = homes, came'.lan = came.lan, given' = given, fb' = fb,
         table' = table \/ \E k \in Tunnelled, hint \in Thread : Insert(k, hint),
         \/ cur' = cur
         \/ \E w \in Worker : Done(w) \/ \E e \in EmitJob : Busy(w, e)
  PROVE  NumberInv'
<1>1. /\ CurType /\ WorldType /\ WorldType' /\ LineInv
  BY DEF DataType, NumberInv
<1>2. /\ LanRx \in Thread /\ LanRx \notin Worker /\ DOMAIN cur = Thread
      /\ \A v \in Worker : v \in Thread
  BY <1>1, Sizes_ DEF Thread, LanRx, CurType
<1>3. cur'[LanRx] = cur[LanRx]
  BY <1>2 DEF Done, Busy
<1>4. ASSUME NEW v \in Worker, Working(v, "encrypt")'
      PROVE  Working(v, "encrypt") /\ J(v)' = J(v)
  <2>1. cur'[v] # <<>> /\ cur'[v][1].pc = "encrypt"
    BY <1>4 DEF Working
  <2>2. CASE cur'[v] = cur[v]
    BY <2>1, <2>2 DEF Working, J
  <2>3. ASSUME NEW e \in EmitJob, cur'[v] = <<e>> PROVE FALSE
    <3>1. e.pc = "insert" /\ cur'[v][1] = e
      BY <2>3 DEF EmitJob
    <3> QED
      BY <2>1, <3>1
  <2>4. cur'[v] = cur[v] \/ cur'[v] = <<>> \/ \E e \in EmitJob : cur'[v] = <<e>>
    BY <1>2 DEF Done, Busy
  <2> QED
    BY <2>1, <2>2, <2>3, <2>4
<1>5. Bound' = Bound /\ Bound' >= Bound
  <2>1. Bound' = Bound
    BY <1>3 DEF Bound
  <2> QED
    BY <1>1, <2>1, BoundType
<1>6. cur'[LanRx] # <<>> => cur'[LanRx][1].n = came'.lan
  BY <1>1, <1>3 DEF LineInv
<1>7. LineInv' /\ \A v \in Worker : \A k, n : Waits(v, k, n)' => Waits(v, k, n)
  BY <1>1, <1>4, <1>5, <1>6, LineSame
<1> QED
  BY <1>5, <1>7, NumberKeeps

(* Every step.                                                             *)
LEMMA NumberNext ==
  ASSUME FewConnections, DataType, DataType', RouteInv, RouteInv', NumberInv, [Next]_vars
  PROVE  NumberInv'
<1>0. CurType /\ WorkType /\ WorldType
  BY DEF DataType
<1>1. ASSUME NEW f \in Available, NEW k \in Conn, NEW big \in Sizes[k], LanArrive(k, big, f)
      PROVE  NumberInv'
  <2>1. f \in Frame /\ big \in BOOLEAN
    BY DatapathAssumption DEF Available
  <2> QED
    BY <1>1, <2>1, ArriveNumbers
<1>2. CASE LanInsert
  BY <1>2, RxInsertNumbers
<1>3. ASSUME NEW f \in Available,
             \/ \E k \in Conn : LanBypass(k, f)
             \/ \E w \in Worker, kind \in LanArps : LanArp(w, kind, f)
      PROVE  NumberInv'
  <2>1. f \in Frame
    BY DEF Available
  <2> QED
    BY <1>3, <2>1, OtherArrivals
<1>4. ASSUME NEW w \in Worker, NEW b \in BOOLEAN, LocalAdmit(w, b) \/ LocalArp(w, b)
      PROVE  NumberInv'
  BY <1>4, TakeNumbers
<1>5. ASSUME NEW w \in Worker, NEW b \in BOOLEAN, LocalWhole(w, b) \/ LocalSplit(w, b)
      PROVE  NumberInv'
  <2>1. /\ Working(w, "encrypt") /\ Number(w, J(w)) /\ Done(w)
        /\ lanQ' = lanQ /\ homes' = homes /\ came' = came
    BY <1>5 DEF LocalWhole, LocalSplit
  <2> QED
    BY <2>1, NumberStep
<1>6. ASSUME NEW w \in Worker, NEW b \in BOOLEAN, EmitInsert(w, b)
      PROVE  NumberInv'
  <2>1. /\ Working(w, "insert") /\ Done(w) /\ Insert(J(w).k, w)
        /\ UNCHANGED <<fb, lanQ, came, homes, given>>
    BY <1>6 DEF EmitInsert
  <2>2. J(w) \in EmitJob /\ w \in Thread
    BY <1>0, <2>1, InHand, JobKinds
  <2>3. J(w).k \in Tunnelled
    BY <2>2 DEF EmitJob
  <2> QED
    BY <2>1, <2>2, <2>3, RestNumbers
<1>7. ASSUME NEW w \in Worker, NEW it \in held[w], NEW b \in BOOLEAN, Emit(w, it, b)
      PROVE  NumberInv'
  <2> DEFINE e == [pc |-> "insert", f |-> it.f, k |-> it.k, first |-> it.first,
                   second |-> it.second]
  <2>1. /\ cur' = cur \/ Busy(w, e)
        /\ UNCHANGED <<routeVars, lanQ, came, homes, given>>
    BY <1>7 DEF Emit
  <2>2. e \in EmitJob
    <3>1. it \in HeldItem
      BY <1>0 DEF WorkType
    <3> QED
      BY <3>1 DEF HeldItem, EmitJob
  <2> HIDE DEF e
  <2> QED
    BY <2>1, <2>2, RestNumbers DEF routeVars
<1>8. ASSUME \/ UNCHANGED vars
             \/ \E w, b : WanArp(w, b)
             \/ \E w, b, pass : WanDecrypt(w, b, pass)
             \/ \E w : FragGc(w)
             \/ \E w, it : DropHeld(w, it)
             \/ \E f, p, b : WanBypass(p, b, f) \/ WanArrive(p, b, f)
             \/ \E s : TxWan(s) \/ TxLan(s)
             \/ \E k, big : PeerSend(k, big) \/ PeerOther(big, k)
             \/ PeerReboot \/ PeerRuntimeRestart \/ Wait
      PROVE  NumberInv'
  <2>1. /\ UNCHANGED <<routeVars, lanQ, cur, homes, given>>
        /\ came' = came \/ came' = [came EXCEPT !.fault = @ + 1]
    BY <1>8 DEF vars, pathVars, WanArp, WanDecrypt, FragGc, DropHeld, WanBypass, WanArrive,
       WanCame, TxWan, TxLan, PeerSend, PeerOther, PeerReboot, PeerRuntimeRestart, CanRestart, Wait
  <2>2. came'.lan = came.lan
    BY <1>0, <2>1 DEF WorldType
  <2> QED
    BY <2>1, <2>2, RestNumbers DEF routeVars
<1> QED
  BY <1>1, <1>2, <1>3, <1>4, <1>5, <1>6, <1>7, <1>8 DEF Next

LEMMA NumberInitial == Init => NumberInv
<1>1. SUFFICES ASSUME Init PROVE NumberInv
  OBVIOUS
<1>2. /\ table = <<>> /\ fb = [w \in Worker |-> <<>>] /\ lanQ = [w \in Worker |-> <<>>]
      /\ cur = [t \in Thread |-> <<>>] /\ given = [k \in Conn |-> <<>>]
  BY <1>1 DEF Init, RouteInit
<1>3. LanRx \in Thread /\ \A w \in Worker : w \in Thread
  BY DEF Thread, LanRx
<1>4. /\ Len(table) = 0 /\ cur[LanRx] = <<>> /\ \A k \in Conn : Len(given[k]) = 0 /\ given[k] = <<>>
      /\ \A w \in Worker : Len(lanQ[w]) = 0 /\ Len(fb[w]) = 0 /\ cur[w] = <<>>
  BY <1>2, <1>3
<1>5. \A w \in Worker : \A k, n : ~Waits(w, k, n)
  BY <1>4 DEF Waits, IsData, Working
<1>6. LineInv /\ GivenInv
  BY <1>4, <1>5 DEF LineInv, GivenInv, Rising, Working
<1>7. ListInv /\ DrawnInv
  BY <1>4, Sizes_ DEF ListInv, DrawnInv
<1> QED
  BY <1>6, <1>7 DEF NumberInv

----------------------------------------------------------------------------
(* The theorems.                                                           *)

(* What the proofs of this module rest on holds in every state.            *)
PathInv == DataType /\ RouteInv /\ TagInv /\ PairInv

(* Every structure of the path holds jobs, packets and numbers of the kind *)
(* the code that takes them expects, routes are entered once, datagram     *)
(* numbers name one datagram among the packets on the way and the halves   *)
(* that wait.                                                              *)
THEOREM Inductive == Spec => []PathInv
<1>1. Init => PathInv
  BY InitType, RouteInitial, JoinInitial DEF PathInv
<1>2. PathInv /\ [Next]_vars => PathInv'
  BY NextType, RouteStep, JoinStep DEF PathInv
<1> QED
  BY <1>1, <1>2, PTL DEF Spec

(* OneWorker for every site: while the RX thread and the workers enter     *)
(* connections at once (dp_flow_route_insert), and whether or not a set    *)
(* has room, a connection's frames go to one worker and one TX slot.       *)
THEOREM OneHomeEach == Spec => []OneWorker
<1>1. PathInv => OneWorker
  BY OneHome DEF PathInv
<1> QED
  BY <1>1, Inductive, PTL

(* JoinedWhole for every site: l2_reassemble never joins halves of two     *)
(* datagrams, through losses, duplicates, evictions, time-outs and both    *)
(* kinds of restart of the peer.                                           *)
THEOREM Joined == Spec => []JoinedWhole
<1>1. PathInv => JoinedWhole
  BY PairsJoin DEF PathInv
<1> QED
  BY <1>1, Inductive, PTL

(* NumberedInOrder for every site whose connections of one set have a way  *)
(* or a place in the lists: dp_udp_next_tx_seq gives a connection's        *)
(* datagrams rising numbers, in the order in which they came, while it is  *)
(* entered by the RX thread or by a worker and once it can not be any      *)
(* more.                                                                   *)
THEOREM NumberedRising ==
  ASSUME FewConnections
  PROVE  Spec => []NumberedInOrder
<1>1. Init => NumberInv
  BY NumberInitial
<1>2. PathInv /\ PathInv' /\ NumberInv /\ [Next]_vars => NumberInv'
  BY NumberNext DEF PathInv
<1>3. PathInv /\ NumberInv => NumberedInOrder
  <2>1. SUFFICES ASSUME DataType, NumberInv, NEW k \in Conn,
                        NEW i \in DOMAIN given[k], NEW j \in DOMAIN given[k], i < j
        PROVE  given[k][i][1] < given[k][j][1] /\ given[k][i][2] < given[k][j][2]
    BY DEF PathInv, NumberedInOrder
  <2>2. DOMAIN given[k] = 1..Len(given[k])
    BY <2>1, LenProperties DEF DataType, WorldType
  <2> QED
    BY <2>1, <2>2 DEF NumberInv, GivenInv, Rising
<1> QED
  BY <1>1, <1>2, <1>3, Inductive, PTL DEF Spec

(***************************************************************************)
(* Where each frame of a site is.  The inductive invariant FrameInv says   *)
(* that a map from frames to places exists with which the pool, the        *)
(* queues, the hands, the split tails and the rings agree, each naming  *)
(* a frame at most once; FrameOwnedOnce counts what the map says.          *)
(***************************************************************************)

Pool == <<"pool", 0>>
Place == {Pool} \cup ({"lan", "wan", "tail", "held"} \X Worker) \cup ({"cur"} \X Thread)
         \cup ({"tx"} \X TxSlot) \cup ({"out"} \X (Port \X TxSlot))

(* at tells where each frame is; the structures agree with it.             *)
FramesAt(at, tag, n) == {f \in Frame : at[f] = <<tag, n>>}
Holds(q, S) ==
  /\ \A i \in 1..Len(q) : q[i].f \in S
  /\ \A f \in S : \E i \in 1..Len(q) : q[i].f = f
  /\ \A i, j \in 1..Len(q) : q[i].f = q[j].f => i = j
RowOk(Q, D, tag, at) == \A n \in D : Holds(Q[n], FramesAt(at, tag, n))
PoolOk(b, at) == /\ b \in [Frame -> {0, 1}]
                 /\ \A f \in Frame : b[f] = 1 <=> at[f] = Pool
TailOk(t, at) == \A w \in Worker : t[w] = FramesAt(at, "tail", w)
HeldOk(h, at) ==
  \A w \in Worker :
    /\ \A it \in h[w] : it.f \in FramesAt(at, "held", w)
    /\ \A f \in FramesAt(at, "held", w) : \E it \in h[w] : it.f = f
    /\ \A it, o \in h[w] : it.f = o.f => it = o
FrameMap(at) ==
  /\ at \in [Frame -> Place]
  /\ PoolOk(free, at) /\ TailOk(tails, at) /\ HeldOk(held, at)
  /\ RowOk(lanQ, Worker, "lan", at) /\ RowOk(wanQ, Worker, "wan", at)
  /\ RowOk(cur, Thread, "cur", at)
  /\ RowOk(toWan, TxSlot, "tx", at) /\ RowOk(toLan, Port \X TxSlot, "out", at)
FrameInv == \E at : FrameMap(at)

(* One frame moves.                                                        *)
Moved(at, f, l) == [at EXCEPT ![f] = l]
LEMMA MovedFacts ==
  ASSUME NEW at \in [Frame -> Place], NEW f \in Frame, NEW l \in Place
  PROVE  /\ Moved(at, f, l) \in [Frame -> Place]
         /\ Moved(at, f, l)[f] = l
         /\ \A g \in Frame : g # f => Moved(at, f, l)[g] = at[g]
  BY DEF Moved

LEMMA MovedAway ==
  ASSUME NEW at \in [Frame -> Place], NEW f \in Frame, NEW l \in Place, NEW tag, NEW n,
         at[f] # <<tag, n>>, l # <<tag, n>>
  PROVE  FramesAt(Moved(at, f, l), tag, n) = FramesAt(at, tag, n)
<1> DEFINE to == Moved(at, f, l)
           x == <<tag, n>>
<1>1. to[f] = l /\ \A g \in Frame : g # f => to[g] = at[g]
  BY MovedFacts
<1> HIDE DEF to, x
<1>2. at[f] # x /\ l # x
  BY DEF x
<1>3. \A g \in Frame : to[g] = x <=> at[g] = x
  BY <1>1, <1>2
<1> QED
  BY <1>3 DEF FramesAt, to, x

(* A row of queues that the frame neither leaves nor enters.               *)
LEMMA RowElse ==
  ASSUME NEW at \in [Frame -> Place], NEW f \in Frame, NEW l \in Place, NEW tag, NEW D, NEW Q,
         at[f][1] # tag, l[1] # tag, RowOk(Q, D, tag, at)
  PROVE  RowOk(Q, D, tag, Moved(at, f, l))
<1>1. ASSUME NEW n \in D PROVE FramesAt(Moved(at, f, l), tag, n) = FramesAt(at, tag, n)
  <2>1. <<tag, n>>[1] = tag
    OBVIOUS
  <2>2. at[f] # <<tag, n>> /\ l # <<tag, n>>
    BY <2>1
  <2> QED
    BY <2>2, MovedAway
<1> QED
  BY <1>1 DEF RowOk

(* A queue takes a frame that was elsewhere.                               *)
LEMMA HoldsPush ==
  ASSUME NEW X, NEW q \in Seq(X), NEW S, Holds(q, S), NEW j \in X, j.f \notin S
  PROVE  Holds(Append(q, j), S \cup {j.f})
<1>1. /\ Len(q) \in Nat /\ Len(Append(q, j)) = Len(q) + 1 /\ Append(q, j)[Len(q) + 1] = j
      /\ \A i \in 1..Len(q) : Append(q, j)[i] = q[i]
  BY LenProperties
<1> DEFINE a == Append(q, j)
           n == Len(q)
<1>2. /\ n \in Nat /\ Len(a) = n + 1 /\ a[n + 1] = j /\ \A i \in 1..n : a[i] = q[i]
  BY <1>1
<1>3. /\ \A i \in 1..n : q[i].f \in S
      /\ \A f \in S : \E i \in 1..n : q[i].f = f
      /\ \A i, k \in 1..n : q[i].f = q[k].f => i = k
  BY DEF Holds
<1> HIDE DEF a, n
<1>4. \A i \in 1..(n + 1) : i \in 1..n \/ i = n + 1
  BY <1>2
<1>5. n + 1 \in 1..(n + 1) /\ \A i \in 1..n : i \in 1..(n + 1)
  BY <1>2
<1>6. \A i \in 1..(n + 1) : a[i].f \in S \cup {j.f}
  BY <1>2, <1>3, <1>4
<1>7. \A f \in S \cup {j.f} : \E i \in 1..(n + 1) : a[i].f = f
  BY <1>2, <1>3, <1>5
<1>8. ASSUME NEW i \in 1..(n + 1), NEW k \in 1..(n + 1), a[i].f = a[k].f PROVE i = k
  BY <1>2, <1>3, <1>4, <1>8
<1>9. Holds(a, S \cup {j.f})
  BY <1>2, <1>6, <1>7, <1>8 DEF Holds
<1> QED
  BY <1>9 DEF a

(* The head of a queue leaves it.                                          *)
LEMMA HoldsPop ==
  ASSUME NEW X, NEW q \in Seq(X), NEW S, Holds(q, S), q # <<>>
  PROVE  Head(q).f \in S /\ Holds(Tail(q), S \ {Head(q).f})
<1> DEFINE n == Len(q)
           t == Tail(q)
<1>1. /\ n \in Nat /\ n > 0 /\ Head(q) = q[1] /\ Len(t) = n - 1
      /\ \A i \in 1..(n - 1) : t[i] = q[i + 1]
  BY LenProperties, HeadTailProperties
<1>3. /\ \A i \in 1..n : q[i].f \in S
      /\ \A f \in S : \E i \in 1..n : q[i].f = f
      /\ \A i, k \in 1..n : q[i].f = q[k].f => i = k
  BY DEF Holds
<1> HIDE DEF n, t
<1>4. \A i \in 1..(n - 1) : i + 1 \in 1..n /\ i + 1 # 1
  BY <1>1
<1>5. \A i \in 1..n : i # 1 => i - 1 \in 1..(n - 1) /\ (i - 1) + 1 = i
  BY <1>1
<1>6. 1 \in 1..n
  BY <1>1
<1> DEFINE T == S \ {q[1].f}
<1>7. \A i \in 1..(n - 1) : t[i].f \in T
  BY <1>1, <1>3, <1>4, <1>6
<1>8. ASSUME NEW f \in T PROVE \E i \in 1..(n - 1) : t[i].f = f
  <2>1. PICK i \in 1..n : q[i].f = f /\ i # 1
    BY <1>3
  <2>2. i - 1 \in 1..(n - 1) /\ (i - 1) + 1 = i
    BY <1>5, <2>1
  <2>3. t[i - 1].f = f
    BY <1>1, <2>1, <2>2
  <2> QED
    BY <2>2, <2>3
<1>9. ASSUME NEW i \in 1..(n - 1), NEW k \in 1..(n - 1), t[i].f = t[k].f PROVE i = k
  <2>1. q[i + 1].f = q[k + 1].f
    BY <1>1, <1>9
  <2>2. i + 1 = k + 1
    BY <1>3, <1>4, <2>1
  <2> QED
    BY <2>2
<1>10. Holds(t, T)
  BY <1>1, <1>7, <1>8, <1>9 DEF Holds
<1> QED
  BY <1>1, <1>3, <1>6, <1>10 DEF t

LEMMA RowPush ==
  ASSUME NEW at \in [Frame -> Place], NEW tag, NEW D, NEW X, NEW Q \in [D -> Seq(X)],
         RowOk(Q, D, tag, at), NEW n \in D, <<tag, n>> \in Place,
         NEW j \in X, j.f \in Frame, at[j.f][1] # tag
  PROVE  RowOk([Q EXCEPT ![n] = Append(@, j)], D, tag, Moved(at, j.f, <<tag, n>>))
<1> DEFINE to == Moved(at, j.f, <<tag, n>>)
           R == [Q EXCEPT ![n] = Append(@, j)]
<1>1. at[j.f] # <<tag, n>> /\ \A m : m # n => <<tag, n>> # <<tag, m>> /\ at[j.f] # <<tag, m>>
  <2>1. \A m : <<tag, m>>[1] = tag /\ <<tag, m>>[2] = m
    OBVIOUS
  <2> QED
    BY <2>1
<1>2. ASSUME NEW m \in D, m # n PROVE Holds(R[m], FramesAt(to, tag, m))
  <2>1. R[m] = Q[m]
    BY <1>2
  <2>2. FramesAt(to, tag, m) = FramesAt(at, tag, m)
    BY <1>1, <1>2, MovedAway
  <2> QED
    BY <2>1, <2>2 DEF RowOk
<1>3. Holds(R[n], FramesAt(to, tag, n))
  <2>1. R[n] = Append(Q[n], j)
    OBVIOUS
  <2>2. FramesAt(to, tag, n) = FramesAt(at, tag, n) \cup {j.f}
    <3> DEFINE x == <<tag, n>>
    <3>0. x \in Place /\ to = Moved(at, j.f, x)
      OBVIOUS
    <3> HIDE DEF x, to
    <3>1. to[j.f] = x /\ \A g \in Frame : g # j.f => to[g] = at[g]
      BY <3>0, MovedFacts
    <3>2. {g \in Frame : to[g] = x} = {g \in Frame : at[g] = x} \cup {j.f}
      BY <3>1
    <3> QED
      BY <3>2 DEF FramesAt, x
  <2>3. j.f \notin FramesAt(at, tag, n) /\ Holds(Q[n], FramesAt(at, tag, n))
    BY <1>1 DEF FramesAt, RowOk
  <2> HIDE DEF R, to
  <2>4. Holds(Append(Q[n], j), FramesAt(at, tag, n) \cup {j.f})
    BY <2>3, HoldsPush
  <2> QED
    BY <2>1, <2>2, <2>4
<1> HIDE DEF R, to
<1>4. RowOk(R, D, tag, to)
  BY <1>2, <1>3 DEF RowOk
<1> QED
  BY <1>4 DEF R, to

LEMMA RowPop ==
  ASSUME NEW at \in [Frame -> Place], NEW tag, NEW D, NEW X, NEW Q \in [D -> Seq(X)],
         RowOk(Q, D, tag, at), NEW n \in D, Q[n] # <<>>,
         NEW l \in Place, l[1] # tag
  PROVE  /\ Head(Q[n]).f \in Frame /\ at[Head(Q[n]).f] = <<tag, n>>
         /\ RowOk([Q EXCEPT ![n] = Tail(@)], D, tag, Moved(at, Head(Q[n]).f, l))
<1> DEFINE f == Head(Q[n]).f
           to == Moved(at, f, l)
           R == [Q EXCEPT ![n] = Tail(@)]
<1>1. f \in FramesAt(at, tag, n) /\ Holds(Tail(Q[n]), FramesAt(at, tag, n) \ {f})
  <2>1. Holds(Q[n], FramesAt(at, tag, n)) /\ Q[n] \in Seq(X)
    BY DEF RowOk
  <2> QED
    BY <2>1, HoldsPop
<1>2. f \in Frame /\ at[f] = <<tag, n>>
  BY <1>1 DEF FramesAt
<1> HIDE DEF f
<1>3. \A m : l # <<tag, m>> /\ (m # n => at[f] # <<tag, m>>)
  <2>1. \A m : <<tag, m>>[1] = tag /\ <<tag, m>>[2] = m
    OBVIOUS
  <2> QED
    BY <1>2, <2>1
<1>4. ASSUME NEW m \in D, m # n PROVE Holds(R[m], FramesAt(to, tag, m))
  <2>1. R[m] = Q[m]
    BY <1>4
  <2>2. FramesAt(to, tag, m) = FramesAt(at, tag, m)
    BY <1>2, <1>3, <1>4, MovedAway
  <2> QED
    BY <2>1, <2>2 DEF RowOk
<1>5. Holds(R[n], FramesAt(to, tag, n))
  <2>1. R[n] = Tail(Q[n])
    OBVIOUS
  <2>2. FramesAt(to, tag, n) = FramesAt(at, tag, n) \ {f}
    BY <1>2, <1>3, MovedFacts DEF FramesAt
  <2> QED
    BY <1>1, <2>1, <2>2
<1> HIDE DEF R, to
<1>6. RowOk(R, D, tag, to)
  BY <1>4, <1>5 DEF RowOk
<1> QED
  BY <1>2, <1>6 DEF R, to, f

(* Nothing of a kind of place changes.                                     *)
Apart(at, to, tag) == \A g \in Frame : to[g] # at[g] => at[g][1] # tag /\ to[g][1] # tag

LEMMA ApartSame ==
  ASSUME NEW at, NEW to, NEW tag, Apart(at, to, tag), NEW n
  PROVE  FramesAt(to, tag, n) = FramesAt(at, tag, n)
<1> DEFINE x == <<tag, n>>
<1>1. x[1] = tag
  OBVIOUS
<1> HIDE DEF x
<1>2. \A g \in Frame : to[g] = x <=> at[g] = x
  BY <1>1 DEF Apart
<1> QED
  BY <1>2 DEF FramesAt, x

LEMMA MovedApart ==
  ASSUME NEW at \in [Frame -> Place], NEW f \in Frame, NEW l \in Place, NEW tag,
         at[f][1] # tag, l[1] # tag
  PROVE  Apart(at, Moved(at, f, l), tag)
<1> DEFINE to == Moved(at, f, l)
<1>1. to[f] = l /\ \A g \in Frame : g # f => to[g] = at[g]
  BY MovedFacts
<1> HIDE DEF to
<1>2. Apart(at, to, tag)
  BY <1>1 DEF Apart
<1> QED
  BY <1>2 DEF to

LEMMA RowApart ==
  ASSUME NEW at, NEW to, NEW tag, Apart(at, to, tag), NEW D, NEW Q, RowOk(Q, D, tag, at)
  PROVE  RowOk(Q, D, tag, to)
  BY ApartSame DEF RowOk

LEMMA PoolApart ==
  ASSUME NEW at, NEW to, Apart(at, to, "pool"), NEW b, PoolOk(b, at)
  PROVE  PoolOk(b, to)
<1>1. Pool[1] = "pool"
  BY DEF Pool
<1>2. \A g \in Frame : to[g] = Pool <=> at[g] = Pool
  BY <1>1 DEF Apart
<1> QED
  BY <1>2 DEF PoolOk

LEMMA TailApart ==
  ASSUME NEW at, NEW to, Apart(at, to, "tail"), NEW t, TailOk(t, at)
  PROVE  TailOk(t, to)
  BY ApartSame DEF TailOk

LEMMA HeldApart ==
  ASSUME NEW at, NEW to, Apart(at, to, "held"), NEW h, HeldOk(h, at)
  PROVE  HeldOk(h, to)
<1>1. \A w : FramesAt(to, "held", w) = FramesAt(at, "held", w)
  BY ApartSame
<1> QED
  BY <1>1 DEF HeldOk

(* Frames are taken from the pool, and put back.                           *)
LEMMA PoolTake ==
  ASSUME NEW at, NEW to, NEW b, PoolOk(b, at), NEW S, S \subseteq Frame,
         \A g \in S : at[g] = Pool /\ to[g] # Pool,
         \A g \in Frame \ S : to[g] = Pool <=> at[g] = Pool
  PROVE  PoolOk(Without(b, S), to)
<1>1. b \in [Frame -> {0, 1}] /\ \A g \in Frame : b[g] = 1 <=> at[g] = Pool
  BY DEF PoolOk
<1>2. ASSUME NEW g \in Frame
      PROVE  /\ Without(b, S)[g] \in {0, 1}
             /\ Without(b, S)[g] = 1 <=> to[g] = Pool
  <2>1. CASE g \in S
    <3>1. b[g] = 1 /\ to[g] # Pool
      BY <1>1, <2>1
    <3>2. Without(b, S)[g] = b[g] - 1
      BY <2>1 DEF Without
    <3> QED
      BY <3>1, <3>2
  <2>2. CASE g \notin S
    <3>1. Without(b, S)[g] = b[g] - 0 /\ b[g] \in {0, 1}
      BY <1>1, <2>2 DEF Without
    <3>2. Without(b, S)[g] = b[g]
      BY <3>1
    <3> QED
      BY <1>1, <2>2, <3>1, <3>2
  <2> QED
    BY <2>1, <2>2
<1>3. Without(b, S) \in [Frame -> {0, 1}]
  <2>1. Without(b, S) = [g \in Frame |-> Without(b, S)[g]]
    BY DEF Without
  <2> QED
    BY <1>2, <2>1
<1> QED
  BY <1>2, <1>3 DEF PoolOk

LEMMA PoolGive ==
  ASSUME NEW at, NEW to, NEW b, PoolOk(b, at), NEW S, S \subseteq Frame,
         \A g \in S : at[g] # Pool /\ to[g] = Pool,
         \A g \in Frame \ S : to[g] = Pool <=> at[g] = Pool
  PROVE  PoolOk(With(b, S), to)
<1>1. b \in [Frame -> {0, 1}] /\ \A g \in Frame : b[g] = 1 <=> at[g] = Pool
  BY DEF PoolOk
<1>2. ASSUME NEW g \in Frame
      PROVE  /\ With(b, S)[g] \in {0, 1}
             /\ With(b, S)[g] = 1 <=> to[g] = Pool
  <2>1. CASE g \in S
    <3>1. b[g] = 0 /\ to[g] = Pool
      BY <1>1, <2>1
    <3>2. With(b, S)[g] = b[g] + 1
      BY <2>1 DEF With
    <3> QED
      BY <3>1, <3>2
  <2>2. CASE g \notin S
    <3>1. With(b, S)[g] = b[g] + 0 /\ b[g] \in {0, 1}
      BY <1>1, <2>2 DEF With
    <3>2. With(b, S)[g] = b[g]
      BY <3>1
    <3> QED
      BY <1>1, <2>2, <3>1, <3>2
  <2> QED
    BY <2>1, <2>2
<1>3. With(b, S) \in [Frame -> {0, 1}]
  <2>1. With(b, S) = [g \in Frame |-> With(b, S)[g]]
    BY DEF With
  <2> QED
    BY <1>2, <2>1
<1> QED
  BY <1>2, <1>3 DEF PoolOk

LEMMA TakeOne ==
  ASSUME NEW at \in [Frame -> Place], NEW b, PoolOk(b, at), NEW f \in Frame, at[f] = Pool,
         NEW l \in Place, l # Pool
  PROVE  PoolOk(Without(b, {f}), Moved(at, f, l))
<1> DEFINE to == Moved(at, f, l)
           S == {f}
<1>1. to[f] = l /\ \A g \in Frame : g # f => to[g] = at[g]
  BY MovedFacts
<1> HIDE DEF to
<1>2. /\ S \subseteq Frame /\ \A g \in S : at[g] = Pool /\ to[g] # Pool
      /\ \A g \in Frame \ S : to[g] = Pool <=> at[g] = Pool
  BY <1>1
<1> HIDE DEF S
<1>3. PoolOk(Without(b, S), to)
  BY <1>2, PoolTake
<1> QED
  BY <1>3 DEF S, to

LEMMA GiveOne ==
  ASSUME NEW at \in [Frame -> Place], NEW b, PoolOk(b, at), NEW f \in Frame, at[f] # Pool
  PROVE  PoolOk(With(b, {f}), Moved(at, f, Pool))
<1> DEFINE to == Moved(at, f, Pool)
           S == {f}
<1>0. Pool \in Place
  BY DEF Place
<1>1. to[f] = Pool /\ \A g \in Frame : g # f => to[g] = at[g]
  BY <1>0, MovedFacts
<1> HIDE DEF to
<1>2. /\ S \subseteq Frame /\ \A g \in S : at[g] # Pool /\ to[g] = Pool
      /\ \A g \in Frame \ S : to[g] = Pool <=> at[g] = Pool
  BY <1>1
<1> HIDE DEF S
<1>3. PoolOk(With(b, S), to)
  BY <1>2, PoolGive
<1> QED
  BY <1>3 DEF S, to

(* The reorder stage takes an item, and gives it back.                     *)
LEMMA HeldAdd ==
  ASSUME NEW at \in [Frame -> Place], NEW h \in [Worker -> SUBSET HeldItem], HeldOk(h, at),
         NEW w \in Worker, NEW it, it.f \in Frame, at[it.f][1] # "held"
  PROVE  HeldOk([h EXCEPT ![w] = @ \cup {it}], Moved(at, it.f, <<"held", w>>))
<1> DEFINE x == <<"held", w>>
           to == Moved(at, it.f, x)
           H == [h EXCEPT ![w] = @ \cup {it}]
<1>0. x \in Place /\ x[1] = "held" /\ x[2] = w
  BY DEF Place
<1> HIDE DEF x
<1>1. to[it.f] = x /\ \A g \in Frame : g # it.f => to[g] = at[g]
  BY <1>0, MovedFacts
<1> HIDE DEF to
<1>2. \A v \in Worker : <<"held", v>>[1] = "held" /\ (v # w => <<"held", v>> # x)
  BY <1>0
<1>3. ASSUME NEW v \in Worker, v # w
      PROVE  H[v] = h[v] /\ FramesAt(to, "held", v) = FramesAt(at, "held", v)
  <2> DEFINE y == <<"held", v>>
  <2>1. y # x /\ at[it.f] # y
    BY <1>2, <1>3
  <2> HIDE DEF y
  <2>2. \A g \in Frame : to[g] = y <=> at[g] = y
    BY <1>1, <2>1
  <2>3. FramesAt(to, "held", v) = FramesAt(at, "held", v)
    BY <2>2 DEF FramesAt, y
  <2> QED
    BY <1>3, <2>3
<1>4. FramesAt(to, "held", w) = FramesAt(at, "held", w) \cup {it.f}
  <2>1. {g \in Frame : to[g] = x} = {g \in Frame : at[g] = x} \cup {it.f}
    BY <1>1
  <2> QED
    BY <2>1 DEF FramesAt, x
<1>5. it.f \notin FramesAt(at, "held", w)
  BY <1>2 DEF FramesAt
<1>6. H[w] = h[w] \cup {it}
  OBVIOUS
<1> HIDE DEF H
<1>7. /\ \A i \in h[w] : i.f \in FramesAt(at, "held", w)
      /\ \A f \in FramesAt(at, "held", w) : \E i \in h[w] : i.f = f
      /\ \A i, o \in h[w] : i.f = o.f => i = o
  BY DEF HeldOk
<1>8. /\ \A i \in H[w] : i.f \in FramesAt(to, "held", w)
      /\ \A f \in FramesAt(to, "held", w) : \E i \in H[w] : i.f = f
      /\ \A i, o \in H[w] : i.f = o.f => i = o
  BY <1>4, <1>5, <1>6, <1>7
<1>9. HeldOk(H, to)
  BY <1>3, <1>8 DEF HeldOk
<1> QED
  BY <1>9 DEF H, to, x

LEMMA HeldDrop ==
  ASSUME NEW at \in [Frame -> Place], NEW h \in [Worker -> SUBSET HeldItem], HeldOk(h, at),
         NEW w \in Worker, NEW it \in h[w], NEW l \in Place, l[1] # "held"
  PROVE  /\ it.f \in Frame /\ at[it.f] = <<"held", w>>
         /\ HeldOk([h EXCEPT ![w] = @ \ {it}], Moved(at, it.f, l))
<1> DEFINE to == Moved(at, it.f, l)
           H == [h EXCEPT ![w] = @ \ {it}]
           f0 == it.f
<1>1. it.f \in Frame /\ at[it.f] = <<"held", w>>
  BY DEF HeldOk, FramesAt
<1>2. to[it.f] = l /\ \A g \in Frame : g # it.f => to[g] = at[g]
  BY <1>1, MovedFacts
<1> HIDE DEF to
<1>3. \A v : l # <<"held", v>> /\ (v # w => at[it.f] # <<"held", v>>)
  <2>1. \A v : <<"held", v>>[1] = "held" /\ <<"held", v>>[2] = v
    OBVIOUS
  <2> QED
    BY <1>1, <2>1
<1>4. ASSUME NEW v \in Worker, v # w
      PROVE  H[v] = h[v] /\ FramesAt(to, "held", v) = FramesAt(at, "held", v)
  <2> DEFINE y == <<"held", v>>
  <2>1. l # y /\ at[it.f] # y
    BY <1>3, <1>4
  <2> HIDE DEF y
  <2>2. \A g \in Frame : to[g] = y <=> at[g] = y
    BY <1>2, <2>1
  <2>3. FramesAt(to, "held", v) = FramesAt(at, "held", v)
    BY <2>2 DEF FramesAt, y
  <2> QED
    BY <1>4, <2>3
<1>5. FramesAt(to, "held", w) = FramesAt(at, "held", w) \ {it.f}
  <2> DEFINE y == <<"held", w>>
  <2>1. l # y
    BY <1>3
  <2> HIDE DEF y
  <2>2. {g \in Frame : to[g] = y} = {g \in Frame : at[g] = y} \ {it.f}
    BY <1>2, <2>1
  <2> QED
    BY <2>2 DEF FramesAt, y
<1>6. H[w] = h[w] \ {it}
  OBVIOUS
<1> HIDE DEF H
<1>7. /\ \A i \in h[w] : i.f \in FramesAt(at, "held", w)
      /\ \A f \in FramesAt(at, "held", w) : \E i \in h[w] : i.f = f
      /\ \A i, o \in h[w] : i.f = o.f => i = o
  BY DEF HeldOk
<1>8. /\ \A i \in H[w] : i.f \in FramesAt(to, "held", w)
      /\ \A f \in FramesAt(to, "held", w) : \E i \in H[w] : i.f = f
      /\ \A i, o \in H[w] : i.f = o.f => i = o
  BY <1>5, <1>6, <1>7
<1>9. HeldOk(H, to)
  BY <1>4, <1>8 DEF HeldOk
<1> QED
  BY <1>1, <1>9 DEF H, to

LEMMA Tags ==
  /\ Pool \in Place /\ Pool[1] = "pool"
  /\ \A w \in Worker : \A tag \in {"lan", "wan", "tail", "held"} :
       <<tag, w>> \in Place /\ <<tag, w>>[1] = tag
  /\ \A t \in Thread : <<"cur", t>> \in Place /\ <<"cur", t>>[1] = "cur"
  /\ \A s \in TxSlot : <<"tx", s>> \in Place /\ <<"tx", s>>[1] = "tx"
  /\ \A r \in Port \X TxSlot : <<"out", r>> \in Place /\ <<"out", r>>[1] = "out"
  BY DEF Place, Pool

(* A frame moves: the structures it leaves and enters change, the others   *)
(* do not.                                                                 *)
LEMMA MoveStep ==
  ASSUME NEW at, FrameMap(at), NEW f \in Frame, NEW l \in Place,
         \/ PoolOk(free', Moved(at, f, l))
         \/ free' = free /\ "pool" \notin {at[f][1], l[1]},
         \/ TailOk(tails', Moved(at, f, l))
         \/ tails' = tails /\ "tail" \notin {at[f][1], l[1]},
         \/ HeldOk(held', Moved(at, f, l))
         \/ held' = held /\ "held" \notin {at[f][1], l[1]},
         \/ RowOk(lanQ', Worker, "lan", Moved(at, f, l))
         \/ lanQ' = lanQ /\ "lan" \notin {at[f][1], l[1]},
         \/ RowOk(wanQ', Worker, "wan", Moved(at, f, l))
         \/ wanQ' = wanQ /\ "wan" \notin {at[f][1], l[1]},
         \/ RowOk(cur', Thread, "cur", Moved(at, f, l))
         \/ cur' = cur /\ "cur" \notin {at[f][1], l[1]},
         \/ RowOk(toWan', TxSlot, "tx", Moved(at, f, l))
         \/ toWan' = toWan /\ "tx" \notin {at[f][1], l[1]},
         \/ RowOk(toLan', Port \X TxSlot, "out", Moved(at, f, l))
         \/ toLan' = toLan /\ "out" \notin {at[f][1], l[1]}
  PROVE  FrameInv'
<1> DEFINE to == Moved(at, f, l)
<1>0. at \in [Frame -> Place]
  BY DEF FrameMap
<1>1. \A tag : tag \notin {at[f][1], l[1]} => Apart(at, to, tag)
  BY <1>0, MovedApart
<1>2. to \in [Frame -> Place]
  BY <1>0, MovedFacts
<1> HIDE DEF to
<1>3. to = Moved(at, f, l)
  BY DEF to
<1>4. PoolOk(free', to)
  BY <1>1, <1>3, PoolApart DEF FrameMap
<1>5. TailOk(tails', to)
  BY <1>1, <1>3, TailApart DEF FrameMap
<1>6. HeldOk(held', to)
  BY <1>1, <1>3, HeldApart DEF FrameMap
<1>7. RowOk(lanQ', Worker, "lan", to) /\ RowOk(wanQ', Worker, "wan", to)
  BY <1>1, <1>3, RowApart DEF FrameMap
<1>8. RowOk(cur', Thread, "cur", to) /\ RowOk(toWan', TxSlot, "tx", to)
  BY <1>1, <1>3, RowApart DEF FrameMap
<1>9. RowOk(toLan', Port \X TxSlot, "out", to)
  BY <1>1, <1>3, RowApart DEF FrameMap
<1> QED
  BY <1>2, <1>4, <1>5, <1>6, <1>7, <1>8, <1>9 DEF FrameInv, FrameMap

LEMMA FrameSame ==
  ASSUME FrameInv, UNCHANGED <<free, tails, held, lanQ, wanQ, cur, toWan, toLan>>
  PROVE  FrameInv'
  BY DEF FrameInv, FrameMap

(* The rows as the lemmas on rows take them.                               *)
Job == RxJob \cup EncryptJob \cup EmitJob
LEMMA Rows ==
  ASSUME DataType, NEW at, FrameMap(at)
  PROVE  /\ at \in [Frame -> Place] /\ PoolOk(free, at)
         /\ lanQ \in [Worker -> Seq(DataJob \cup ArpJob)] /\ RowOk(lanQ, Worker, "lan", at)
         /\ wanQ \in [Worker -> Seq([f : Frame, p : DataPkt \cup ArpPkt])]
         /\ RowOk(wanQ, Worker, "wan", at)
         /\ cur \in [Thread -> Seq(Job)] /\ RowOk(cur, Thread, "cur", at)
         /\ toWan \in [TxSlot -> Seq(WanTx)] /\ RowOk(toWan, TxSlot, "tx", at)
         /\ toLan \in [Port \X TxSlot -> Seq(LanTx)] /\ RowOk(toLan, Port \X TxSlot, "out", at)
         /\ held \in [Worker -> SUBSET HeldItem] /\ HeldOk(held, at)
         /\ tails \in [Worker -> SUBSET Frame] /\ TailOk(tails, at)
<1>1. cur = [t \in Thread |-> cur[t]]
  BY DEF DataType, CurType
<1>2. ASSUME NEW t \in Thread PROVE cur[t] \in Seq(Job)
  <2>1. cur[t] = <<>> \/ \E j \in Job : cur[t] = <<j>>
    BY DEF DataType, CurType, Thread, LanRx, Job
  <2>2. <<>> \in Seq(Job) /\ \A j \in Job : <<j>> \in Seq(Job)
    OBVIOUS
  <2> QED
    BY <2>1, <2>2
<1>3. cur \in [Thread -> Seq(Job)]
  BY <1>1, <1>2
<1> QED
  BY <1>3 DEF DataType, QueueType, WorkType, FrameMap

(* A push to a ring moves the frame there or to the pool.                  *)
LEMMA PushWanMoves ==
  ASSUME DataType, NEW at, FrameMap(at), NEW s \in TxSlot, NEW job \in WanTx, job.f \in Frame,
         at[job.f][1] \notin {"tx", "pool"}, PushWan(s, job)
  PROVE  \/ RowOk(toWan', TxSlot, "tx", Moved(at, job.f, <<"tx", s>>)) /\ free' = free
         \/ PoolOk(free', Moved(at, job.f, Pool)) /\ toWan' = toWan
<1>1. /\ at \in [Frame -> Place] /\ PoolOk(free, at)
      /\ toWan \in [TxSlot -> Seq(WanTx)] /\ RowOk(toWan, TxSlot, "tx", at)
  BY Rows
<1>2. <<"tx", s>> \in Place /\ at[job.f] # Pool
  BY Tags
<1>3. CASE toWan' = [toWan EXCEPT ![s] = Append(@, job)] /\ free' = free
  <2>1. RowOk([toWan EXCEPT ![s] = Append(@, job)], TxSlot, "tx", Moved(at, job.f, <<"tx", s>>))
    BY <1>1, <1>2, RowPush
  <2> QED
    BY <1>3, <2>1
<1>4. CASE toWan' = toWan /\ free' = With(free, {job.f})
  BY <1>1, <1>2, <1>4, GiveOne
<1> QED
  BY <1>3, <1>4 DEF PushWan, Free

LEMMA PushLanMoves ==
  ASSUME DataType, NEW at, FrameMap(at), NEW r \in Port \X TxSlot, NEW job \in LanTx,
         job.f \in Frame, at[job.f][1] \notin {"out", "pool"}, PushLan(r, job)
  PROVE  \/ /\ RowOk(toLan', Port \X TxSlot, "out", Moved(at, job.f, <<"out", r>>))
            /\ free' = free
         \/ PoolOk(free', Moved(at, job.f, Pool)) /\ toLan' = toLan
<1>1. /\ at \in [Frame -> Place] /\ PoolOk(free, at)
      /\ toLan \in [Port \X TxSlot -> Seq(LanTx)] /\ RowOk(toLan, Port \X TxSlot, "out", at)
  BY Rows
<1>2. <<"out", r>> \in Place /\ at[job.f] # Pool
  BY Tags
<1>3. CASE toLan' = [toLan EXCEPT ![r] = Append(@, job)] /\ free' = free
  <2>1. RowOk([toLan EXCEPT ![r] = Append(@, job)], Port \X TxSlot, "out",
              Moved(at, job.f, <<"out", r>>))
    BY <1>1, <1>2, RowPush
  <2> QED
    BY <1>3, <2>1
<1>4. CASE toLan' = toLan /\ free' = With(free, {job.f})
  BY <1>1, <1>2, <1>4, GiveOne
<1> QED
  BY <1>3, <1>4 DEF PushLan, Free

LEMMA ForwardMoves ==
  ASSUME DataType, NEW at, FrameMap(at), NEW it, it.f \in Frame, it.k \in Conn,
         it.first \in Half, it.second \in Half, at[it.f][1] \notin {"out", "pool"},
         NEW slot \in TxSlot, NEW known \in BOOLEAN, Forward(it, slot, known)
  PROVE  \E r \in Port \X TxSlot :
           \/ /\ RowOk(toLan', Port \X TxSlot, "out", Moved(at, it.f, <<"out", r>>))
              /\ free' = free
           \/ PoolOk(free', Moved(at, it.f, Pool)) /\ toLan' = toLan
<1> DEFINE job == [f |-> it.f, first |-> it.first, second |-> it.second]
           r == RingOf(it.k, slot)
<1>1. job \in LanTx /\ job.f = it.f
  BY DEF LanTx
<1>2. r \in Port \X TxSlot
  BY RingOfType
<1>3. at \in [Frame -> Place] /\ PoolOk(free, at) /\ at[it.f] # Pool
  BY Rows, Tags
<1>4. PushLan(r, job) \/ (toLan' = toLan /\ free' = With(free, {it.f}))
  BY DEF Forward, Free
<1> HIDE DEF job, r
<1>5. CASE PushLan(r, job)
  <2>1. \/ /\ RowOk(toLan', Port \X TxSlot, "out", Moved(at, job.f, <<"out", r>>))
           /\ free' = free
        \/ PoolOk(free', Moved(at, job.f, Pool)) /\ toLan' = toLan
    BY <1>1, <1>2, <1>5, PushLanMoves
  <2> QED
    BY <1>1, <1>2, <2>1
<1>6. CASE toLan' = toLan /\ free' = With(free, {it.f})
  <2>1. PoolOk(free', Moved(at, it.f, Pool))
    BY <1>3, <1>6, GiveOne
  <2> QED
    BY <1>2, <1>6, <2>1
<1> QED
  BY <1>4, <1>5, <1>6

(* What a thread has in hand: it lays it down, or takes something.         *)
LEMMA LayDown ==
  ASSUME DataType, NEW at, FrameMap(at), NEW t \in Thread, NEW j, cur[t] = <<j>>, Done(t),
         NEW l \in Place, l[1] # "cur"
  PROVE  /\ j.f \in Frame /\ at[j.f] = <<"cur", t>>
         /\ RowOk(cur', Thread, "cur", Moved(at, j.f, l))
<1>1. at \in [Frame -> Place] /\ cur \in [Thread -> Seq(Job)] /\ RowOk(cur, Thread, "cur", at)
  BY Rows
<1>2. cur[t] # <<>> /\ Head(cur[t]) = j /\ Tail(cur[t]) = <<>>
  OBVIOUS
<1>3. cur' = [cur EXCEPT ![t] = Tail(@)]
  BY <1>2 DEF Done
<1>4. /\ Head(cur[t]).f \in Frame /\ at[Head(cur[t]).f] = <<"cur", t>>
      /\ RowOk([cur EXCEPT ![t] = Tail(@)], Thread, "cur", Moved(at, Head(cur[t]).f, l))
  BY <1>1, <1>2, RowPop
<1> QED
  BY <1>2, <1>3, <1>4

LEMMA TakeUp ==
  ASSUME DataType, NEW at, FrameMap(at), NEW t \in Thread, cur[t] = <<>>, NEW j \in Job,
         Busy(t, j), j.f \in Frame, at[j.f][1] # "cur"
  PROVE  RowOk(cur', Thread, "cur", Moved(at, j.f, <<"cur", t>>))
<1>1. at \in [Frame -> Place] /\ cur \in [Thread -> Seq(Job)] /\ RowOk(cur, Thread, "cur", at)
  BY Rows
<1>2. Append(cur[t], j) = <<j>>
  OBVIOUS
<1>3. cur' = [cur EXCEPT ![t] = Append(@, j)]
  BY <1>2 DEF Busy
<1>4. <<"cur", t>> \in Place
  BY Tags
<1>5. RowOk([cur EXCEPT ![t] = Append(@, j)], Thread, "cur", Moved(at, j.f, <<"cur", t>>))
  BY <1>1, <1>4, RowPush
<1> QED
  BY <1>3, <1>5

(* A free frame.                                                           *)
LEMMA FreeFrame ==
  ASSUME DataType, NEW at, FrameMap(at), NEW f \in Available
  PROVE  f \in Frame /\ at[f] = Pool /\ at[f][1] = "pool" /\ free[f] = 1
<1>1. PoolOk(free, at) /\ f \in Frame /\ free[f] > 0
  BY Rows DEF Available
<1>2. free[f] \in {0, 1} /\ (free[f] = 1 <=> at[f] = Pool)
  BY <1>1 DEF PoolOk
<1>3. free[f] # 0
  BY <1>1
<1> QED
  BY <1>1, <1>2, <1>3, Tags

(* Taken and put back.                                                     *)
LEMMA BackAgain ==
  ASSUME NEW b \in [Frame -> {0, 1}], NEW f \in Frame
  PROVE  With(Without(b, {f}), {f}) = b
<1>1. ASSUME NEW g \in Frame PROVE With(Without(b, {f}), {f})[g] = b[g]
  <2>1. CASE g = f
    <3>1. Without(b, {f})[g] = b[g] - 1
      BY <2>1 DEF Without
    <3>2. With(Without(b, {f}), {f})[g] = (b[g] - 1) + 1
      BY <2>1, <3>1 DEF With
    <3> QED
      BY <3>2
  <2>2. CASE g # f
    <3>1. Without(b, {f})[g] = b[g] - 0
      BY <2>2 DEF Without
    <3>2. With(Without(b, {f}), {f})[g] = (b[g] - 0) + 0
      BY <2>2, <3>1 DEF With
    <3> QED
      BY <3>2
  <2> QED
    BY <2>1, <2>2
<1>2. With(Without(b, {f}), {f}) = [g \in Frame |-> With(Without(b, {f}), {f})[g]]
  BY DEF With
<1>3. b = [g \in Frame |-> b[g]]
  OBVIOUS
<1> QED
  BY <1>1, <1>2, <1>3

LEMMA LanBypassFrames ==
  ASSUME DataType, FrameInv, NEW k \in Conn, NEW f \in Available, LanBypass(k, f)
  PROVE  FrameInv'
<1> DEFINE s == Canonical(k).slot
           job == [f |-> f, k |-> k, part |-> "plain"]
<1>1. PICK at : FrameMap(at)
  BY DEF FrameInv
<1>2. UNCHANGED <<tails, lanQ, wanQ, cur, held, toLan>>
  BY DEF LanBypass
<1>3. f \in Frame /\ at[f] = Pool /\ at[f][1] = "pool"
  BY <1>1, FreeFrame
<1>4. s \in TxSlot /\ job \in WanTx /\ job.f = f
  BY <1>3, CanonicalType DEF Home, WanTx
<1> HIDE DEF s, job
<1>5. CASE /\ toWan' = [toWan EXCEPT ![s] = Append(@, job)]
           /\ free' = Without(free, {f})
  <2> DEFINE l == <<"tx", s>>
  <2>1. l \in Place /\ l[1] = "tx" /\ l # Pool
    BY <1>4, Tags
  <2>2. RowOk(toWan', TxSlot, "tx", Moved(at, f, l))
    BY <1>1, <1>3, <1>4, <1>5, <2>1, Rows, RowPush
  <2> HIDE DEF l
  <2>3. PoolOk(free', Moved(at, f, l))
    BY <1>1, <1>3, <1>5, <2>1, Rows, TakeOne
  <2> QED
    BY <1>1, <1>2, <1>3, <2>1, <2>2, <2>3, MoveStep
<1>6. CASE UNCHANGED <<toWan, free>>
  BY <1>2, <1>6, FrameSame
<1> QED
  BY <1>5, <1>6 DEF LanBypass, s, job

(* ne_ring_try_push of the RX thread: what came is in the worker's queue   *)
(* or where it was before.                                                 *)
LEMMA LanArriveFrames ==
  ASSUME DataType, FrameInv, NEW k \in Conn, NEW big \in BOOLEAN, NEW f \in Available,
         LanArrive(k, big, f)
  PROVE  FrameInv'
<1>0. RouteType /\ CurType /\ WorldType
  BY DEF DataType
<1>1. PICK at : FrameMap(at)
  BY DEF FrameInv
<1>2. UNCHANGED <<tails, wanQ, held, toWan, toLan>>
  BY DEF LanArrive
<1>3. f \in Frame /\ at[f] = Pool /\ at[f][1] = "pool"
  BY <1>1, FreeFrame
<1>4. k \in Tunnelled /\ cur[LanRx] = <<>> /\ came'.lan \in Nat
  BY <1>0, LanCameFacts DEF LanArrive
<1>5. CASE Known(k)
  <2> DEFINE job == [pc |-> "data", f |-> f, k |-> k, n |-> came'.lan, big |-> big,
                     slot |-> Route(k).slot]
             w == Route(k).worker
  <2>1. cur' = cur
    BY <1>5 DEF LanArrive
  <2>2. \/ lanQ' = [lanQ EXCEPT ![w] = Append(@, job)] /\ free' = Without(free, {f})
        \/ lanQ' = lanQ /\ free' = With(Without(free, {f}), {f})
    BY <1>5 DEF LanArrive, Queue
  <2>3. w \in Worker /\ Route(k).slot \in TxSlot
    BY <1>0, <1>5, RouteIsHome DEF Home
  <2>4. job \in DataJob \cup ArpJob /\ job.f = f
    BY <1>3, <1>4, <2>3 DEF DataJob
  <2> HIDE DEF job, w
  <2>5. CASE lanQ' = [lanQ EXCEPT ![w] = Append(@, job)] /\ free' = Without(free, {f})
    <3> DEFINE l == <<"lan", w>>
    <3>1. l \in Place /\ l[1] = "lan" /\ l # Pool
      BY <2>3, Tags
    <3>2. RowOk(lanQ', Worker, "lan", Moved(at, f, l))
      BY <1>1, <1>3, <2>3, <2>4, <2>5, <3>1, Rows, RowPush
    <3> HIDE DEF l
    <3>3. PoolOk(free', Moved(at, f, l))
      BY <1>1, <1>3, <2>5, <3>1, Rows, TakeOne
    <3> QED
      BY <1>1, <1>2, <1>3, <2>1, <3>1, <3>2, <3>3, MoveStep
  <2>6. CASE lanQ' = lanQ /\ free' = With(Without(free, {f}), {f})
    <3>1. free' = free
      BY <1>1, <1>3, <2>6, Rows, BackAgain DEF PoolOk
    <3> QED
      BY <1>2, <2>1, <2>6, <3>1, FrameSame
  <2> QED
    BY <2>2, <2>5, <2>6
<1>6. CASE ~Known(k)
  <2> DEFINE job == [pc |-> "insert", f |-> f, k |-> k, n |-> came'.lan, big |-> big]
             l == <<"cur", LanRx>>
  <2>1. Busy(LanRx, job) /\ lanQ' = lanQ /\ free' = Without(free, {f})
    BY <1>6 DEF LanArrive
  <2>2. job \in Job /\ job.f = f
    BY <1>3, <1>4 DEF Job, RxJob
  <2>3. LanRx \in Thread /\ l \in Place /\ l[1] = "cur" /\ l # Pool
    BY Tags DEF Thread, LanRx
  <2> HIDE DEF job
  <2>4. RowOk(cur', Thread, "cur", Moved(at, f, l))
    BY <1>1, <1>3, <1>4, <2>1, <2>2, <2>3, TakeUp
  <2> HIDE DEF l
  <2>5. PoolOk(free', Moved(at, f, l))
    BY <1>1, <1>3, <2>1, <2>3, Rows, TakeOne
  <2> QED
    BY <1>1, <1>2, <1>3, <2>1, <2>3, <2>4, <2>5, MoveStep
<1> QED
  BY <1>5, <1>6

LEMMA LanInsertFrames ==
  ASSUME DataType, FrameInv, LanInsert
  PROVE  FrameInv'
<1>0. RouteType /\ CurType
  BY DEF DataType
<1>1. PICK at : FrameMap(at)
  BY DEF FrameInv
<1> DEFINE j == J(LanRx)
           rt == Routed(j.k, NoHint)
           job == [pc |-> "data", f |-> j.f, k |-> j.k, n |-> j.n, big |-> j.big,
                   slot |-> rt.slot]
<1>2. /\ UNCHANGED <<tails, wanQ, held, toWan, toLan>>
      /\ Working(LanRx, "insert") /\ Done(LanRx)
      /\ \/ lanQ' = [lanQ EXCEPT ![rt.worker] = Append(@, job)] /\ free' = free
         \/ lanQ' = lanQ /\ free' = With(free, {j.f})
  BY DEF LanInsert, Queue
<1>3. cur[LanRx] = <<j>> /\ j \in RxJob /\ LanRx \in Thread
  BY <1>0, <1>2, RxInHand
<1>4. j.f \in Frame /\ j.k \in Tunnelled /\ j.n \in Nat /\ j.big \in BOOLEAN /\ j.k \in Conn
  BY <1>3, Kinds DEF RxJob
<1>5. rt.worker \in Worker /\ rt.slot \in TxSlot
  <2>1. NoHint \in Thread
    BY DEF Thread
  <2> QED
    BY <1>0, <1>4, <2>1, RoutedType DEF Home
<1>6. job \in DataJob \cup ArpJob /\ job.f = j.f
  BY <1>4, <1>5 DEF DataJob
<1> DEFINE f == j.f
           w == rt.worker
<1>7. at[f] = <<"cur", LanRx>> /\ at[f][1] = "cur" /\ at[f] # Pool
  <2>1. at[f] = <<"cur", LanRx>>
    BY <1>1, <1>2, <1>3, LayDown, Tags
  <2> QED
    BY <1>3, <2>1, Tags
<1>8. f \in Frame /\ job.f = f /\ w \in Worker
  BY <1>4, <1>5, <1>6
<1>9. \A l \in Place : l[1] # "cur" => RowOk(cur', Thread, "cur", Moved(at, f, l))
  BY <1>1, <1>2, <1>3, LayDown
<1>10. \/ lanQ' = [lanQ EXCEPT ![w] = Append(@, job)] /\ free' = free
       \/ lanQ' = lanQ /\ free' = With(free, {f})
  BY <1>2
<1> HIDE DEF f, w, job, j, rt
<1>11. CASE lanQ' = [lanQ EXCEPT ![w] = Append(@, job)] /\ free' = free
  <2> DEFINE l == <<"lan", w>>
  <2>1. l \in Place /\ l[1] = "lan"
    BY <1>8, Tags
  <2>2. RowOk(lanQ', Worker, "lan", Moved(at, f, l))
    BY <1>1, <1>6, <1>7, <1>8, <1>11, <2>1, Rows, RowPush
  <2> HIDE DEF l
  <2> QED
    BY <1>1, <1>2, <1>7, <1>8, <1>9, <1>11, <2>1, <2>2, MoveStep
<1>12. CASE lanQ' = lanQ /\ free' = With(free, {f})
  <2>1. PoolOk(free', Moved(at, f, Pool))
    BY <1>1, <1>7, <1>8, <1>12, Rows, GiveOne
  <2> QED
    BY <1>1, <1>2, <1>7, <1>8, <1>9, <1>12, <2>1, Tags, MoveStep
<1> QED
  BY <1>10, <1>11, <1>12

LEMMA LanArpFrames ==
  ASSUME DataType, FrameInv, NEW w \in Worker, NEW kind \in LanArps, NEW f \in Available,
         LanArp(w, kind, f)
  PROVE  FrameInv'
<1> DEFINE job == [pc |-> kind, f |-> f]
           l == <<"lan", w>>
<1>1. PICK at : FrameMap(at)
  BY DEF FrameInv
<1>2. UNCHANGED <<tails, wanQ, cur, held, toWan, toLan>>
  BY DEF LanArp
<1>3. f \in Frame /\ at[f] = Pool /\ at[f][1] = "pool"
  BY <1>1, FreeFrame
<1>4. job \in DataJob \cup ArpJob /\ job.f = f
  BY <1>3 DEF ArpJob
<1>5. l \in Place /\ l[1] = "lan" /\ l # Pool
  BY Tags
<1>6. \/ lanQ' = [lanQ EXCEPT ![w] = Append(@, job)] /\ free' = Without(free, {f})
      \/ UNCHANGED <<lanQ, free>>
  BY DEF LanArp
<1> HIDE DEF job
<1>7. CASE lanQ' = [lanQ EXCEPT ![w] = Append(@, job)] /\ free' = Without(free, {f})
  <2>1. RowOk(lanQ', Worker, "lan", Moved(at, f, l))
    BY <1>1, <1>3, <1>4, <1>5, <1>7, Rows, RowPush
  <2> HIDE DEF l
  <2>2. PoolOk(free', Moved(at, f, l))
    BY <1>1, <1>3, <1>5, <1>7, Rows, TakeOne
  <2> QED
    BY <1>1, <1>2, <1>3, <1>5, <2>1, <2>2, MoveStep
<1>8. CASE UNCHANGED <<lanQ, free>>
  BY <1>2, <1>8, FrameSame
<1> QED
  BY <1>6, <1>7, <1>8

LEMMA LocalAdmitFrames ==
  ASSUME DataType, FrameInv, NEW w \in Worker, NEW ok \in BOOLEAN, LocalAdmit(w, ok)
  PROVE  FrameInv'
<1> DEFINE j == Head(lanQ[w])
           job == [j EXCEPT !.pc = "encrypt"]
           f == j.f
<1>1. PICK at : FrameMap(at)
  BY DEF FrameInv
<1>2. /\ UNCHANGED <<tails, wanQ, held, toWan, toLan>> /\ cur[w] = <<>>
      /\ lanQ[w] # <<>> /\ lanQ' = [lanQ EXCEPT ![w] = Tail(@)]
      /\ (Busy(w, job) /\ free' = free) \/ (free' = With(free, {f}) /\ cur' = cur)
  BY DEF LocalAdmit, Idle, Free
<1>3. j \in DataJob /\ w \in Thread
  <2>1. j \in DataJob \cup ArpJob /\ j.pc = "data"
    BY <1>2, PopType DEF DataType, QueueType, LocalAdmit
  <2> QED
    BY <2>1, JobKinds DEF Thread
<1>4. job \in Job /\ job.f = f
  BY <1>3 DEF Job, DataJob, EncryptJob
<1>5. /\ f \in Frame /\ at[f] = <<"lan", w>>
      /\ \A l \in Place : l[1] # "lan" => RowOk(lanQ', Worker, "lan", Moved(at, f, l))
  <2> DEFINE X == DataJob \cup ArpJob
  <2>1. lanQ \in [Worker -> Seq(X)] /\ RowOk(lanQ, Worker, "lan", at)
    BY <1>1, Rows
  <2>2. at \in [Frame -> Place] /\ Pool \in Place /\ Pool[1] # "lan"
    BY <1>1, Rows, Tags
  <2> HIDE DEF X
  <2>3. w \in Worker /\ lanQ[w] # <<>>
    BY <1>2
  <2>4. ASSUME NEW l \in Place, l[1] # "lan"
        PROVE  /\ Head(lanQ[w]).f \in Frame /\ at[Head(lanQ[w]).f] = <<"lan", w>>
               /\ RowOk([lanQ EXCEPT ![w] = Tail(@)], Worker, "lan",
                        Moved(at, Head(lanQ[w]).f, l))
    BY <2>1, <2>2, <2>3, <2>4, RowPop
  <2> QED
    BY <1>2, <2>2, <2>4
<1>6. at[f][1] = "lan" /\ at[f] # Pool
  BY <1>5, Tags
<1> HIDE DEF j, job, f
<1>7. CASE Busy(w, job) /\ free' = free
  <2> DEFINE l == <<"cur", w>>
  <2>1. l \in Place /\ l[1] = "cur"
    BY <1>3, Tags
  <2>2. RowOk(cur', Thread, "cur", Moved(at, f, l))
    BY <1>1, <1>2, <1>3, <1>4, <1>5, <1>6, <1>7, TakeUp
  <2> HIDE DEF l
  <2> QED
    BY <1>1, <1>2, <1>5, <1>6, <1>7, <2>1, <2>2, MoveStep
<1>8. CASE free' = With(free, {f}) /\ cur' = cur
  <2>1. PoolOk(free', Moved(at, f, Pool))
    BY <1>1, <1>5, <1>6, <1>8, Rows, GiveOne
  <2> QED
    BY <1>1, <1>2, <1>5, <1>6, <1>8, <2>1, Tags, MoveStep
<1> QED
  BY <1>2, <1>7, <1>8

LEMMA LocalWholeFrames ==
  ASSUME DataType, FrameInv, NEW w \in Worker, NEW enc \in BOOLEAN, LocalWhole(w, enc)
  PROVE  FrameInv'
<1> DEFINE j == J(w)
           job == [f |-> j.f, k |-> j.k, part |-> "full"]
           f == j.f
           s == j.slot
<1>1. PICK at : FrameMap(at)
  BY DEF FrameInv
<1>2. /\ UNCHANGED <<tails, lanQ, wanQ, held, toLan>> /\ Working(w, "encrypt") /\ Done(w)
      /\ PushWan(s, job) \/ (free' = With(free, {f}) /\ toWan' = toWan)
  BY DEF LocalWhole, Free
<1>3. cur[w] = <<j>> /\ j \in EncryptJob /\ w \in Thread
  BY <1>2, InHand, JobKinds DEF DataType
<1>4. s \in TxSlot /\ job \in WanTx /\ job.f = f
  BY <1>3, Kinds DEF EncryptJob, WanTx
<1>5. /\ f \in Frame /\ at[f] = <<"cur", w>>
      /\ \A l \in Place : l[1] # "cur" => RowOk(cur', Thread, "cur", Moved(at, f, l))
  BY <1>1, <1>2, <1>3, LayDown, Tags
<1>6. at[f][1] = "cur" /\ at[f] # Pool
  BY <1>3, <1>5, Tags
<1> HIDE DEF j, job, f, s
<1>7. \/ RowOk(toWan', TxSlot, "tx", Moved(at, f, <<"tx", s>>)) /\ free' = free
      \/ PoolOk(free', Moved(at, f, Pool)) /\ toWan' = toWan
  <2>1. CASE PushWan(s, job)
    BY <1>1, <1>4, <1>5, <1>6, <2>1, PushWanMoves
  <2>2. CASE free' = With(free, {f}) /\ toWan' = toWan
    BY <1>1, <1>5, <1>6, <2>2, Rows, GiveOne
  <2> QED
    BY <1>2, <2>1, <2>2
<1>8. CASE RowOk(toWan', TxSlot, "tx", Moved(at, f, <<"tx", s>>)) /\ free' = free
  <2> DEFINE l == <<"tx", s>>
  <2>1. l \in Place /\ l[1] = "tx"
    BY <1>4, Tags
  <2> HIDE DEF l
  <2> QED
    BY <1>1, <1>2, <1>5, <1>6, <1>8, <2>1, MoveStep DEF l
<1>9. CASE PoolOk(free', Moved(at, f, Pool)) /\ toWan' = toWan
  BY <1>1, <1>2, <1>5, <1>6, <1>9, Tags, MoveStep
<1> QED
  BY <1>7, <1>8, <1>9

LEMMA WanBypassFrames ==
  ASSUME DataType, FrameInv, NEW p \in net, NEW known \in BOOLEAN, NEW f \in Available,
         WanBypass(p, known, f)
  PROVE  FrameInv'
<1> DEFINE r == RingOf(p.k, Canonical(p.k).slot)
           job == [f |-> f, first |-> p.id, second |-> p.id]
           l == <<"out", r>>
<1>1. PICK at : FrameMap(at)
  BY DEF FrameInv
<1>2. UNCHANGED <<tails, lanQ, wanQ, cur, held, toWan>>
  BY DEF WanBypass
<1>3. f \in Frame /\ at[f] = Pool /\ at[f][1] = "pool"
  BY <1>1, FreeFrame
<1>4. p.k \in Conn /\ p.id \in Id
  <2>1. p \in DataPkt \cup ArpPkt \cup PlainPkt
    BY DEF DataType, WorldType
  <2> QED
    BY <2>1, DatapathAssumption DEF DataPkt, ArpPkt, PlainPkt, Tunnelled
<1>5. r \in Port \X TxSlot /\ job \in LanTx /\ job.f = f
  BY <1>3, <1>4, RingOfType, CanonicalType DEF Home, LanTx, Half
<1>6. \/ toLan' = [toLan EXCEPT ![r] = Append(@, job)] /\ free' = Without(free, {f})
      \/ UNCHANGED <<toLan, free>>
  BY DEF WanBypass
<1> HIDE DEF r, job
<1>7. l \in Place /\ l[1] = "out" /\ l # Pool
  BY <1>5, Tags
<1>8. CASE toLan' = [toLan EXCEPT ![r] = Append(@, job)] /\ free' = Without(free, {f})
  <2>1. RowOk(toLan', Port \X TxSlot, "out", Moved(at, f, l))
    BY <1>1, <1>3, <1>5, <1>7, <1>8, Rows, RowPush
  <2> HIDE DEF l
  <2>2. PoolOk(free', Moved(at, f, l))
    BY <1>1, <1>3, <1>7, <1>8, Rows, TakeOne
  <2> QED
    BY <1>1, <1>2, <1>3, <1>7, <2>1, <2>2, MoveStep
<1>9. CASE UNCHANGED <<toLan, free>>
  BY <1>2, <1>9, FrameSame
<1> QED
  BY <1>6, <1>8, <1>9

LEMMA WanArriveFrames ==
  ASSUME DataType, FrameInv, NEW p \in net, NEW again \in BOOLEAN, NEW f \in Available,
         WanArrive(p, again, f)
  PROVE  FrameInv'
<1> DEFINE w == p.worker
           job == [f |-> f, p |-> p]
           l == <<"wan", w>>
<1>1. PICK at : FrameMap(at)
  BY DEF FrameInv
<1>2. UNCHANGED <<tails, lanQ, cur, held, toWan, toLan>>
  BY DEF WanArrive
<1>3. f \in Frame /\ at[f] = Pool /\ at[f][1] = "pool"
  BY <1>1, FreeFrame
<1>4. w \in Worker /\ job \in [f : Frame, p : DataPkt \cup ArpPkt] /\ job.f = f
  <2>1. p \in DataPkt \cup ArpPkt \cup PlainPkt /\ p.part # "plain"
    BY DEF DataType, WorldType, WanArrive
  <2>2. p \in DataPkt \cup ArpPkt
    BY <2>1 DEF PlainPkt
  <2>3. p.worker \in Worker
    BY <2>2 DEF DataPkt, ArpPkt
  <2> QED
    BY <1>3, <2>2, <2>3
<1>5. \/ wanQ' = [wanQ EXCEPT ![w] = Append(@, job)] /\ free' = Without(free, {f})
      \/ UNCHANGED <<wanQ, free>>
  BY DEF WanArrive
<1> HIDE DEF w, job
<1>6. l \in Place /\ l[1] = "wan" /\ l # Pool
  BY <1>4, Tags
<1>7. CASE wanQ' = [wanQ EXCEPT ![w] = Append(@, job)] /\ free' = Without(free, {f})
  <2>1. RowOk(wanQ', Worker, "wan", Moved(at, f, l))
    BY <1>1, <1>3, <1>4, <1>6, <1>7, Rows, RowPush
  <2> HIDE DEF l
  <2>2. PoolOk(free', Moved(at, f, l))
    BY <1>1, <1>3, <1>6, <1>7, Rows, TakeOne
  <2> QED
    BY <1>1, <1>2, <1>3, <1>6, <2>1, <2>2, MoveStep
<1>8. CASE UNCHANGED <<wanQ, free>>
  BY <1>2, <1>8, FrameSame
<1> QED
  BY <1>5, <1>7, <1>8

LEMMA WanDecryptFrames ==
  ASSUME DataType, FrameInv, NEW w \in Worker, NEW dec \in BOOLEAN, NEW pass \in BOOLEAN,
         WanDecrypt(w, dec, pass)
  PROVE  FrameInv'
<1> DEFINE j == Head(wanQ[w])
           it == Item(w, j)
           f == j.f
<1>1. PICK at : FrameMap(at)
  BY DEF FrameInv
<1>2. /\ UNCHANGED <<tails, lanQ, cur, toWan, toLan>>
      /\ wanQ[w] # <<>> /\ wanQ' = [wanQ EXCEPT ![w] = Tail(@)]
      /\ \/ held' = [held EXCEPT ![w] = @ \cup {it}] /\ free' = free
         \/ free' = With(free, {f}) /\ held' = held
  BY DEF WanDecrypt, Free
<1>3. it.f = f
  BY DEF Item
<1>4. /\ f \in Frame /\ at[f] = <<"wan", w>>
      /\ \A l \in Place : l[1] # "wan" => RowOk(wanQ', Worker, "wan", Moved(at, f, l))
  <2> DEFINE X == [f : Frame, p : DataPkt \cup ArpPkt]
  <2>1. wanQ \in [Worker -> Seq(X)] /\ RowOk(wanQ, Worker, "wan", at)
    BY <1>1, Rows
  <2>2. at \in [Frame -> Place] /\ Pool \in Place /\ Pool[1] # "wan"
    BY <1>1, Rows, Tags
  <2> HIDE DEF X
  <2>3. w \in Worker /\ wanQ[w] # <<>>
    BY <1>2
  <2>4. ASSUME NEW l \in Place, l[1] # "wan"
        PROVE  /\ Head(wanQ[w]).f \in Frame /\ at[Head(wanQ[w]).f] = <<"wan", w>>
               /\ RowOk([wanQ EXCEPT ![w] = Tail(@)], Worker, "wan",
                        Moved(at, Head(wanQ[w]).f, l))
    BY <2>1, <2>2, <2>3, <2>4, RowPop
  <2> QED
    BY <1>2, <2>2, <2>4
<1>5. at[f][1] = "wan" /\ at[f] # Pool
  BY <1>4, Tags
<1> HIDE DEF j, it, f
<1>6. CASE held' = [held EXCEPT ![w] = @ \cup {it}] /\ free' = free
  <2> DEFINE l == <<"held", w>>
  <2>1. l \in Place /\ l[1] = "held"
    BY Tags
  <2>2. HeldOk(held', Moved(at, f, l))
    <3>1. held \in [Worker -> SUBSET HeldItem] /\ HeldOk(held, at) /\ at \in [Frame -> Place]
      BY <1>1, Rows
    <3> QED
      BY <3>1, <1>3, <1>4, <1>5, <1>6, HeldAdd
  <2> HIDE DEF l
  <2> QED
    BY <1>1, <1>2, <1>4, <1>5, <1>6, <2>1, <2>2, MoveStep
<1>7. CASE free' = With(free, {f}) /\ held' = held
  <2>1. PoolOk(free', Moved(at, f, Pool))
    BY <1>1, <1>4, <1>5, <1>7, Rows, GiveOne
  <2> QED
    BY <1>1, <1>2, <1>4, <1>5, <1>7, <2>1, Tags, MoveStep
<1> QED
  BY <1>2, <1>6, <1>7

LEMMA EmitFrames ==
  ASSUME DataType, FrameInv, NEW w \in Worker, NEW it \in held[w], NEW known \in BOOLEAN,
         Emit(w, it, known)
  PROVE  FrameInv'
<1> DEFINE f == it.f
<1>1. PICK at : FrameMap(at)
  BY DEF FrameInv
<1>2. /\ UNCHANGED <<tails, lanQ, wanQ, toWan>> /\ cur[w] = <<>>
      /\ held' = [held EXCEPT ![w] = @ \ {it}]
  BY DEF Emit, Idle
<1>3. it \in HeldItem /\ w \in Thread
  BY <1>1, Rows DEF Thread
<1>4. it.k \in Conn /\ it.k \in Tunnelled /\ it.first \in Half /\ it.second \in Half
  BY <1>3, Kinds DEF HeldItem
<1>5. /\ f \in Frame /\ at[f] = <<"held", w>>
      /\ \A l \in Place : l[1] # "held" => HeldOk(held', Moved(at, f, l))
  <2>1. held \in [Worker -> SUBSET HeldItem] /\ HeldOk(held, at) /\ at \in [Frame -> Place]
    BY <1>1, Rows
  <2> QED
    BY <1>2, <2>1, HeldDrop, Tags
<1>6. at[f][1] = "held" /\ at[f] # Pool
  BY <1>5, Tags
<1>7. CASE Known(it.k)
  <2>1. Forward(it, Route(it.k).slot, known) /\ cur' = cur
    BY <1>7 DEF Emit
  <2>2. Route(it.k).slot \in TxSlot
    BY <1>4, <1>7, RouteIsHome DEF DataType, Home
  <2>3. PICK r \in Port \X TxSlot :
           \/ RowOk(toLan', Port \X TxSlot, "out", Moved(at, f, <<"out", r>>)) /\ free' = free
           \/ PoolOk(free', Moved(at, f, Pool)) /\ toLan' = toLan
    BY <1>1, <1>4, <1>5, <1>6, <2>1, <2>2, ForwardMoves
  <2> HIDE DEF f
  <2>4. CASE RowOk(toLan', Port \X TxSlot, "out", Moved(at, f, <<"out", r>>)) /\ free' = free
    <3> DEFINE l == <<"out", r>>
    <3>1. l \in Place /\ l[1] = "out"
      BY Tags
    <3> HIDE DEF l
    <3> QED
      BY <1>1, <1>2, <1>5, <1>6, <2>1, <2>4, <3>1, MoveStep DEF l
  <2>5. CASE PoolOk(free', Moved(at, f, Pool)) /\ toLan' = toLan
    BY <1>1, <1>2, <1>5, <1>6, <2>1, <2>5, Tags, MoveStep
  <2> QED
    BY <2>3, <2>4, <2>5
<1>8. CASE ~Known(it.k)
  <2> DEFINE j == [pc |-> "insert", f |-> it.f, k |-> it.k, first |-> it.first,
                   second |-> it.second]
             l == <<"cur", w>>
  <2>1. Busy(w, j) /\ free' = free /\ toLan' = toLan
    BY <1>8 DEF Emit
  <2>2. j \in Job /\ j.f = f
    BY <1>4, <1>5 DEF Job, EmitJob
  <2>3. l \in Place /\ l[1] = "cur"
    BY <1>3, Tags
  <2> HIDE DEF j, f
  <2>4. RowOk(cur', Thread, "cur", Moved(at, f, l))
    BY <1>1, <1>2, <1>3, <1>5, <1>6, <2>1, <2>2, TakeUp
  <2> HIDE DEF l
  <2> QED
    BY <1>1, <1>2, <1>5, <1>6, <2>1, <2>3, <2>4, MoveStep
<1> QED
  BY <1>7, <1>8

LEMMA EmitInsertFrames ==
  ASSUME DataType, FrameInv, NEW w \in Worker, NEW known \in BOOLEAN, EmitInsert(w, known)
  PROVE  FrameInv'
<1> DEFINE j == J(w)
           f == j.f
<1>1. PICK at : FrameMap(at)
  BY DEF FrameInv
<1>2. /\ UNCHANGED <<tails, lanQ, wanQ, held, toWan>> /\ Working(w, "insert") /\ Done(w)
      /\ Forward(j, Routed(j.k, w).slot, known)
  BY DEF EmitInsert
<1>3. cur[w] = <<j>> /\ j \in EmitJob /\ w \in Thread
  BY <1>2, InHand, JobKinds DEF DataType
<1>4. j.k \in Conn /\ j.first \in Half /\ j.second \in Half
  BY <1>3, Kinds DEF EmitJob
<1>5. /\ f \in Frame /\ at[f] = <<"cur", w>>
      /\ \A l \in Place : l[1] # "cur" => RowOk(cur', Thread, "cur", Moved(at, f, l))
  BY <1>1, <1>2, <1>3, LayDown, Tags
<1>6. at[f][1] = "cur" /\ at[f] # Pool
  BY <1>3, <1>5, Tags
<1>7. Routed(j.k, w).slot \in TxSlot
  BY <1>3, <1>4, RoutedType DEF DataType, Home
<1> HIDE DEF j
<1>8. PICK r \in Port \X TxSlot :
           \/ RowOk(toLan', Port \X TxSlot, "out", Moved(at, f, <<"out", r>>)) /\ free' = free
           \/ PoolOk(free', Moved(at, f, Pool)) /\ toLan' = toLan
  BY <1>1, <1>2, <1>4, <1>5, <1>6, <1>7, ForwardMoves
<1> HIDE DEF f
<1>9. CASE RowOk(toLan', Port \X TxSlot, "out", Moved(at, f, <<"out", r>>)) /\ free' = free
  <2> DEFINE l == <<"out", r>>
  <2>1. l \in Place /\ l[1] = "out"
    BY Tags
  <2> HIDE DEF l
  <2> QED
    BY <1>1, <1>2, <1>5, <1>6, <1>9, <2>1, MoveStep DEF l
<1>10. CASE PoolOk(free', Moved(at, f, Pool)) /\ toLan' = toLan
  BY <1>1, <1>2, <1>5, <1>6, <1>10, Tags, MoveStep
<1> QED
  BY <1>8, <1>9, <1>10

LEMMA DropHeldFrames ==
  ASSUME DataType, FrameInv, NEW w \in Worker, NEW it \in held[w], DropHeld(w, it)
  PROVE  FrameInv'
<1> DEFINE f == it.f
<1>1. PICK at : FrameMap(at)
  BY DEF FrameInv
<1>2. /\ UNCHANGED <<tails, lanQ, wanQ, cur, toWan, toLan>>
      /\ held' = [held EXCEPT ![w] = @ \ {it}] /\ free' = With(free, {f})
  BY DEF DropHeld, Free
<1>3. held \in [Worker -> SUBSET HeldItem] /\ HeldOk(held, at) /\ at \in [Frame -> Place]
  BY <1>1, Rows
<1>4. /\ f \in Frame /\ at[f] = <<"held", w>> /\ HeldOk(held', Moved(at, f, Pool))
  BY <1>2, <1>3, HeldDrop, Tags
<1>5. at[f][1] = "held" /\ at[f] # Pool
  BY <1>4, Tags
<1> HIDE DEF f
<1>6. PoolOk(free', Moved(at, f, Pool))
  BY <1>1, <1>2, <1>4, <1>5, Rows, GiveOne
<1> QED
  BY <1>1, <1>2, <1>4, <1>5, <1>6, Tags, MoveStep

LEMMA TxWanFrames ==
  ASSUME DataType, FrameInv, NEW s \in TxSlot, TxWan(s)
  PROVE  FrameInv'
<1> DEFINE f == Head(toWan[s]).f
<1>1. PICK at : FrameMap(at)
  BY DEF FrameInv
<1>2. /\ UNCHANGED <<tails, lanQ, wanQ, cur, held, toLan>> /\ toWan[s] # <<>>
      /\ toWan' = [toWan EXCEPT ![s] = Tail(@)] /\ free' = With(free, {f})
  BY DEF TxWan, Free
<1>3. /\ f \in Frame /\ at[f] = <<"tx", s>> /\ RowOk(toWan', TxSlot, "tx", Moved(at, f, Pool))
  <2> DEFINE X == WanTx
  <2>1. toWan \in [TxSlot -> Seq(X)] /\ RowOk(toWan, TxSlot, "tx", at)
    BY <1>1, Rows
  <2>2. at \in [Frame -> Place] /\ Pool \in Place /\ Pool[1] # "tx"
    BY <1>1, Rows, Tags
  <2> HIDE DEF X
  <2>3. s \in TxSlot /\ toWan[s] # <<>>
    BY <1>2
  <2>4. ASSUME NEW l \in Place, l[1] # "tx"
        PROVE  /\ Head(toWan[s]).f \in Frame /\ at[Head(toWan[s]).f] = <<"tx", s>>
               /\ RowOk([toWan EXCEPT ![s] = Tail(@)], TxSlot, "tx",
                        Moved(at, Head(toWan[s]).f, l))
    BY <2>1, <2>2, <2>3, <2>4, RowPop
  <2> QED
    BY <1>2, <2>2, <2>4
<1>4. at[f][1] = "tx" /\ at[f] # Pool
  BY <1>3, Tags
<1> HIDE DEF f
<1>5. PoolOk(free', Moved(at, f, Pool))
  BY <1>1, <1>2, <1>3, <1>4, Rows, GiveOne
<1> QED
  BY <1>1, <1>2, <1>3, <1>4, <1>5, Tags, MoveStep

LEMMA TxLanFrames ==
  ASSUME DataType, FrameInv, NEW r \in Port \X TxSlot, TxLan(r)
  PROVE  FrameInv'
<1> DEFINE f == Head(toLan[r]).f
<1>1. PICK at : FrameMap(at)
  BY DEF FrameInv
<1>2. /\ UNCHANGED <<tails, lanQ, wanQ, cur, held, toWan>> /\ toLan[r] # <<>>
      /\ toLan' = [toLan EXCEPT ![r] = Tail(@)] /\ free' = With(free, {f})
  BY DEF TxLan, Free
<1>3. /\ f \in Frame /\ at[f] = <<"out", r>>
      /\ RowOk(toLan', Port \X TxSlot, "out", Moved(at, f, Pool))
  <2> DEFINE D == Port \X TxSlot
  <2>1. toLan \in [D -> Seq(LanTx)] /\ RowOk(toLan, D, "out", at)
    BY <1>1, Rows
  <2>2. at \in [Frame -> Place] /\ Pool \in Place /\ Pool[1] # "out"
    BY <1>1, Rows, Tags
  <2> HIDE DEF D
  <2>3. r \in D /\ toLan[r] # <<>>
    BY <1>2 DEF D
  <2>4. ASSUME NEW l \in Place, l[1] # "out"
        PROVE  /\ Head(toLan[r]).f \in Frame /\ at[Head(toLan[r]).f] = <<"out", r>>
               /\ RowOk([toLan EXCEPT ![r] = Tail(@)], D, "out",
                        Moved(at, Head(toLan[r]).f, l))
    BY <2>1, <2>2, <2>3, <2>4, RowPop
  <2> QED
    BY <1>2, <2>2, <2>4 DEF D
<1>4. at[f][1] = "out" /\ at[f] # Pool
  BY <1>3, Tags
<1> HIDE DEF f
<1>5. PoolOk(free', Moved(at, f, Pool))
  BY <1>1, <1>2, <1>3, <1>4, Rows, GiveOne
<1> QED
  BY <1>1, <1>2, <1>3, <1>4, <1>5, Tags, MoveStep

(* The ARP kinds whose handlers keep to the rule (the others are described *)
(* with LanArps and WanArps).                                              *)
ArpsOwned == LanArps \subseteq {"stray"} /\ WanArps \subseteq {"flood"}

LEMMA LocalArpFrames ==
  ASSUME ArpsOwned, DataType, FrameInv, NEW w \in Worker, NEW up \in BOOLEAN, LocalArp(w, up)
  PROVE  FrameInv'
<1> DEFINE j == Head(lanQ[w])
           f == j.f
<1>1. PICK at : FrameMap(at)
  BY DEF FrameInv
<1>2. /\ UNCHANGED <<tails, wanQ, cur, held, toLan>>
      /\ lanQ[w] # <<>> /\ lanQ' = [lanQ EXCEPT ![w] = Tail(@)] /\ j.pc = "stray"
      /\ free' = [free EXCEPT ![f] = @ + 1] /\ toWan' = toWan
  <2>1. j.pc = "stray"
    BY DEF LocalArp, ArpsOwned
  <2>2. ArpLocalFrees(j.pc, up) = 1
    BY <2>1 DEF ArpLocalFrees
  <2> QED
    BY <2>1, <2>2 DEF LocalArp
<1>3. /\ f \in Frame /\ at[f] = <<"lan", w>>
      /\ RowOk(lanQ', Worker, "lan", Moved(at, f, Pool))
  <2> DEFINE X == DataJob \cup ArpJob
  <2>1. lanQ \in [Worker -> Seq(X)] /\ RowOk(lanQ, Worker, "lan", at)
    BY <1>1, Rows
  <2>2. at \in [Frame -> Place] /\ Pool \in Place /\ Pool[1] # "lan"
    BY <1>1, Rows, Tags
  <2> HIDE DEF X
  <2>3. w \in Worker /\ lanQ[w] # <<>>
    BY <1>2
  <2>4. /\ Head(lanQ[w]).f \in Frame /\ at[Head(lanQ[w]).f] = <<"lan", w>>
        /\ RowOk([lanQ EXCEPT ![w] = Tail(@)], Worker, "lan", Moved(at, Head(lanQ[w]).f, Pool))
    BY <2>1, <2>2, <2>3, RowPop
  <2> QED
    BY <1>2, <2>4
<1>4. at[f][1] = "lan" /\ at[f] # Pool
  BY <1>3, Tags
<1> HIDE DEF j, f
<1>5. free' = With(free, {f})
  <2>1. free \in [Frame -> {0, 1}]
    BY <1>1, Rows DEF PoolOk
  <2>2. ASSUME NEW g \in Frame PROVE free'[g] = With(free, {f})[g]
    <3>1. CASE g = f
      <4>1. free'[g] = free[g] + 1
        BY <1>2, <2>1, <3>1
      <4>2. With(free, {f})[g] = free[g] + 1
        BY <3>1 DEF With
      <4> QED
        BY <4>1, <4>2
    <3>2. CASE g # f
      <4>1. free'[g] = free[g]
        BY <1>2, <2>1, <3>2
      <4>2. With(free, {f})[g] = free[g] + 0
        BY <3>2 DEF With
      <4>3. free[g] + 0 = free[g]
        BY <2>1
      <4> QED
        BY <4>1, <4>2, <4>3
    <3> QED
      BY <3>1, <3>2
  <2>3. free' = [g \in Frame |-> free'[g]]
    BY <1>2, <2>1
  <2>4. With(free, {f}) = [g \in Frame |-> With(free, {f})[g]]
    BY DEF With
  <2> QED
    BY <2>2, <2>3, <2>4
<1>6. PoolOk(free', Moved(at, f, Pool))
  BY <1>1, <1>3, <1>4, <1>5, Rows, GiveOne
<1> QED
  BY <1>1, <1>2, <1>3, <1>4, <1>6, Tags, MoveStep

(* A tail is taken from a worker's stock.                                  *)
LEMMA TailDrop ==
  ASSUME NEW at \in [Frame -> Place], NEW t \in [Worker -> SUBSET Frame], TailOk(t, at),
         NEW w \in Worker, NEW g \in t[w], NEW l \in Place, l[1] # "tail"
  PROVE  /\ g \in Frame /\ at[g] = <<"tail", w>>
         /\ TailOk([t EXCEPT ![w] = @ \ {g}], Moved(at, g, l))
<1> DEFINE to == Moved(at, g, l)
<1>1. g \in Frame /\ at[g] = <<"tail", w>>
  BY DEF TailOk, FramesAt
<1>2. to[g] = l /\ \A x \in Frame : x # g => to[x] = at[x]
  BY <1>1, MovedFacts
<1> HIDE DEF to
<1>3. ASSUME NEW v \in Worker
      PROVE  FramesAt(to, "tail", v) = IF v = w THEN t[v] \ {g} ELSE t[v]
  <2> DEFINE y == <<"tail", v>>
  <2>1. l # y /\ (at[g] = y <=> v = w)
    BY <1>1
  <2>2. t[v] = FramesAt(at, "tail", v)
    BY DEF TailOk
  <2> HIDE DEF y
  <2>3. {x \in Frame : to[x] = y} = {x \in Frame : at[x] = y} \ {g}
    BY <1>2, <2>1
  <2>4. v # w => g \notin {x \in Frame : at[x] = y}
    BY <2>1
  <2>5. /\ FramesAt(to, "tail", v) = {x \in Frame : to[x] = y}
        /\ t[v] = {x \in Frame : at[x] = y}
    BY <2>2 DEF FramesAt, y
  <2> QED
    BY <2>3, <2>4, <2>5
<1>4. TailOk([t EXCEPT ![w] = @ \ {g}], to)
  BY <1>3 DEF TailOk
<1> QED
  BY <1>1, <1>4 DEF to

(* split_tail_take: the frames of a refill go from the pool to the stock.  *)
LEMMA RefillFacts ==
  ASSUME DataType, NEW at, FrameMap(at), NEW w \in Worker, NEW S, S \subseteq Available,
         NEW a1, a1 = [g \in Frame |-> IF g \in S THEN <<"tail", w>> ELSE at[g]]
  PROVE  /\ a1 \in [Frame -> Place]
         /\ \A g \in Frame : at[g][1] # "pool" => a1[g] = at[g]
         /\ PoolOk(Without(free, S), a1)
         /\ TailOk([tails EXCEPT ![w] = @ \cup S], a1)
         /\ HeldOk(held, a1) /\ RowOk(cur, Thread, "cur", a1)
         /\ RowOk(lanQ, Worker, "lan", a1) /\ RowOk(wanQ, Worker, "wan", a1)
         /\ RowOk(toWan, TxSlot, "tx", a1) /\ RowOk(toLan, Port \X TxSlot, "out", a1)
<1> DEFINE x == <<"tail", w>>
<1>0. a1 = [g \in Frame |-> IF g \in S THEN x ELSE at[g]]
  OBVIOUS
<1>1. at \in [Frame -> Place] /\ PoolOk(free, at) /\ tails \in [Worker -> SUBSET Frame]
  BY Rows
<1>2. x \in Place /\ x[1] = "tail" /\ x # Pool
  BY Tags
<1>3. \A g \in S : g \in Frame /\ at[g] = Pool /\ at[g][1] = "pool"
  BY FreeFrame
<1> HIDE DEF x
<1>4. a1 \in [Frame -> Place] /\ \A g \in Frame : a1[g] = IF g \in S THEN x ELSE at[g]
  BY <1>0, <1>1, <1>2
<1>5. \A g \in Frame : at[g][1] # "pool" => a1[g] = at[g]
  BY <1>3, <1>4
<1>6. ASSUME NEW tag, tag \notin {"pool", "tail"} PROVE Apart(at, a1, tag)
  BY <1>2, <1>3, <1>4, <1>6 DEF Apart
<1>7. PoolOk(Without(free, S), a1)
  <2>1. S \subseteq Frame /\ \A g \in S : at[g] = Pool /\ a1[g] # Pool
    BY <1>2, <1>3, <1>4
  <2>2. \A g \in Frame \ S : a1[g] = Pool <=> at[g] = Pool
    BY <1>4
  <2> QED
    BY <1>1, <2>1, <2>2, PoolTake
<1>8. TailOk([tails EXCEPT ![w] = @ \cup S], a1)
  <2>1. ASSUME NEW v \in Worker
        PROVE  FramesAt(a1, "tail", v) = IF v = w THEN tails[v] \cup S ELSE tails[v]
    <3> DEFINE y == <<"tail", v>>
    <3>1. x = y <=> v = w
      BY DEF x
    <3>2. y # Pool
      BY Tags
    <3>3. tails[v] = FramesAt(at, "tail", v)
      BY DEF FrameMap, TailOk
    <3> HIDE DEF y
    <3>4. {g \in Frame : a1[g] = y} = {g \in Frame : at[g] = y} \cup (IF v = w THEN S ELSE {})
      BY <1>3, <1>4, <3>1, <3>2
    <3>5. /\ FramesAt(a1, "tail", v) = {g \in Frame : a1[g] = y}
          /\ tails[v] = {g \in Frame : at[g] = y}
      BY <3>3 DEF FramesAt, y
    <3> QED
      BY <3>4, <3>5
  <2> QED
    BY <1>1, <2>1 DEF TailOk
<1>9. HeldOk(held, a1) /\ RowOk(cur, Thread, "cur", a1)
  BY <1>6, HeldApart, RowApart DEF FrameMap
<1>10. RowOk(lanQ, Worker, "lan", a1) /\ RowOk(wanQ, Worker, "wan", a1)
  BY <1>6, RowApart DEF FrameMap
<1>11. RowOk(toWan, TxSlot, "tx", a1) /\ RowOk(toLan, Port \X TxSlot, "out", a1)
  BY <1>6, RowApart DEF FrameMap
<1> QED
  BY <1>4, <1>5, <1>7, <1>8, <1>9, <1>10, <1>11

LEMMA LocalSplitFrames ==
  ASSUME DataType, FrameInv, NEW w \in Worker, NEW enc \in BOOLEAN, LocalSplit(w, enc)
  PROVE  FrameInv'
<1> DEFINE j == J(w)
           f == j.f
           s == j.slot
<1>1. PICK at : FrameMap(at)
  BY DEF FrameInv
<1>2. /\ UNCHANGED <<lanQ, wanQ, held, toLan>> /\ Working(w, "encrypt") /\ Done(w)
      /\ \E S \in Refills(w) :
           IF tails[w] \cup S = {}
           THEN free' = With(free, {f}) /\ UNCHANGED <<tails, toWan>>
           ELSE \E tail \in tails[w] \cup S : SplitInto(w, j, S, tail, enc)
  BY DEF LocalSplit, Free
<1>3. cur[w] = <<j>> /\ j \in EncryptJob /\ w \in Thread
  BY <1>2, InHand, JobKinds DEF DataType
<1>4. s \in TxSlot
  BY <1>3 DEF EncryptJob
<1>5. /\ f \in Frame /\ at[f] = <<"cur", w>>
      /\ \A l \in Place : l[1] # "cur" => RowOk(cur', Thread, "cur", Moved(at, f, l))
  BY <1>1, <1>2, <1>3, LayDown, Tags
<1>6. at[f][1] = "cur" /\ at[f] # Pool
  BY <1>3, <1>5, Tags
<1>7. CASE free' = With(free, {f}) /\ UNCHANGED <<tails, toWan>>
  <2> HIDE DEF f
  <2>1. PoolOk(free', Moved(at, f, Pool))
    BY <1>1, <1>5, <1>6, <1>7, Rows, GiveOne
  <2> QED
    BY <1>1, <1>2, <1>5, <1>6, <1>7, <2>1, Tags, MoveStep
<1>8. ASSUME NEW S \in Refills(w), NEW tail \in tails[w] \cup S, SplitInto(w, j, S, tail, enc)
      PROVE  FrameInv'
  <2>1. S \subseteq Available
    BY <1>8 DEF Refills
  <2> DEFINE a1 == [g \in Frame |-> IF g \in S THEN <<"tail", w>> ELSE at[g]]
             t1 == [tails EXCEPT ![w] = @ \cup S]
             b1 == Without(free, S)
             a == [f |-> f, part |-> "first"]
             b == [f |-> tail, part |-> "second"]
  <2>2. /\ a1 \in [Frame -> Place]
        /\ \A g \in Frame : at[g][1] # "pool" => a1[g] = at[g]
        /\ PoolOk(b1, a1) /\ TailOk(t1, a1)
        /\ HeldOk(held, a1) /\ RowOk(cur, Thread, "cur", a1)
        /\ RowOk(lanQ, Worker, "lan", a1) /\ RowOk(wanQ, Worker, "wan", a1)
        /\ RowOk(toWan, TxSlot, "tx", a1) /\ RowOk(toLan, Port \X TxSlot, "out", a1)
    <3> HIDE DEF f, s, a, b, t1, b1
    <3>1. a1 = [g \in Frame |-> IF g \in S THEN <<"tail", w>> ELSE at[g]]
      OBVIOUS
    <3> HIDE DEF a1
    <3> QED
      BY <1>1, <2>1, <3>1, RefillFacts DEF t1, b1
  <2>3. /\ tails \in [Worker -> SUBSET Frame] /\ cur \in [Thread -> Seq(Job)]
        /\ toWan \in [TxSlot -> Seq(WanTx)] /\ S \subseteq Frame
    BY <1>1, <2>1, Rows DEF Available
  <2>4. t1 \in [Worker -> SUBSET Frame] /\ t1[w] = tails[w] \cup S
    BY <2>3
  <2>5. tails' = [t1 EXCEPT ![w] = @ \ {tail}]
    BY <1>8, <2>3 DEF SplitInto
  <2>6. \/ /\ toWan' = [toWan EXCEPT ![s] = @ \o <<a, b>>]
           /\ free' = b1
        \/ free' = With(b1, {f, tail}) /\ toWan' = toWan
    BY <1>8 DEF SplitInto, SplitFailed
  <2>7. Done(w)
    BY <1>2
  <2> HIDE DEF a1, t1, b1, f, s
  <2>8. a1[f] = <<"cur", w>> /\ a1[f][1] = "cur" /\ f \in Frame
    BY <1>5, <1>6, <2>2
  <2>9. a1[tail] = <<"tail", w>> /\ a1[tail][1] = "tail" /\ tail \in Frame
    <3>1. a1[tail] = <<"tail", w>> /\ tail \in Frame
      BY <2>2, <2>4, Tags, TailDrop
    <3> QED
      BY <3>1, Tags
  <2>10. f # tail
    BY <2>8, <2>9
  <2>11. ASSUME NEW l \in Place, l[1] \in {"tx", "pool"}
         PROVE  LET a2 == Moved(a1, f, l)
                    a3 == Moved(a2, tail, l)
                IN  /\ a2 \in [Frame -> Place] /\ a3 \in [Frame -> Place]
                    /\ a2[tail] = a1[tail] /\ a3[f] = l /\ a3[tail] = l
                    /\ \A g \in Frame : g \notin {f, tail} => a3[g] = a1[g]
                    /\ RowOk(cur', Thread, "cur", a3) /\ TailOk(tails', a3)
                    /\ HeldOk(held, a3)
                    /\ RowOk(lanQ, Worker, "lan", a3) /\ RowOk(wanQ, Worker, "wan", a3)
                    /\ RowOk(toLan, Port \X TxSlot, "out", a3)
    <3> DEFINE a2 == Moved(a1, f, l)
               a3 == Moved(a2, tail, l)
    <3>1. /\ a2 \in [Frame -> Place] /\ a2[f] = l
          /\ \A g \in Frame : g # f => a2[g] = a1[g]
      BY <2>2, <2>8, MovedFacts
    <3>2. \A tag : tag \notin {"cur", "tx", "pool"} => Apart(a1, a2, tag)
      BY <2>2, <2>8, <2>11, MovedApart
    <3>3. RowOk(cur', Thread, "cur", a2)
      <4>1. cur[w] # <<>> /\ Head(cur[w]) = j /\ Tail(cur[w]) = <<>>
        BY <1>3
      <4>2. cur' = [cur EXCEPT ![w] = Tail(@)]
        BY <2>7, <4>1 DEF Done
      <4>3. RowOk([cur EXCEPT ![w] = Tail(@)], Thread, "cur", Moved(a1, Head(cur[w]).f, l))
        BY <1>3, <2>2, <2>3, <2>11, <4>1, RowPop
      <4> QED
        BY <4>1, <4>2, <4>3 DEF f
    <3> HIDE DEF a2
    <3>4. TailOk(t1, a2)
      BY <2>2, <3>2, TailApart
    <3>5. TailOk(tails', a3)
      <4>1. tail \in t1[w]
        BY <2>4
      <4>2. TailOk([t1 EXCEPT ![w] = @ \ {tail}], Moved(a2, tail, l))
        BY <2>4, <2>11, <3>1, <3>4, <4>1, TailDrop
      <4> QED
        BY <2>5, <4>2
    <3>6. /\ a3 \in [Frame -> Place] /\ a3[tail] = l
          /\ \A g \in Frame : g # tail => a3[g] = a2[g]
      BY <2>9, <3>1, MovedFacts
    <3>7. a2[tail] = a1[tail]
      BY <2>9, <2>10, <3>1
    <3>8. \A tag : tag \notin {"tail", "tx", "pool"} => Apart(a2, a3, tag)
      <4>1. a2[tail][1] = "tail"
        BY <2>9, <3>7
      <4> QED
        BY <2>9, <2>11, <3>1, <4>1, MovedApart
    <3> HIDE DEF a3
    <3>9. RowOk(cur', Thread, "cur", a3)
      BY <3>3, <3>8, RowApart
    <3>10. HeldOk(held, a3)
      BY <2>2, <3>2, <3>8, HeldApart
    <3>11. RowOk(lanQ, Worker, "lan", a3) /\ RowOk(wanQ, Worker, "wan", a3)
      BY <2>2, <3>2, <3>8, RowApart
    <3>12. RowOk(toLan, Port \X TxSlot, "out", a3)
      BY <2>2, <3>2, <3>8, RowApart
    <3>13. a3[f] = l /\ \A g \in Frame : g \notin {f, tail} => a3[g] = a1[g]
      BY <2>8, <2>10, <3>1, <3>6
    <3> QED
      BY <3>1, <3>5, <3>6, <3>7, <3>9, <3>10, <3>11, <3>12, <3>13 DEF a2, a3
  <2>12. CASE toWan' = [toWan EXCEPT ![s] = @ \o <<a, b>>] /\ free' = b1
    <3> DEFINE l == <<"tx", s>>
    <3>1. l \in Place /\ l[1] = "tx" /\ l # Pool
      BY <1>4, Tags
    <3> HIDE DEF l
    <3> DEFINE a2 == Moved(a1, f, l)
               a3 == Moved(a2, tail, l)
               q1 == [toWan EXCEPT ![s] = Append(@, a)]
    <3>2. /\ a2 \in [Frame -> Place] /\ a3 \in [Frame -> Place]
          /\ a2[tail] = a1[tail] /\ a3[f] = l /\ a3[tail] = l
          /\ \A g \in Frame : g \notin {f, tail} => a3[g] = a1[g]
          /\ RowOk(cur', Thread, "cur", a3) /\ TailOk(tails', a3)
          /\ HeldOk(held, a3)
          /\ RowOk(lanQ, Worker, "lan", a3) /\ RowOk(wanQ, Worker, "wan", a3)
          /\ RowOk(toLan, Port \X TxSlot, "out", a3)
      BY <2>11, <3>1
    <3>3. a \in WanTx /\ a.f = f /\ b \in WanTx /\ b.f = tail
      BY <2>8, <2>9 DEF WanTx
    <3>4. toWan' = [q1 EXCEPT ![s] = Append(@, b)]
      <4>1. toWan[s] \o <<a, b>> = Append(Append(toWan[s], a), b)
        BY <1>4, <2>3, <3>3
      <4> HIDE DEF a, b
      <4> QED
        BY <1>4, <2>3, <2>12, <4>1
    <3>5. q1 \in [TxSlot -> Seq(WanTx)]
      BY <1>4, <2>3, <3>3
    <3> HIDE DEF a, b
    <3>6. RowOk(q1, TxSlot, "tx", a2)
      <4>1. a1[a.f][1] # "tx" /\ a.f \in Frame /\ <<"tx", s>> \in Place
        BY <2>8, <3>1, <3>3 DEF l
      <4>2. RowOk([toWan EXCEPT ![s] = Append(@, a)], TxSlot, "tx", Moved(a1, a.f, <<"tx", s>>))
        BY <1>4, <2>2, <2>3, <3>3, <4>1, RowPush
      <4> QED
        BY <3>3, <4>2 DEF l
    <3> HIDE DEF q1, a2
    <3>7. RowOk(toWan', TxSlot, "tx", a3)
      <4>1. a2[b.f][1] # "tx" /\ b.f \in Frame /\ <<"tx", s>> \in Place
        BY <2>9, <3>1, <3>2, <3>3 DEF l
      <4>2. RowOk([q1 EXCEPT ![s] = Append(@, b)], TxSlot, "tx", Moved(a2, b.f, <<"tx", s>>))
        BY <1>4, <3>2, <3>3, <3>5, <3>6, <4>1, RowPush
      <4> QED
        BY <3>3, <3>4, <4>2 DEF l
    <3> HIDE DEF a3
    <3>8. PoolOk(free', a3)
      <4>1. \A g \in Frame : a3[g] # a1[g] => a1[g][1] # "pool" /\ a3[g][1] # "pool"
        BY <2>8, <2>9, <3>1, <3>2
      <4>2. Apart(a1, a3, "pool")
        BY <4>1 DEF Apart
      <4> QED
        BY <2>2, <2>12, <4>2, PoolApart
    <3> QED
      BY <1>2, <3>2, <3>7, <3>8 DEF FrameInv, FrameMap
  <2>13. CASE free' = With(b1, {f, tail}) /\ toWan' = toWan
    <3>1. Pool \in Place /\ Pool[1] = "pool"
      BY Tags
    <3> DEFINE a2 == Moved(a1, f, Pool)
               a3 == Moved(a2, tail, Pool)
    <3>2. /\ a2 \in [Frame -> Place] /\ a3 \in [Frame -> Place]
          /\ a2[tail] = a1[tail] /\ a3[f] = Pool /\ a3[tail] = Pool
          /\ \A g \in Frame : g \notin {f, tail} => a3[g] = a1[g]
          /\ RowOk(cur', Thread, "cur", a3) /\ TailOk(tails', a3)
          /\ HeldOk(held, a3)
          /\ RowOk(lanQ, Worker, "lan", a3) /\ RowOk(wanQ, Worker, "wan", a3)
          /\ RowOk(toLan, Port \X TxSlot, "out", a3)
      BY <2>11, <3>1
    <3> HIDE DEF a2, a3
    <3>3. RowOk(toWan', TxSlot, "tx", a3)
      <4>1. Apart(a1, a3, "tx")
        BY <2>8, <2>9, <3>1, <3>2 DEF Apart
      <4> QED
        BY <2>2, <2>13, <4>1, RowApart
    <3>4. PoolOk(free', a3)
      <4> DEFINE T == {f, tail}
      <4>1. T \subseteq Frame /\ \A g \in T : a1[g] # Pool /\ a3[g] = Pool
        BY <2>8, <2>9, <3>1, <3>2
      <4>2. \A g \in Frame \ T : a3[g] = Pool <=> a1[g] = Pool
        BY <3>2
      <4> HIDE DEF T
      <4>3. PoolOk(With(b1, T), a3)
        BY <2>2, <4>1, <4>2, PoolGive
      <4> QED
        BY <2>13, <4>3 DEF T
    <3> QED
      BY <1>2, <3>2, <3>3, <3>4 DEF FrameInv, FrameMap
  <2> QED
    BY <2>6, <2>12, <2>13
<1> QED
  BY <1>2, <1>7, <1>8

(* arp_flood_to_profile_locals: the frame goes to one ring, the clones, of *)
(* free frames, to others.                                                 *)
LEMMA FloodMoves ==
  ASSUME DataType, NEW at, FrameMap(at), NEW f \in Frame, NEW n, at[f] = <<"wan", n>>, Flood(f)
  PROVE  \E to \in [Frame -> Place] :
           /\ PoolOk(free', to) /\ RowOk(toLan', Port \X TxSlot, "out", to)
           /\ \E l \in Place : l[1] # "wan" /\ Apart(Moved(at, f, l), to, "wan")
           /\ \A tag : tag \notin {"wan", "pool", "out"} => Apart(at, to, tag)
<1> DEFINE Ring == Port \X TxSlot
<1>1. /\ at \in [Frame -> Place] /\ PoolOk(free, at)
      /\ toLan \in [Ring -> Seq(LanTx)] /\ RowOk(toLan, Ring, "out", at)
  BY Rows
<1>2. /\ Pool \in Place /\ Pool[1] = "pool" /\ at[f][1] = "wan" /\ at[f] # Pool
  BY Tags
<1>3. CASE Roomy = {}
  <2> DEFINE to == Moved(at, f, Pool)
  <2>1. free' = With(free, {f}) /\ toLan' = toLan
    BY <1>3 DEF Flood, Free
  <2>2. PoolOk(free', to) /\ to \in [Frame -> Place]
    BY <1>1, <1>2, <2>1, GiveOne, MovedFacts
  <2>3. \A tag : tag \notin {"wan", "pool"} => Apart(at, to, tag)
    BY <1>1, <1>2, MovedApart
  <2>4. Apart(to, to, "wan")
    BY DEF Apart
  <2> HIDE DEF to
  <2>5. RowOk(toLan', Ring, "out", to)
    BY <1>1, <2>1, <2>3, RowApart
  <2> QED
    BY <1>2, <2>2, <2>3, <2>4, <2>5 DEF to
<1>4. CASE Roomy # {}
  <2> DEFINE rank(li) == Cardinality({x \in Roomy : x < li})
             cloned == {li \in Roomy : rank(li) \in 1 .. Cardinality(Available)}
             m == Min(Roomy)
  <2>1. PICK clone \in [cloned -> Available] :
           /\ IsInjective(clone)
           /\ free' = Without(free, Range(clone))
           /\ toLan' = [r \in DOMAIN toLan |->
                  IF r[2] # ArpSlot THEN toLan[r]
                  ELSE IF r[1] = Min(Roomy) THEN Append(toLan[r], [f |-> f])
                  ELSE IF r[1] \in cloned THEN Append(toLan[r], [f |-> clone[r[1]]])
                  ELSE toLan[r]]
    BY <1>4 DEF Flood
  <2>2. m \in Roomy /\ m \in Port /\ m \notin cloned /\ cloned \subseteq Port
    <3>1. Roomy \subseteq Port /\ Roomy \subseteq Nat
      BY Sizes_ DEF Port, Roomy
    <3>2. m \in Roomy /\ \A y \in Roomy : m <= y
      BY <1>4, <3>1, MinIsLeast
    <3> HIDE DEF m
    <3>3. {x \in Roomy : x < m} = {}
      <4>1. \A x \in Roomy : ~(x < m)
        <5>1. SUFFICES ASSUME NEW x \in Roomy PROVE ~(x < m)
          OBVIOUS
        <5>2. x \in Int /\ m \in Int /\ m <= x
          BY <3>1, <3>2
        <5> QED
          BY <5>2
      <4> QED
        BY <4>1
    <3>4. rank(m) = 0
      BY <3>3, FS_EmptySet
    <3>5. Cardinality(Available) \in Nat
      <4>1. IsFiniteSet(Frame) /\ Available \subseteq Frame
        BY DatapathAssumption DEF Available
      <4> QED
        BY <4>1, FS_Subset, FS_CardinalityType
    <3>6. m \notin cloned
      <4> HIDE DEF rank
      <4> QED
        BY <3>4, <3>5
    <3>7. cloned \subseteq Roomy
      OBVIOUS
    <3> HIDE DEF cloned
    <3> QED
      BY <3>1, <3>2, <3>6, <3>7
  <2>3. /\ \A li \in cloned : clone[li] \in Available
        /\ \A a, b \in cloned : clone[a] = clone[b] => a = b
        /\ Range(clone) = {clone[li] : li \in cloned}
    BY <2>1 DEF IsInjective, Range
  <2> HIDE DEF cloned
  <2>4. \A li \in cloned : /\ clone[li] \in Frame /\ at[clone[li]] = Pool /\ clone[li] # f
    BY <1>2, <2>3, FreeFrame
  <2> DEFINE P(li) == <<"out", <<li, ArpSlot>>>>
             to == [g \in Frame |->
                      IF g = f THEN P(m)
                      ELSE IF g \in Range(clone) THEN P(CHOOSE li \in cloned : clone[li] = g)
                      ELSE at[g]]
  <2>5. \A li \in Port : P(li) \in Place /\ P(li)[1] = "out" /\ P(li) # Pool
    <3>1. \A li \in Port : <<li, ArpSlot>> \in Port \X TxSlot
      BY Sizes_ DEF ArpSlot
    <3> QED
      BY <3>1, Tags
  <2>6. \A x, y : P(x) = P(y) => x = y
    OBVIOUS
  <2> HIDE DEF P, m
  <2>7. \A g \in Range(clone) : \E li \in cloned : /\ clone[li] = g
                                                  /\ (CHOOSE c \in cloned : clone[c] = g) = li
    BY <2>3
  <2>8. /\ to \in [Frame -> Place] /\ to[f] = P(m)
        /\ \A li \in cloned : to[clone[li]] = P(li)
        /\ \A g \in Frame : g # f /\ g \notin Range(clone) => to[g] = at[g]
    <3>1. \A li \in cloned : (CHOOSE c \in cloned : clone[c] = clone[li]) = li
      BY <2>3
    <3>2. \A g \in Frame : to[g] \in Place
      BY <1>1, <2>2, <2>5, <2>7
    <3>3. to \in [Frame -> Place]
      BY <3>2
    <3>4. to[f] = P(m)
      OBVIOUS
    <3>5. \A li \in cloned : to[clone[li]] = P(li)
      BY <2>3, <2>4, <3>1
    <3>6. \A g \in Frame : g # f /\ g \notin Range(clone) => to[g] = at[g]
      OBVIOUS
    <3> QED
      BY <3>3, <3>4, <3>5, <3>6
  <2> HIDE DEF to
  <2>9. ASSUME NEW g \in Frame
        PROVE  \/ g = f /\ at[g][1] = "wan" /\ to[g] = P(m) /\ to[g][1] = "out"
               \/ \E li \in cloned : g = clone[li] /\ at[g] = Pool /\ to[g] = P(li)
                                     /\ to[g][1] = "out"
               \/ g # f /\ g \notin Range(clone) /\ to[g] = at[g]
    <3>1. CASE g = f
      BY <1>2, <2>2, <2>5, <2>8, <3>1
    <3>2. CASE g \in Range(clone)
      <4>1. PICK li \in cloned : g = clone[li]
        BY <2>3, <3>2
      <4>2. li \in Port /\ to[g] = P(li) /\ at[g] = Pool
        BY <2>2, <2>4, <2>8, <4>1
      <4> QED
        BY <2>5, <4>1, <4>2
    <3> QED
      BY <2>8, <3>1, <3>2
  <2>10. \A tag : tag \notin {"wan", "pool", "out"} => Apart(at, to, tag)
    BY <1>2, <2>9 DEF Apart
  <2>11. P(m) \in Place /\ P(m)[1] # "wan" /\ Apart(Moved(at, f, P(m)), to, "wan")
    <3> DEFINE a1 == Moved(at, f, P(m))
    <3>1. P(m) \in Place /\ P(m)[1] = "out"
      BY <2>2, <2>5
    <3>2. a1[f] = P(m) /\ \A g \in Frame : g # f => a1[g] = at[g]
      BY <1>1, <3>1, MovedFacts
    <3> HIDE DEF a1
    <3>3. Apart(a1, to, "wan")
      BY <1>2, <2>4, <2>9, <3>2 DEF Apart
    <3> QED
      BY <3>1, <3>3 DEF a1
  <2>12. PoolOk(free', to)
    <3> DEFINE T == Range(clone)
    <3>1. T \subseteq Frame /\ \A g \in T : at[g] = Pool /\ to[g] # Pool
      <4>1. ASSUME NEW g \in T PROVE g \in Frame /\ at[g] = Pool /\ to[g] # Pool
        <5>1. PICK li \in cloned : g = clone[li]
          BY <2>3
        <5>2. li \in Port
          BY <2>2
        <5> QED
          BY <2>4, <2>5, <2>8, <5>1, <5>2
      <4> QED
        BY <4>1
    <3>2. \A g \in Frame \ T : to[g] = Pool <=> at[g] = Pool
      <4>1. P(m) # Pool
        BY <2>2, <2>5
      <4> QED
        BY <1>2, <2>8, <4>1
    <3> HIDE DEF T
    <3>3. PoolOk(Without(free, T), to)
      BY <1>1, <3>1, <3>2, PoolTake
    <3> QED
      BY <2>1, <3>3 DEF T
  <2>13. RowOk(toLan', Ring, "out", to)
    <3>1. SUFFICES ASSUME NEW r \in Ring PROVE Holds(toLan'[r], FramesAt(to, "out", r))
      BY DEF RowOk
    <3> DEFINE x == <<"out", r>>
               S == FramesAt(at, "out", r)
    <3>2. x[1] = "out" /\ \A li : x = P(li) <=> r = <<li, ArpSlot>>
      BY DEF P
    <3>3. r = <<r[1], r[2]>>
      OBVIOUS
    <3>4. \A li : r = <<li, ArpSlot>> <=> r[1] = li /\ r[2] = ArpSlot
      BY <3>3
    <3>5. Holds(toLan[r], S) /\ toLan[r] \in Seq(LanTx)
      BY <1>1 DEF RowOk
    <3>6. toLan'[r] = IF r[2] # ArpSlot THEN toLan[r]
                      ELSE IF r[1] = m THEN Append(toLan[r], [f |-> f])
                      ELSE IF r[1] \in cloned THEN Append(toLan[r], [f |-> clone[r[1]]])
                      ELSE toLan[r]
      BY <1>1, <2>1 DEF m
    <3>7. \A g \in Frame : at[g][1] # "out" => g \notin S
      BY <3>2 DEF FramesAt
    <3>8. \A g \in Frame : [f |-> g] \in LanTx /\ [f |-> g].f = g
      BY DEF LanTx
    <3>9. FramesAt(to, "out", r) = {g \in Frame : to[g] = x} /\ S = {g \in Frame : at[g] = x}
      BY DEF FramesAt
    <3> HIDE DEF x, S
    <3>10. CASE r[2] # ArpSlot \/ (r[1] # m /\ r[1] \notin cloned)
      <4>1. \A li \in cloned \cup {m} : x # P(li)
        BY <3>2, <3>4, <3>10
      <4>2. \A g \in Frame : to[g] = x <=> at[g] = x
        BY <1>2, <2>9, <3>2, <4>1
      <4>3. FramesAt(to, "out", r) = S
        BY <3>9, <4>2
      <4> QED
        BY <3>5, <3>6, <3>10, <4>3
    <3>11. ASSUME NEW g \in Frame, to[g] = x, at[g][1] # "out",
                  \A o \in Frame : o # g => (to[o] = x <=> at[o] = x),
                  toLan'[r] = Append(toLan[r], [f |-> g])
           PROVE  Holds(toLan'[r], FramesAt(to, "out", r))
      <4> DEFINE jb == [f |-> g]
      <4>1. FramesAt(to, "out", r) = S \cup {g}
        BY <3>9, <3>11
      <4>2. g \notin S
        BY <3>7, <3>11
      <4>3. jb \in LanTx /\ jb.f = g
        BY <3>8
      <4> HIDE DEF jb
      <4>4. Holds(Append(toLan[r], jb), S \cup {jb.f})
        BY <3>5, <4>2, <4>3, HoldsPush
      <4> QED
        BY <3>11, <4>1, <4>3, <4>4 DEF jb
    <3>12. CASE r[2] = ArpSlot /\ r[1] = m
      <4>1. x = P(m)
        BY <3>2, <3>4, <3>12
      <4>2. \A li \in cloned : P(li) # x
        BY <2>2, <2>6, <4>1
      <4>3. \A o \in Frame : o # f => (to[o] = x <=> at[o] = x)
        BY <1>2, <2>9, <3>2, <4>2
      <4> QED
        BY <1>2, <2>8, <3>6, <3>11, <3>12, <4>1, <4>3
    <3>13. CASE r[2] = ArpSlot /\ r[1] # m /\ r[1] \in cloned
      <4> DEFINE c == r[1]
                 g == clone[c]
      <4>1. x = P(c) /\ c \in cloned /\ c # m
        BY <3>2, <3>4, <3>13
      <4>2. g \in Frame /\ at[g] = Pool /\ to[g] = x /\ g # f
        BY <2>4, <2>8, <4>1
      <4>3. \A o \in Frame : o # g => (to[o] = x <=> at[o] = x)
        <5>1. P(m) # x /\ \A li \in cloned : P(li) = x => li = c
          BY <2>6, <4>1
        <5> HIDE DEF c
        <5> QED
          BY <1>2, <2>9, <3>2, <5>1
      <4>4. toLan'[r] = Append(toLan[r], [f |-> g])
        BY <3>6, <3>13
      <4> QED
        BY <1>2, <3>11, <4>2, <4>3, <4>4
    <3> QED
      BY <3>10, <3>12, <3>13
  <2> QED
    BY <2>8, <2>10, <2>11, <2>12, <2>13
<1> QED
  BY <1>3, <1>4

LEMMA WanArpFrames ==
  ASSUME ArpsOwned, DataType, FrameInv, NEW w \in Worker, NEW known \in BOOLEAN, WanArp(w, known)
  PROVE  FrameInv'
<1> DEFINE f == Head(wanQ[w]).f
<1>1. PICK at : FrameMap(at)
  BY DEF FrameInv
<1>2. /\ UNCHANGED <<tails, lanQ, cur, held, toWan>>
      /\ wanQ[w] # <<>> /\ wanQ' = [wanQ EXCEPT ![w] = Tail(@)] /\ Flood(f)
  BY DEF WanArp, ArpsOwned
<1>3. /\ f \in Frame /\ at[f] = <<"wan", w>>
      /\ \A l \in Place : l[1] # "wan" => RowOk(wanQ', Worker, "wan", Moved(at, f, l))
  <2> DEFINE X == [f : Frame, p : DataPkt \cup ArpPkt]
  <2>1. wanQ \in [Worker -> Seq(X)] /\ RowOk(wanQ, Worker, "wan", at)
    BY <1>1, Rows
  <2>2. at \in [Frame -> Place] /\ Pool \in Place /\ Pool[1] # "wan"
    BY <1>1, Rows, Tags
  <2> HIDE DEF X
  <2>3. w \in Worker /\ wanQ[w] # <<>>
    BY <1>2
  <2>4. ASSUME NEW l \in Place, l[1] # "wan"
        PROVE  /\ Head(wanQ[w]).f \in Frame /\ at[Head(wanQ[w]).f] = <<"wan", w>>
               /\ RowOk([wanQ EXCEPT ![w] = Tail(@)], Worker, "wan",
                        Moved(at, Head(wanQ[w]).f, l))
    BY <2>1, <2>2, <2>3, <2>4, RowPop
  <2> QED
    BY <1>2, <2>2, <2>4
<1> HIDE DEF f
<1>4. PICK to \in [Frame -> Place] :
           /\ PoolOk(free', to) /\ RowOk(toLan', Port \X TxSlot, "out", to)
           /\ \E l \in Place : l[1] # "wan" /\ Apart(Moved(at, f, l), to, "wan")
           /\ \A tag : tag \notin {"wan", "pool", "out"} => Apart(at, to, tag)
  BY <1>1, <1>2, <1>3, FloodMoves
<1>5. RowOk(wanQ', Worker, "wan", to)
  BY <1>3, <1>4, RowApart
<1>6. HeldOk(held', to) /\ TailOk(tails', to)
  BY <1>1, <1>2, <1>4, HeldApart, TailApart DEF FrameMap
<1>7. RowOk(lanQ', Worker, "lan", to) /\ RowOk(cur', Thread, "cur", to)
  BY <1>1, <1>2, <1>4, RowApart DEF FrameMap
<1>8. RowOk(toWan', TxSlot, "tx", to)
  BY <1>1, <1>2, <1>4, RowApart DEF FrameMap
<1> QED
  BY <1>4, <1>5, <1>6, <1>7, <1>8 DEF FrameInv, FrameMap

LEMMA FrameStep ==
  ASSUME ArpsOwned, DataType, FrameInv, [Next]_vars
  PROVE  FrameInv'
<1>1. \A k \in Conn : Sizes[k] \subseteq BOOLEAN
  BY DatapathAssumption
<1>2. ASSUME NEW f \in Available, NEW k \in Conn,
             LanBypass(k, f) \/ \E big \in Sizes[k] : LanArrive(k, big, f)
      PROVE  FrameInv'
  BY <1>1, <1>2, LanBypassFrames, LanArriveFrames
<1>3. CASE LanInsert
  BY <1>3, LanInsertFrames
<1>4. ASSUME NEW f \in Available, NEW w \in Worker, NEW kind \in LanArps, LanArp(w, kind, f)
      PROVE  FrameInv'
  BY <1>4, LanArpFrames
<1>5. ASSUME NEW w \in Worker, NEW b \in BOOLEAN,
             \/ LocalAdmit(w, b) \/ LocalWhole(w, b) \/ LocalSplit(w, b)
             \/ LocalArp(w, b) \/ WanArp(w, b)
             \/ EmitInsert(w, b)
             \/ \E pass \in BOOLEAN : WanDecrypt(w, b, pass)
      PROVE  FrameInv'
  BY <1>5, LocalAdmitFrames, LocalWholeFrames, LocalSplitFrames, LocalArpFrames, WanArpFrames,
     EmitInsertFrames, WanDecryptFrames
<1>6. ASSUME NEW w \in Worker, NEW it \in held[w],
             DropHeld(w, it) \/ \E known \in BOOLEAN : Emit(w, it, known)
      PROVE  FrameInv'
  BY <1>6, DropHeldFrames, EmitFrames
<1>7. ASSUME NEW f \in Available, NEW p \in net, NEW b \in BOOLEAN,
             WanBypass(p, b, f) \/ WanArrive(p, b, f)
      PROVE  FrameInv'
  BY <1>7, WanBypassFrames, WanArriveFrames
<1>8. CASE (\E s \in TxSlot : TxWan(s)) \/ (\E r \in Port \X TxSlot : TxLan(r))
  BY <1>8, TxWanFrames, TxLanFrames
<1>9. ASSUME \/ UNCHANGED vars
             \/ \E w : FragGc(w)
             \/ \E k, big : PeerSend(k, big) \/ PeerOther(big, k)
             \/ PeerReboot \/ PeerRuntimeRestart \/ Wait
      PROVE  FrameInv'
  <2>1. UNCHANGED <<free, tails, held, lanQ, wanQ, cur, toWan, toLan>>
    BY <1>9 DEF vars, pathVars, FragGc, PeerSend, PeerOther, PeerReboot, PeerRuntimeRestart, Wait
  <2> QED
    BY <2>1, FrameSame
<1> QED
  BY <1>2, <1>3, <1>4, <1>5, <1>6, <1>7, <1>8, <1>9 DEF Next

LEMMA FrameInitial == Init => FrameInv
<1>1. SUFFICES ASSUME Init PROVE FrameInv
  OBVIOUS
<1> DEFINE at == [f \in Frame |-> Pool]
<1>2. /\ free = [f \in Frame |-> 1] /\ tails = [w \in Worker |-> {}]
      /\ held = [w \in Worker |-> {}]
      /\ lanQ = [w \in Worker |-> <<>>] /\ wanQ = [w \in Worker |-> <<>>]
      /\ cur = [t \in Thread |-> <<>>] /\ toWan = [s \in TxSlot |-> <<>>]
      /\ toLan = [r \in Port \X TxSlot |-> <<>>]
  BY <1>1 DEF Init
<1>3. at \in [Frame -> Place] /\ \A f \in Frame : at[f] = Pool
  BY Tags
<1> HIDE DEF at
<1>4. \A tag, n : tag # "pool" => FramesAt(at, tag, n) = {}
  <2>1. \A tag, n : tag # "pool" => <<tag, n>> # Pool
    BY DEF Pool
  <2> QED
    BY <1>3, <2>1 DEF FramesAt
<1>5. Holds(<<>>, {})
  <2>1. Len(<<>>) = 0 /\ 1..0 = {}
    OBVIOUS
  <2> QED
    BY <2>1 DEF Holds
<1>6. \A Q, D, tag : tag # "pool" /\ (\A n \in D : Q[n] = <<>>) => RowOk(Q, D, tag, at)
  BY <1>4, <1>5 DEF RowOk
<1>7. PoolOk(free, at)
  BY <1>2, <1>3 DEF PoolOk
<1>8. TailOk(tails, at) /\ HeldOk(held, at)
  BY <1>2, <1>4 DEF TailOk, HeldOk
<1>9. /\ RowOk(lanQ, Worker, "lan", at) /\ RowOk(wanQ, Worker, "wan", at)
      /\ RowOk(cur, Thread, "cur", at) /\ RowOk(toWan, TxSlot, "tx", at)
  BY <1>2, <1>6
<1>10. RowOk(toLan, Port \X TxSlot, "out", at)
  BY <1>2, <1>6
<1> QED
  BY <1>3, <1>7, <1>8, <1>9, <1>10 DEF FrameInv, FrameMap

(* How often a frame is in a row: once if it is there, else never.         *)
LEMMA TimesAre ==
  ASSUME NEW at \in [Frame -> Place], NEW tag, NEW D, NEW X, NEW Q \in [D -> Seq(X)],
         RowOk(Q, D, tag, at), NEW f \in Frame
  PROVE  /\ (\A n \in D : at[f] # <<tag, n>>) => Times(Q, f) = 0
         /\ \A n \in D : at[f] = <<tag, n>> => Times(Q, f) = 1
<1> DEFINE Spots == {xi \in UNION {{x} \X DOMAIN Q[x] : x \in DOMAIN Q} :
                       Q[xi[1]][xi[2]].f = f}
<1>1. DOMAIN Q = D /\ \A n \in D : DOMAIN Q[n] = 1..Len(Q[n])
  BY LenProperties
<1>2. \A xi : xi \in Spots <=> /\ \E n \in D : \E i \in 1..Len(Q[n]) : xi = <<n, i>>
                               /\ Q[xi[1]][xi[2]].f = f
  BY <1>1
<1>3. Times(Q, f) = Cardinality(Spots)
  BY DEF Times
<1> HIDE DEF Spots
<1>4. ASSUME NEW n \in D
      PROVE  /\ \A i \in 1..Len(Q[n]) : at[Q[n][i].f] = <<tag, n>>
             /\ at[f] = <<tag, n>> => \E i \in 1..Len(Q[n]) : Q[n][i].f = f
             /\ \A i, k \in 1..Len(Q[n]) : Q[n][i].f = Q[n][k].f => i = k
  BY DEF RowOk, Holds, FramesAt
<1>5. ASSUME \A n \in D : at[f] # <<tag, n>> PROVE Times(Q, f) = 0
  <2>1. Spots = {}
    BY <1>2, <1>4, <1>5
  <2> QED
    BY <1>3, <2>1, FS_EmptySet
<1>6. ASSUME NEW n \in D, at[f] = <<tag, n>> PROVE Times(Q, f) = 1
  <2>1. PICK i \in 1..Len(Q[n]) : Q[n][i].f = f
    BY <1>4, <1>6
  <2>2. \A m \in D : <<tag, m>> = <<tag, n>> => m = n
    OBVIOUS
  <2>3. ASSUME NEW xi \in Spots PROVE xi = <<n, i>>
    <3>1. PICK m \in D : \E k \in 1..Len(Q[m]) : xi = <<m, k>>
      BY <1>2
    <3>2. PICK k \in 1..Len(Q[m]) : xi = <<m, k>>
      BY <3>1
    <3>3. Q[m][k].f = f
      BY <1>2, <3>2
    <3>4. m = n
      BY <1>4, <1>6, <2>2, <3>3
    <3> QED
      BY <1>4, <2>1, <3>2, <3>3, <3>4
  <2>4. <<n, i>> \in Spots
    BY <1>2, <2>1
  <2>5. Spots = {<<n, i>>}
    BY <2>3, <2>4
  <2> QED
    BY <1>3, <2>5, FS_Singleton
<1> QED
  BY <1>5, <1>6

LEMMA StocksAre ==
  ASSUME DataType, NEW at, FrameMap(at), NEW f \in Frame
  PROVE  LET tl == Cardinality({w \in Worker : f \in tails[w]})
             hd == Cardinality({wi \in UNION {{w} \X held[w] : w \in Worker} : wi[2].f = f})
         IN  /\ tl = IF \E w \in Worker : at[f] = <<"tail", w>> THEN 1 ELSE 0
             /\ hd = IF \E w \in Worker : at[f] = <<"held", w>> THEN 1 ELSE 0
<1> DEFINE T == {w \in Worker : f \in tails[w]}
           H == {wi \in UNION {{w} \X held[w] : w \in Worker} : wi[2].f = f}
<1>1. /\ held \in [Worker -> SUBSET HeldItem] /\ HeldOk(held, at)
      /\ tails \in [Worker -> SUBSET Frame] /\ TailOk(tails, at)
  BY Rows
<1>2. \A tag, v, w : <<tag, v>> = <<tag, w>> => v = w
  OBVIOUS
<1>3. \A w \in Worker : f \in tails[w] <=> at[f] = <<"tail", w>>
  BY <1>1 DEF TailOk, FramesAt
<1>4. Cardinality(T) = IF \E w \in Worker : at[f] = <<"tail", w>> THEN 1 ELSE 0
  <2>1. CASE \E w \in Worker : at[f] = <<"tail", w>>
    <3>1. PICK w \in Worker : at[f] = <<"tail", w>>
      BY <2>1
    <3>2. T = {w}
      BY <1>2, <1>3, <3>1
    <3> HIDE DEF T
    <3> QED
      BY <2>1, <3>2, FS_Singleton
  <2>2. CASE ~\E w \in Worker : at[f] = <<"tail", w>>
    <3>1. T = {}
      BY <1>3, <2>2
    <3> HIDE DEF T
    <3> QED
      BY <2>2, <3>1, FS_EmptySet
  <2> QED
    BY <2>1, <2>2
<1>5. /\ \A w \in Worker : \A it \in held[w] : at[it.f] = <<"held", w>>
      /\ \A w \in Worker : at[f] = <<"held", w>> => \E it \in held[w] : it.f = f
      /\ \A w \in Worker : \A it, o \in held[w] : it.f = o.f => it = o
  BY <1>1 DEF HeldOk, FramesAt
<1>6. \A x : x \in H <=> \E w \in Worker : \E it \in held[w] : x = <<w, it>> /\ it.f = f
  OBVIOUS
<1> HIDE DEF H
<1>7. Cardinality(H) = IF \E w \in Worker : at[f] = <<"held", w>> THEN 1 ELSE 0
  <2>1. CASE \E w \in Worker : at[f] = <<"held", w>>
    <3>1. PICK w \in Worker : at[f] = <<"held", w>>
      BY <2>1
    <3>2. PICK it \in held[w] : it.f = f
      BY <1>5, <3>1
    <3>3. H = {<<w, it>>}
      BY <1>2, <1>5, <1>6, <3>1, <3>2
    <3> QED
      BY <2>1, <3>3, FS_Singleton
  <2>2. CASE ~\E w \in Worker : at[f] = <<"held", w>>
    <3>1. H = {}
      BY <1>5, <1>6, <2>2
    <3> QED
      BY <2>2, <3>1, FS_EmptySet
  <2> QED
    BY <2>1, <2>2
<1> QED
  BY <1>4, <1>7 DEF H

(* What the map says of a frame, counted.                                  *)
LEMMA FramesCount == ASSUME DataType, FrameInv PROVE FrameOwnedOnce
<1>1. PICK at : FrameMap(at)
  BY DEF FrameInv
<1>2. SUFFICES ASSUME NEW f \in Frame PROVE free[f] + Places(f) = 1
  BY DEF FrameOwnedOnce
<1> DEFINE tl == Cardinality({w \in Worker : f \in tails[w]})
           hd == Cardinality({wi \in UNION {{w} \X held[w] : w \in Worker} : wi[2].f = f})
           Ring == Port \X TxSlot
           a == at[f]
<1>3. Places(f) = Times(lanQ, f) + Times(wanQ, f) + Times(cur, f) + Times(toWan, f)
                  + Times(toLan, f) + tl + hd
  BY DEF Places
<1>4. /\ tl = IF \E w \in Worker : a = <<"tail", w>> THEN 1 ELSE 0
      /\ hd = IF \E w \in Worker : a = <<"held", w>> THEN 1 ELSE 0
  BY <1>1, StocksAre
<1> HIDE DEF tl, hd
<1>5. free[f] = IF a = Pool THEN 1 ELSE 0
  BY <1>1, Rows DEF PoolOk
<1>6. Times(lanQ, f) = IF \E w \in Worker : a = <<"lan", w>> THEN 1 ELSE 0
  <2> DEFINE X == DataJob \cup ArpJob
  <2>1. at \in [Frame -> Place] /\ lanQ \in [Worker -> Seq(X)] /\ RowOk(lanQ, Worker, "lan", at)
    BY <1>1, Rows
  <2> HIDE DEF X
  <2>2. (\A w \in Worker : at[f] # <<"lan", w>>) => Times(lanQ, f) = 0
    BY <2>1, TimesAre
  <2>3. \A w \in Worker : at[f] = <<"lan", w>> => Times(lanQ, f) = 1
    BY <2>1, TimesAre
  <2> QED
    BY <2>2, <2>3
<1>7. Times(wanQ, f) = IF \E w \in Worker : a = <<"wan", w>> THEN 1 ELSE 0
  <2> DEFINE X == [f : Frame, p : DataPkt \cup ArpPkt]
  <2>1. at \in [Frame -> Place] /\ wanQ \in [Worker -> Seq(X)] /\ RowOk(wanQ, Worker, "wan", at)
    BY <1>1, Rows
  <2> HIDE DEF X
  <2>2. (\A w \in Worker : at[f] # <<"wan", w>>) => Times(wanQ, f) = 0
    BY <2>1, TimesAre
  <2>3. \A w \in Worker : at[f] = <<"wan", w>> => Times(wanQ, f) = 1
    BY <2>1, TimesAre
  <2> QED
    BY <2>2, <2>3
<1>8. Times(cur, f) = IF \E t \in Thread : a = <<"cur", t>> THEN 1 ELSE 0
  <2>1. at \in [Frame -> Place] /\ cur \in [Thread -> Seq(Job)] /\ RowOk(cur, Thread, "cur", at)
    BY <1>1, Rows
  <2>2. (\A t \in Thread : at[f] # <<"cur", t>>) => Times(cur, f) = 0
    BY <2>1, TimesAre
  <2>3. \A t \in Thread : at[f] = <<"cur", t>> => Times(cur, f) = 1
    BY <2>1, TimesAre
  <2> QED
    BY <2>2, <2>3
<1>9. Times(toWan, f) = IF \E s \in TxSlot : a = <<"tx", s>> THEN 1 ELSE 0
  <2>1. /\ at \in [Frame -> Place] /\ toWan \in [TxSlot -> Seq(WanTx)]
        /\ RowOk(toWan, TxSlot, "tx", at)
    BY <1>1, Rows
  <2>2. (\A s \in TxSlot : at[f] # <<"tx", s>>) => Times(toWan, f) = 0
    BY <2>1, TimesAre
  <2>3. \A s \in TxSlot : at[f] = <<"tx", s>> => Times(toWan, f) = 1
    BY <2>1, TimesAre
  <2> QED
    BY <2>2, <2>3
<1>10. Times(toLan, f) = IF \E r \in Ring : a = <<"out", r>> THEN 1 ELSE 0
  <2>1. /\ at \in [Frame -> Place] /\ toLan \in [Ring -> Seq(LanTx)]
        /\ RowOk(toLan, Ring, "out", at)
    BY <1>1, Rows
  <2> HIDE DEF Ring
  <2>2. (\A r \in Ring : at[f] # <<"out", r>>) => Times(toLan, f) = 0
    BY <2>1, TimesAre
  <2>3. \A r \in Ring : at[f] = <<"out", r>> => Times(toLan, f) = 1
    BY <2>1, TimesAre
  <2> QED
    BY <2>2, <2>3
<1>11. a \in Place
  BY <1>1, Rows
<1> HIDE DEF a, Ring
<1> DEFINE Kind(tag) == IF a[1] = tag THEN 1 ELSE 0
<1>12. /\ free[f] = Kind("pool") /\ tl = Kind("tail") /\ hd = Kind("held")
       /\ Times(lanQ, f) = Kind("lan") /\ Times(wanQ, f) = Kind("wan")
       /\ Times(cur, f) = Kind("cur") /\ Times(toWan, f) = Kind("tx")
       /\ Times(toLan, f) = Kind("out")
       /\ a[1] \in {"pool", "tail", "held", "lan", "wan", "cur", "tx", "out"}
  <2>1. /\ Pool[1] = "pool"
        /\ \A w \in Worker : /\ <<"tail", w>>[1] = "tail" /\ <<"held", w>>[1] = "held"
                             /\ <<"lan", w>>[1] = "lan" /\ <<"wan", w>>[1] = "wan"
        /\ \A t \in Thread : <<"cur", t>>[1] = "cur"
        /\ \A s \in TxSlot : <<"tx", s>>[1] = "tx"
        /\ \A r \in Ring : <<"out", r>>[1] = "out"
    BY Tags
  <2>2. \/ a = Pool
        \/ \E w \in Worker : a \in {<<"tail", w>>, <<"held", w>>, <<"lan", w>>, <<"wan", w>>}
        \/ \E t \in Thread : a = <<"cur", t>>
        \/ \E s \in TxSlot : a = <<"tx", s>>
        \/ \E r \in Ring : a = <<"out", r>>
    BY <1>11 DEF Place, Ring
  <2>3. a[1] = "pool" <=> a = Pool
    BY <2>1, <2>2
  <2>4. a[1] = "tail" <=> \E w \in Worker : a = <<"tail", w>>
    BY <2>1, <2>2
  <2>5. a[1] = "held" <=> \E w \in Worker : a = <<"held", w>>
    BY <2>1, <2>2
  <2>6. a[1] = "lan" <=> \E w \in Worker : a = <<"lan", w>>
    BY <2>1, <2>2
  <2>7. a[1] = "wan" <=> \E w \in Worker : a = <<"wan", w>>
    BY <2>1, <2>2
  <2>8. a[1] = "cur" <=> \E t \in Thread : a = <<"cur", t>>
    BY <2>1, <2>2
  <2>9. a[1] = "tx" <=> \E s \in TxSlot : a = <<"tx", s>>
    BY <2>1, <2>2
  <2>10. a[1] = "out" <=> \E r \in Ring : a = <<"out", r>>
    BY <2>1, <2>2
  <2>11. a[1] \in {"pool", "tail", "held", "lan", "wan", "cur", "tx", "out"}
    BY <2>1, <2>2
  <2> QED
    BY <1>4, <1>5, <1>6, <1>7, <1>8, <1>9, <1>10, <2>3, <2>4, <2>5, <2>6, <2>7, <2>8, <2>9,
       <2>10, <2>11
<1>13. ASSUME NEW x \in {"pool", "tail", "held", "lan", "wan", "cur", "tx", "out"}
       PROVE  LET K(tag) == IF x = tag THEN 1 ELSE 0 IN
              K("pool") + (K("lan") + K("wan") + K("cur") + K("tx") + K("out") + K("tail")
                           + K("held")) = 1
  OBVIOUS
<1> QED
  BY <1>3, <1>12, <1>13

(* FrameOwnedOnce for every site whose ARPs keep to the rule: no frame is  *)
(* leaked, freed twice or in two queues, whatever encryption, lookup, full *)
(* ring or empty pool (dp_ring_push, split_tail_take, udp_reorder_drop)    *)
(* stops a packet on its way.                                              *)
THEOREM FramesOwned == ASSUME ArpsOwned PROVE Spec => []FrameOwnedOnce
<1>1. Init => DataType /\ FrameInv
  BY InitType, FrameInitial
<1>2. DataType /\ FrameInv /\ [Next]_vars => (DataType /\ FrameInv)'
  BY NextType, FrameStep
<1>3. DataType /\ FrameInv => FrameOwnedOnce
  BY FramesCount
<1> QED
  BY <1>1, <1>2, <1>3, PTL DEF Spec
=============================================================================
