---------------------------- MODULE NeRingProofs ----------------------------
(* Proofs about the packet ring, for every number of producers and frames, *)
(* every capacity and every width of the counters that the capacity        *)
(* divides.                                                                *)
EXTENDS NeRing, FiniteSetTheorems, SequenceTheorems, TLAPS

(***************************************************************************)
(* Arithmetic of the free-running counters.                                *)
(***************************************************************************)

(* Quotient and remainder.                                                 *)
LEMMA DivMod ==
  ASSUME NEW a \in Nat, NEW d \in Nat \ {0}
  PROVE  a = d * (a \div d) + (a % d) /\ a % d \in 0..(d - 1) /\ a \div d \in Nat
OBVIOUS

(* They are unique.                                                        *)
LEMMA DivModUnique ==
  ASSUME NEW d \in Nat \ {0}, NEW q \in Int, NEW s \in Int,
         NEW r \in 0..(d - 1), NEW t \in 0..(d - 1), d * q + r = d * s + t
  PROVE  q = s /\ r = t
<1>1. ASSUME NEW x \in Int, NEW y \in Int, x < y PROVE d * x + d <= d * y
  <2> DEFINE z == y - x - 1
  <2>1. z \in Nat
    BY <1>1
  <2>2. ASSUME NEW u \in Nat PROVE d * u >= 0
    OBVIOUS
  <2>3. d * z >= 0
    BY <2>1, <2>2
  <2>4. d * z = d * y - d * x - d
    OBVIOUS
  <2> QED
    BY <2>3, <2>4
<1>2. ~(q < s) /\ ~(s < q)
  BY <1>1
<1>3. q = s
  BY <1>2
<1> QED
  BY <1>3

(* Multiples of the divisor do not change the remainder.                   *)
LEMMA ModShift ==
  ASSUME NEW a \in Nat, NEW d \in Nat \ {0}, NEW k \in Nat
  PROVE  (d * k + a) % d = a % d
<1> DEFINE b == d * k + a
<1>1. a = d * (a \div d) + (a % d) /\ a % d \in 0..(d - 1) /\ a \div d \in Nat
  BY DivMod
<1>2. b \in Nat
  OBVIOUS
<1>3. b = d * (b \div d) + (b % d) /\ b % d \in 0..(d - 1) /\ b \div d \in Nat
  BY <1>2, DivMod
<1>4. b = d * (k + (a \div d)) + (a % d)
  BY <1>1
<1>5. k + (a \div d) \in Int /\ b \div d \in Int
  BY <1>1, <1>3
<1>6. \A q, s \in Int, r, t \in 0..(d - 1) : d * q + r = d * s + t => r = t
  BY DivModUnique
<1> QED
  BY <1>1, <1>3, <1>4, <1>5, <1>6

(* Two numbers less than the divisor apart have different remainders.      *)
LEMMA ModApart ==
  ASSUME NEW d \in Nat \ {0}, NEW a \in Nat, NEW b \in Nat, a < b, b < a + d
  PROVE  a % d # b % d
<1> SUFFICES ASSUME a % d = b % d PROVE FALSE
  OBVIOUS
<1>1. PICK q \in Nat : a = d * q + (a % d)
  BY DivMod
<1>2. PICK s \in Nat : b = d * s + (a % d)
  BY DivMod
<1>3. d * s - d * q = b - a
  BY <1>1, <1>2, DivMod
<1>4. s - q \in Int /\ d * (s - q) = b - a /\ b - a \in 0..(d - 1) /\ b - a # 0
  BY <1>3
<1>5. d * (s - q) + 0 = d * 0 + (b - a)
  BY <1>4
<1>6. \A x, y \in Int, r, t \in 0..(d - 1) : d * x + r = d * y + t => r = t
  BY DivModUnique
<1> QED
  BY <1>4, <1>5, <1>6

(* The sizes, one fact each.                                               *)
LEMMA Sizes ==
  /\ Cap \in Nat \ {0} /\ Cap > 1 /\ CntMod \in Nat \ {0} /\ CntMod > Cap
  /\ Batch \in Nat \ {0}
BY RingAssumption

(* The counters wrap at a multiple of the capacity.                        *)
LEMMA CapDivides == \E k \in Nat : CntMod = Cap * k
<1>1. CntMod = Cap * (CntMod \div Cap) + (CntMod % Cap) /\ CntMod \div Cap \in Nat
  BY DivMod, RingAssumption
<1> QED
  BY <1>1, RingAssumption

(* A counter that is advanced wraps at most once.                          *)
LEMMA WrapOnce ==
  ASSUME NEW a \in Nat, a < 2 * CntMod
  PROVE  a % CntMod = IF a < CntMod THEN a ELSE a - CntMod
<1>1. CASE a < CntMod
  BY <1>1, Sizes
<1>2. CASE a >= CntMod
  <2> DEFINE c == a - CntMod
  <2>1. c \in Nat /\ c < CntMod
    BY <1>2, Sizes
  <2>2. (CntMod * 1 + c) % CntMod = c % CntMod
    BY <2>1, Sizes, ModShift
  <2>3. c % CntMod = c
    BY <2>1, Sizes
  <2> QED
    BY <1>2, <2>2, <2>3, Sizes
<1> QED
  BY <1>1, <1>2, Sizes

(* A wrapped counter names the same place of the buffer.                   *)
LEMMA WrapPlace ==
  ASSUME NEW a \in Nat, a < 2 * CntMod, NEW i \in Nat
  PROVE  /\ a % CntMod \in 0..(CntMod - 1)
         /\ ((a % CntMod) + i) % Cap = (a + i) % Cap
<1>1. PICK k \in Nat : CntMod = Cap * k
  BY CapDivides
<1>0. a % CntMod = IF a < CntMod THEN a ELSE a - CntMod
  BY WrapOnce
<1>2. CASE a < CntMod
  BY <1>0, <1>2, Sizes
<1>3. CASE a >= CntMod
  <2> DEFINE c == a - CntMod + i
  <2>1. c \in Nat /\ a + i = Cap * k + c
    BY <1>1, <1>3
  <2>2. (Cap * k + c) % Cap = c % Cap
    BY <2>1, Sizes, ModShift
  <2>3. a % CntMod = a - CntMod
    BY <1>0, <1>3, Sizes
  <2> QED
    BY <1>3, <2>1, <2>2, <2>3, Sizes
<1> QED
  BY <1>2, <1>3, Sizes

(***************************************************************************)
(* What the counters say about the ring.                                   *)
(***************************************************************************)

Distance(h, t) == (h + CntMod - t) % CntMod

Counters == 0..(CntMod - 1)

(* ne_ring_count, without the remainder.                                   *)
LEMMA DistanceIs ==
  ASSUME NEW h \in Counters, NEW t \in Counters
  PROVE  /\ Distance(h, t) = IF h >= t THEN h - t ELSE h + CntMod - t
         /\ Distance(h, t) \in Counters
         /\ Distance(h, t) = 0 <=> h = t
<1>1. h + CntMod - t \in Nat /\ h + CntMod - t < 2 * CntMod
  BY Sizes DEF Counters
<1> DEFINE a == h + CntMod - t
<1>2. Distance(h, t) = IF a < CntMod THEN a ELSE a - CntMod
  BY <1>1, WrapOnce DEF Distance
<1> QED
  BY <1>2, Sizes DEF Counters

(* The place behind the last descriptor is head's.                         *)
LEMMA HeadPlace ==
  ASSUME NEW h \in Counters, NEW t \in Counters, NEW i \in Nat
  PROVE  (t + Distance(h, t) + i) % Cap = (h + i) % Cap
<1>1. CASE h >= t
  <2>1. t + Distance(h, t) = h
    BY <1>1, DistanceIs DEF Counters
  <2> QED
    BY <2>1
<1>2. CASE h < t
  <2>1. t + Distance(h, t) + i = h + CntMod + i
    BY <1>2, DistanceIs, Sizes DEF Counters
  <2>2. h + CntMod \in Nat /\ h + CntMod < 2 * CntMod
    BY Sizes DEF Counters
  <2>3. (((h + CntMod) % CntMod) + i) % Cap = (h + CntMod + i) % Cap
    BY <2>2, WrapPlace
  <2>4. (h + CntMod) % CntMod = h
    BY <2>2, WrapOnce, Sizes DEF Counters
  <2> QED
    BY <2>1, <2>3, <2>4
<1> QED
  BY <1>1, <1>2 DEF Counters

(* Advancing head makes room for n descriptors.                            *)
LEMMA DistancePush ==
  ASSUME NEW h \in Counters, NEW t \in Counters, NEW n \in Nat, Distance(h, t) + n < CntMod
  PROVE  /\ (h + n) % CntMod \in Counters
         /\ Distance((h + n) % CntMod, t) = Distance(h, t) + n
<1> DEFINE a == h + n
<1>1. a \in Nat /\ a < 2 * CntMod
  BY DistanceIs, Sizes DEF Counters
<1> DEFINE w == a % CntMod
<1> HIDE DEF a, w
<1>2. w = IF a < CntMod THEN a ELSE a - CntMod
  BY <1>1, WrapOnce DEF w
<1>3. w \in Counters
  BY <1>1, <1>2, Sizes DEF Counters
<1>4. Distance(w, t) = IF w >= t THEN w - t ELSE w + CntMod - t
  BY <1>3, DistanceIs
<1>5. Distance(h, t) = IF h >= t THEN h - t ELSE h + CntMod - t
  BY DistanceIs
<1>6. Distance(w, t) = Distance(h, t) + n
  BY <1>1, <1>2, <1>4, <1>5, Sizes DEF Counters, a
<1> QED
  BY <1>3, <1>6 DEF w, a

(* Advancing tail takes one.                                               *)
LEMMA DistancePop ==
  ASSUME NEW h \in Counters, NEW t \in Counters, Distance(h, t) > 0
  PROVE  /\ (t + 1) % CntMod \in Counters
         /\ Distance(h, (t + 1) % CntMod) = Distance(h, t) - 1
<1> DEFINE a == t + 1
<1>1. a \in Nat /\ a < 2 * CntMod
  BY Sizes DEF Counters
<1> DEFINE w == a % CntMod
<1> HIDE DEF a, w
<1>2. w = IF a < CntMod THEN a ELSE a - CntMod
  BY <1>1, WrapOnce DEF w
<1>3. w \in Counters
  BY <1>1, <1>2, Sizes DEF Counters
<1>4. Distance(h, w) = IF h >= w THEN h - w ELSE h + CntMod - w
  BY <1>3, DistanceIs
<1>5. Distance(h, t) = IF h >= t THEN h - t ELSE h + CntMod - t
  BY DistanceIs
<1>6. Distance(h, w) = Distance(h, t) - 1
  BY <1>1, <1>2, <1>4, <1>5, Sizes DEF Counters, a
<1> QED
  BY <1>3, <1>6 DEF w, a

(***************************************************************************)
(* The invariant of the ring.                                              *)
(***************************************************************************)

Pushing == {"locked", "room", "second", "written"}

(* A producer past the lock holds it, the room it found is still there,    *)
(* and what it wrote is in the buffer.                                     *)
ProdInv ==
  \A p \in Producers :
    /\ ppc[p] = "idle" => held[p] = <<>>
    /\ ppc[p] # "idle" => Len(held[p]) \in {1, 2}
    /\ ppc[p] \in Pushing => pushLock = p
    /\ ppc[p] = "second" => Len(held[p]) = 2
    /\ ppc[p] \in {"room", "second", "written"} => Count + Len(held[p]) <= Cap
    /\ ppc[p] \in {"second", "written"} => buf[head % Cap] = Items(held[p])[1]
    /\ ppc[p] = "written" /\ Len(held[p]) = 2 => buf[(head + 1) % Cap] = Items(held[p])[2]

(* A consumer inside a pop is alone there; its copies are those of the     *)
(* descriptor at tail.                                                     *)
ConsInv ==
  /\ \A c \in Consumers :
       /\ cpc[c] \in {"tail", "copied"} => ctail[c] = tail /\ (PopLocked => popLock = c)
       /\ cpc[c] = "copied" => Count > 0 /\ cur[c] = buf[tail % Cap]
  /\ cpc[TX] \in {"pop", "tail", "copied"} => reserved > 0

RingInv == TypeOK /\ ProdInv /\ ConsInv

(* Rings that are flushed have a pop lock, or there is no flush.           *)
PopsExclude == PopLocked \/ ~Flusher

(* The ring's count is the distance of its counters.                       *)
LEMMA CountIs ==
  /\ Count = Distance(head, tail)
  /\ Count' = Distance(head', tail')
BY DEF Count, Distance

(* The ring is a sequence of descriptors.                                  *)
LEMMA QueueType ==
  ASSUME TypeOK
  PROVE  /\ Count \in Nat /\ Count <= Cap
         /\ Queue \in Seq(Item) /\ Len(Queue) = Count
         /\ \A i \in 1..Count : Queue[i] = buf[(tail + i - 1) % Cap]
<1>1. Count \in Nat /\ Count <= Cap
  BY CountIs, DistanceIs DEF TypeOK, Counters
<1>2. ASSUME NEW i \in 1..Count PROVE buf[(tail + i - 1) % Cap] \in Item
  <2>1. tail + i - 1 \in Nat
    BY <1>1 DEF TypeOK
  <2>2. (tail + i - 1) % Cap \in 0..(Cap - 1)
    BY <2>1, DivMod, Sizes
  <2> QED
    BY <2>2 DEF TypeOK
<1> QED
  BY <1>1, <1>2 DEF Queue

(* The places of a ring that is not full.                                  *)
LEMMA FreePlace ==
  ASSUME TypeOK, NEW j \in Nat, Count + j < Cap
  PROVE  /\ (head + j) % Cap \in 0..(Cap - 1)
         /\ \A i \in 1..Count : (tail + i - 1) % Cap # (head + j) % Cap
<1>1. head \in Counters /\ tail \in Counters /\ Count \in Nat
  BY QueueType DEF TypeOK, Counters
<1>2. (tail + Count + j) % Cap = (head + j) % Cap
  BY <1>1, HeadPlace, CountIs
<1>3. ASSUME NEW i \in 1..Count PROVE (tail + i - 1) % Cap # (tail + Count + j) % Cap
  <2> DEFINE a == tail + i - 1
             b == tail + Count + j
  <2>1. a \in Nat /\ b \in Nat /\ a < b /\ b < a + Cap
    BY <1>1, Sizes DEF Counters
  <2> HIDE DEF a, b
  <2>2. a % Cap # b % Cap
    BY <2>1, ModApart, Sizes
  <2> QED
    BY <2>2 DEF a, b
<1>4. head + j \in Nat
  BY <1>1 DEF Counters
<1> QED
  BY <1>2, <1>3, <1>4, DivMod, Sizes

(* Writing behind head is invisible.                                       *)
LEMMA WriteQueue ==
  ASSUME TypeOK, NEW j \in Nat, Count + j < Cap, NEW x,
         buf' = [buf EXCEPT ![(head + j) % Cap] = x], UNCHANGED <<head, tail>>
  PROVE  /\ Count' = Count
         /\ Queue' = Queue
         /\ buf'[(head + j) % Cap] = x
         /\ Count > 0 => buf'[tail % Cap] = buf[tail % Cap]
<1>1. Count' = Count
  BY DEF Count
<1>2. \A i \in 1..Count : buf'[(tail + i - 1) % Cap] = buf[(tail + i - 1) % Cap]
  BY FreePlace
<1>3. Count > 0 => 1 \in 1..Count /\ tail + 1 - 1 = tail
  BY QueueType DEF TypeOK
<1>4. Count > 0 => buf'[tail % Cap] = buf[tail % Cap]
  BY <1>2, <1>3
<1>5. Queue' = Queue
  BY <1>1, <1>2 DEF Queue
<1>6. buf'[(head + j) % Cap] = x
  BY FreePlace DEF TypeOK
<1> QED
  BY <1>1, <1>4, <1>5, <1>6

(* Advancing head appends what was written there.                          *)
LEMMA PublishQueue ==
  ASSUME TypeOK, NEW xs, xs \in Seq(Item), Len(xs) \in {1, 2}, Count + Len(xs) <= Cap,
         \A i \in 1..Len(xs) : buf[(head + i - 1) % Cap] = xs[i],
         head' = (head + Len(xs)) % CntMod, UNCHANGED <<tail, buf>>
  PROVE  /\ head' \in Counters /\ Count' = Count + Len(xs)
         /\ Queue' = Queue \o xs
<1>1. head \in Counters /\ tail \in Counters /\ Count \in Nat /\ Len(xs) \in Nat
  BY QueueType DEF TypeOK, Counters
<1>2. head' \in Counters /\ Count' = Count + Len(xs)
  BY <1>1, DistancePush, CountIs, Sizes
<1>3. Queue' = [i \in 1..(Count + Len(xs)) |-> buf[(tail + i - 1) % Cap]]
  BY <1>2 DEF Queue
<1>4. ASSUME NEW i \in (Count + 1)..(Count + Len(xs))
      PROVE  buf[(tail + i - 1) % Cap] = xs[i - Count]
  <2> DEFINE k == i - Count - 1
  <2>1. k \in Nat /\ k + 1 \in 1..Len(xs) /\ tail + i - 1 = tail + Count + k
        /\ i - Count = k + 1 /\ head + (k + 1) - 1 = head + k
    BY <1>1 DEF Counters
  <2> HIDE DEF k
  <2>2. (tail + Count + k) % Cap = (head + k) % Cap
    BY <1>1, <2>1, HeadPlace, CountIs
  <2>3. buf[(head + k) % Cap] = xs[k + 1]
    BY <2>1
  <2> QED
    BY <2>1, <2>2, <2>3
<1>5. Queue \in Seq(Item) /\ Len(Queue) = Count
      /\ \A i \in 1..Count : Queue[i] = buf[(tail + i - 1) % Cap]
  BY QueueType
<1> DEFINE r == Queue \o xs
<1>6. r \in Seq(Item) /\ Len(r) = Count + Len(xs)
      /\ \A i \in 1..(Count + Len(xs)) :
           r[i] = IF i <= Count THEN Queue[i] ELSE xs[i - Count]
  BY <1>5, ConcatProperties
<1> HIDE DEF r
<1>7. \A i \in 1..(Count + Len(xs)) : r[i] = buf[(tail + i - 1) % Cap]
  BY <1>1, <1>4, <1>5, <1>6
<1>8. r = [i \in 1..(Count + Len(xs)) |-> r[i]]
  BY <1>1, <1>6, LenProperties
<1>9. r = Queue'
  BY <1>3, <1>7, <1>8
<1> QED
  BY <1>2, <1>9 DEF r

(* Advancing tail takes the first descriptor.                              *)
LEMMA PopQueue ==
  ASSUME TypeOK, Count > 0, tail' = (tail + 1) % CntMod, UNCHANGED <<head, buf>>
  PROVE  /\ tail' \in Counters /\ Count' = Count - 1
         /\ Queue # <<>> /\ Queue' = Tail(Queue)
<1>1. head \in Counters /\ tail \in Counters /\ Count \in Nat
  BY QueueType DEF TypeOK, Counters
<1>2. tail' \in Counters /\ Count' = Count - 1
  BY <1>1, DistancePop, CountIs
<1>3. ASSUME NEW i \in 1..(Count - 1)
      PROVE  (tail' + i - 1) % Cap = (tail + (i + 1) - 1) % Cap
  <2> DEFINE a == tail + 1
             k == i - 1
  <2>1. a \in Nat /\ a < 2 * CntMod /\ k \in Nat
    BY <1>1, Sizes DEF Counters
  <2> HIDE DEF a, k
  <2>2. ((a % CntMod) + k) % Cap = (a + k) % Cap
    BY <2>1, WrapPlace
  <2>3. (a % CntMod) + k = tail' + i - 1 /\ a + k = tail + (i + 1) - 1
    BY <1>1, <1>2 DEF a, k
  <2> QED
    BY <2>2, <2>3
<1>4. Queue \in Seq(Item) /\ Len(Queue) = Count
      /\ \A i \in 1..Count : Queue[i] = buf[(tail + i - 1) % Cap]
  BY QueueType
<1>5. Queue' = [i \in 1..(Count - 1) |-> buf[(tail' + i - 1) % Cap]]
  BY <1>2 DEF Queue
<1>6. Queue # <<>> /\ Tail(Queue) = [i \in 1..(Count - 1) |-> Queue[i + 1]]
  <2>1. Queue # <<>>
    BY <1>4, EmptySeq
  <2>2. Tail(Queue) \in Seq(Item) /\ Len(Tail(Queue)) = Count - 1
        /\ \A i \in 1..(Count - 1) : Tail(Queue)[i] = Queue[i + 1]
    BY <1>1, <1>4, <2>1, HeadTailProperties
  <2>3. Tail(Queue) = [i \in 1..(Count - 1) |-> Tail(Queue)[i]]
    BY <2>2, LenProperties
  <2> QED
    BY <2>1, <2>2, <2>3
<1>7. \A i \in 1..(Count - 1) : buf[(tail' + i - 1) % Cap] = Queue[i + 1]
  BY <1>1, <1>3, <1>4
<1> QED
  BY <1>1, <1>2, <1>4, <1>5, <1>6, <1>7

(* The descriptors of a producer's frames.                                 *)
LEMMA ItemsType ==
  ASSUME NEW fs \in Seq(Frames), Len(fs) \in {1, 2}
  PROVE  /\ Items(fs) \in Seq(Item) /\ Len(Items(fs)) = Len(fs)
         /\ \A i \in 1..Len(fs) : Items(fs)[i].frame = fs[i]
         /\ Items(fs)[1] \in Item
         /\ Len(fs) = 2 => Items(fs)[2] \in Item
<1>1. ASSUME NEW i \in 1..Len(fs)
      PROVE  [frame |-> fs[i],
              mate |-> IF i < Len(fs) THEN fs[i + 1] ELSE NoFrame] \in Item
  <2>1. fs[i] \in Frames
    OBVIOUS
  <2>2. i < Len(fs) => fs[i + 1] \in Frames
    OBVIOUS
  <2> QED
    BY <2>1, <2>2 DEF Item
<1> QED
  BY <1>1 DEF Items

(* Freed frames are counted in the pool.                                   *)
LEMMA FreedType ==
  ASSUME pool \in [Frames -> Nat], NEW fs \in Seq(Frames)
  PROVE  Freed(fs) \in [Frames -> Nat]
<1>1. ASSUME NEW f \in Frames PROVE Cardinality({i \in 1..Len(fs) : fs[i] = f}) \in Nat
  <2>1. IsFiniteSet(1..Len(fs))
    BY FS_Interval
  <2> QED
    BY <2>1, FS_Subset, FS_CardinalityType
<1> QED
  BY <1>1 DEF Freed

(* Steps that leave the ring itself alone.                                 *)
LEMMA SameRing ==
  ASSUME UNCHANGED <<head, tail, buf>>
  PROVE  Count' = Count /\ Queue' = Queue
BY DEF Count, Queue

(* A packet and the frame of its tail fragment.                            *)
LEMMA AppendOne ==
  ASSUME NEW fs \in Seq(Frames), Len(fs) = 1, NEW f \in Frames
  PROVE  /\ Append(fs, f) \in Seq(Frames) /\ Len(Append(fs, f)) = 2
         /\ Append(fs, f)[1] = fs[1] /\ Append(fs, f)[2] = f
<1>1. Append(fs, f) \in Seq(Frames)
  BY AppendProperties
<1>2. Len(Append(fs, f)) = Len(fs) + 1
  BY AppendProperties
<1>3. \A i \in 1..Len(fs) : Append(fs, f)[i] = fs[i]
  <2>1. \A S : \A seq \in Seq(S), elt \in S :
          \A i \in 1..Len(seq) : Append(seq, elt)[i] = seq[i]
    BY AppendProperties
  <2> QED
    BY <2>1, Zenon
<1>4. Append(fs, f)[Len(fs) + 1] = f
  BY AppendProperties
<1> QED
  BY <1>1, <1>2, <1>3, <1>4

(* What is not full has room.                                              *)
LEMMA NotFull ==
  ASSUME Count \in Nat, NEW n \in {1, 2}, ~Full(n)
  PROVE  Count + n <= Cap
BY Sizes DEF Full

(* One lemma per action: it keeps the invariant, and what it does to the    *)
(* queue.                                                                   *)
LEMMA ReceivePreserves ==
  ASSUME RingInv, NEW p \in Producers, NEW f \in Frames, Receive(p, f)
  PROVE  RingInv'
<1>1. TypeOK'
  BY SameRing DEF TypeOK, RingInv, Receive, consVars
<1>2. ProdInv'
  BY SameRing DEF ProdInv, TypeOK, Pushing, RingInv, Receive
<1>3. ConsInv'
  BY SameRing DEF ConsInv, RingInv, Receive, consVars
<1> QED
  BY <1>1, <1>2, <1>3 DEF RingInv

(* A second frame for the tail fragment.                                    *)
LEMMA SplitPreserves ==
  ASSUME RingInv, NEW p \in Producers, NEW f \in Frames, Split(p, f)
  PROVE  RingInv'
<1> DEFINE fs == Append(held[p], f)
<1>0. fs \in Seq(Frames) /\ Len(fs) = 2
  <2>1. held[p] \in Seq(Frames) /\ Len(held[p]) = 1
    BY DEF TypeOK, RingInv, Split
  <2> QED
    BY <2>1, AppendOne
<1> HIDE DEF fs
<1>h. /\ ppc[p] = "ready" /\ pool[f] > 0
      /\ pool' = [pool EXCEPT ![f] = @ - 1]
      /\ held' = [held EXCEPT ![p] = fs]
      /\ UNCHANGED <<head, tail, buf, pushLock, popLock, nic, ppc, consVars>>
  BY DEF fs, Split
<1>1. TypeOK'
  <2>1. held' \in [Producers -> Seq(Frames)] /\ \A q \in Producers : Len(held'[q]) <= 2
    <3>1. held \in [Producers -> Seq(Frames)] /\ held' = [held EXCEPT ![p] = fs]
      BY <1>h DEF TypeOK, RingInv
    <3>2. held' \in [Producers -> Seq(Frames)]
      BY <1>0, <3>1, Zenon
    <3>3. \A q \in Producers : held'[q] = IF q = p THEN fs ELSE held[q]
      BY <3>1, Zenon
    <3>4. \A q \in Producers : Len(held[q]) <= 2
      BY DEF TypeOK, RingInv
    <3>5. Len(fs) <= 2
      BY <1>0
    <3>6. \A q \in Producers : Len(held'[q]) <= 2
      BY <3>3, <3>4, <3>5, Zenon
    <3> QED
      BY <3>2, <3>6
  <2>2. pool' \in [Frames -> Nat]
    BY <1>h DEF TypeOK, RingInv
  <2> QED
    BY <1>h, <2>1, <2>2, SameRing DEF TypeOK, RingInv, consVars
<1>2. ProdInv'
  BY <1>0, <1>h, SameRing DEF ProdInv, Pushing, RingInv
<1>3. ConsInv'
  BY <1>h, SameRing DEF ConsInv, RingInv, consVars
<1> QED
  BY <1>1, <1>2, <1>3 DEF RingInv

(* A pair that finds no room gives its frames back.                         *)
LEMMA SplitNoRoomPreserves ==
  ASSUME RingInv, NEW p \in Producers, SplitNoRoom(p)
  PROVE  RingInv'
<1>1. TypeOK'
  BY SameRing, FreedType DEF TypeOK, RingInv, SplitNoRoom, Dropped, consVars
<1>2. ProdInv'
  BY SameRing DEF ProdInv, TypeOK, Pushing, RingInv, SplitNoRoom, Dropped
<1>3. ConsInv'
  BY SameRing DEF ConsInv, RingInv, SplitNoRoom, consVars
<1> QED
  BY <1>1, <1>2, <1>3 DEF RingInv

(* The push lock is free when it is taken: nobody else is past it.          *)
LEMMA PushLockPreserves ==
  ASSUME RingInv, NEW p \in Producers, PushLock(p)
  PROVE  RingInv'
<1>1. TypeOK'
  BY SameRing DEF TypeOK, RingInv, PushLock, consVars
<1>2. ProdInv'
  BY NameAssumption DEF ProdInv, Pushing, RingInv, PushLock
<1>3. ConsInv'
  BY SameRing DEF ConsInv, RingInv, PushLock, consVars
<1> QED
  BY <1>1, <1>2, <1>3 DEF RingInv

(* A full ring: the packet is dropped and the lock given back.              *)
LEMMA PushFullPreserves ==
  ASSUME RingInv, NEW p \in Producers, PushFull(p)
  PROVE  RingInv'
<1>1. TypeOK'
  BY SameRing, FreedType DEF TypeOK, RingInv, PushFull, Dropped, consVars
<1>2. ProdInv'
  BY DEF ProdInv, TypeOK, Pushing, RingInv, PushFull, Dropped
<1>3. ConsInv'
  BY SameRing DEF ConsInv, RingInv, PushFull, consVars
<1> QED
  BY <1>1, <1>2, <1>3 DEF RingInv

(* The room that was found stays: only the holder of the lock takes any.    *)
LEMMA PushRoomPreserves ==
  ASSUME RingInv, NEW p \in Producers, PushRoom(p)
  PROVE  RingInv'
<1>1. TypeOK'
  BY SameRing DEF TypeOK, RingInv, PushRoom, consVars
<1>0. Count + Len(held[p]) <= Cap
  <2>1. Len(held[p]) \in {1, 2} /\ Count \in Nat /\ ~Full(Len(held[p]))
    BY QueueType DEF ProdInv, RingInv, PushRoom
  <2> QED
    BY <2>1, NotFull
<1>2. ProdInv'
  BY <1>0, SameRing DEF ProdInv, Pushing, RingInv, PushRoom
<1>3. ConsInv'
  BY SameRing DEF ConsInv, RingInv, PushRoom, consVars
<1> QED
  BY <1>1, <1>2, <1>3 DEF RingInv

(* The first descriptor is written behind head, where nobody looks.         *)
LEMMA WritePreserves ==
  ASSUME RingInv, NEW p \in Producers, Write(p)
  PROVE  RingInv' /\ Queue' = Queue
<1> DEFINE x == Items(held[p])[1]
<1>0. held[p] \in Seq(Frames)
  BY DEF TypeOK, RingInv
<1>1. Len(held[p]) \in {1, 2} /\ Count + Len(held[p]) <= Cap
  BY DEF ProdInv, RingInv, Write
<1>2. Count + 0 < Cap /\ head + 0 = head
  <2>1. Count \in Nat /\ head \in Nat
    BY QueueType DEF TypeOK, RingInv
  <2> QED
    BY <1>1, <2>1, Sizes
<1>3. x \in Item
  BY <1>0, <1>1, ItemsType
<1> HIDE DEF x
<1>4. buf' = [buf EXCEPT ![(head + 0) % Cap] = x]
  BY <1>2 DEF x, Write
<1>5. /\ Count' = Count /\ Queue' = Queue /\ buf'[head % Cap] = x
      /\ Count > 0 => buf'[tail % Cap] = buf[tail % Cap]
  BY <1>2, <1>4, WriteQueue DEF RingInv, Write
<1>6. TypeOK'
  BY <1>3, <1>4, <1>5 DEF TypeOK, RingInv, Write, consVars
<1>7. ProdInv'
  <2>1. ASSUME NEW q \in Producers, q # p PROVE ppc'[q] = ppc[q] /\ ppc[q] \notin Pushing
    BY <2>1 DEF ProdInv, Pushing, RingInv, Write
  <2>2. ppc'[p] = IF Len(held[p]) = 1 THEN "written" ELSE "second"
    BY DEF TypeOK, RingInv, Write
  <2> QED
    BY <1>1, <1>5, <2>1, <2>2 DEF ProdInv, Pushing, x, RingInv, Write
<1>8. ConsInv'
  BY <1>5 DEF ConsInv, RingInv, Write, consVars
<1> QED
  BY <1>5, <1>6, <1>7, <1>8 DEF RingInv

(* The second one beside it.                                                *)
LEMMA WriteSecondPreserves ==
  ASSUME RingInv, NEW p \in Producers, WriteSecond(p)
  PROVE  RingInv' /\ Queue' = Queue
<1> DEFINE x == Items(held[p])[2]
<1>1. Len(held[p]) = 2 /\ Count + Len(held[p]) <= Cap /\ held[p] \in Seq(Frames)
  BY DEF ProdInv, TypeOK, RingInv, WriteSecond
<1>2. Count + 1 < Cap /\ Count \in Nat
  BY <1>1, QueueType, Sizes DEF RingInv
<1>3. x \in Item
  BY <1>1, ItemsType
<1> HIDE DEF x
<1>4. buf' = [buf EXCEPT ![(head + 1) % Cap] = x]
  BY DEF x, WriteSecond
<1>5. /\ Count' = Count /\ Queue' = Queue /\ buf'[(head + 1) % Cap] = x
      /\ Count > 0 => buf'[tail % Cap] = buf[tail % Cap]
  BY <1>2, <1>4, WriteQueue DEF RingInv, WriteSecond
<1>6. head % Cap # (head + 1) % Cap
  <2>1. head \in Nat
    BY DEF TypeOK, RingInv
  <2> QED
    <3>1. head + 1 \in Nat /\ head < head + 1 /\ head + 1 < head + Cap
      BY <2>1, Sizes
    <3> QED
      BY <2>1, <3>1, ModApart, Sizes
<1>7. buf'[head % Cap] = buf[head % Cap]
  BY <1>4, <1>6
<1>8. TypeOK'
  BY <1>3, <1>4, <1>5 DEF TypeOK, RingInv, WriteSecond, consVars
<1>9. ProdInv'
  BY <1>1, <1>5, <1>7 DEF ProdInv, Pushing, x, RingInv, WriteSecond
<1>10. ConsInv'
  BY <1>5 DEF ConsInv, RingInv, WriteSecond, consVars
<1> QED
  BY <1>5, <1>8, <1>9, <1>10 DEF RingInv

(* The store of head: what was written becomes visible at once.             *)
LEMMA PublishPreserves ==
  ASSUME RingInv, NEW p \in Producers, Publish(p)
  PROVE  RingInv' /\ Queue' = Queue \o Items(held[p]) /\ Count' = Count + Len(held[p])
<1> DEFINE xs == Items(held[p])
<1>1. Len(held[p]) \in {1, 2} /\ Count + Len(held[p]) <= Cap /\ held[p] \in Seq(Frames)
      /\ buf[head % Cap] = xs[1] /\ (Len(held[p]) = 2 => buf[(head + 1) % Cap] = xs[2])
  BY DEF ProdInv, TypeOK, RingInv, Publish
<1>2. xs \in Seq(Item) /\ Len(xs) = Len(held[p])
  BY <1>1, ItemsType
<1> HIDE DEF xs
<1>3. \A i \in 1..Len(xs) : buf[(head + i - 1) % Cap] = xs[i]
  <2>1. head + 1 - 1 = head /\ head + 2 - 1 = head + 1
    BY DEF TypeOK, RingInv
  <2> QED
    BY <1>1, <1>2, <2>1
<1>4. head' \in Counters /\ Count' = Count + Len(xs) /\ Queue' = Queue \o xs
  BY <1>1, <1>2, <1>3, PublishQueue DEF RingInv, Publish
<1>5. Count \in Nat
  BY QueueType DEF RingInv
<1>6. TypeOK'
  <2>1. Count' <= Cap
    BY <1>1, <1>2, <1>4, <1>5
  <2> QED
    BY <1>4, <2>1 DEF TypeOK, Counters, RingInv, Publish, consVars
<1>7. ProdInv'
  BY DEF ProdInv, TypeOK, Pushing, RingInv, Publish
<1>8. ConsInv'
  BY <1>1, <1>2, <1>4, <1>5 DEF ConsInv, RingInv, Publish, consVars
<1> QED
  BY <1>2, <1>4, <1>6, <1>7, <1>8 DEF xs, RingInv

(* Of two consumers only one is inside a pop.                              *)
LEMMA OneInside ==
  ASSUME PopsExclude, RingInv, NEW c \in Consumers, NEW d \in Consumers, c # d,
         cpc[c] \in {"tail", "copied"}
  PROVE  cpc[d] \notin {"tail", "copied"}
<1>1. PopLocked
  BY DEF PopsExclude, Consumers
<1> QED
  BY <1>1 DEF RingInv, ConsInv

(* A consumer enters a pop alone and reads tail.                            *)
LEMMA PopTailPreserves ==
  ASSUME PopsExclude, RingInv, NEW c \in Consumers, PopTail(c)
  PROVE  RingInv' /\ Queue' = Queue
<1>1. Count' = Count /\ Queue' = Queue
  BY SameRing DEF PopTail
<1>2. TypeOK'
  BY <1>1 DEF TypeOK, RingInv, PopTail, prodVars
<1>3. ProdInv'
  BY <1>1 DEF ProdInv, RingInv, PopTail, prodVars
<1>4. ConsInv'
  <2>1. ASSUME NEW d \in Consumers, d # c, PopLocked PROVE cpc[d] \notin {"tail", "copied"}
    BY <2>1, NameAssumption DEF ConsInv, RingInv, PopTail
  <2>2. ASSUME NEW d \in Consumers, d # c PROVE PopLocked
    BY <2>2 DEF PopsExclude, Consumers
  <2> QED
    BY <1>1, <2>1, <2>2 DEF ConsInv, TypeOK, RingInv, PopTail
<1> QED
  BY <1>1, <1>2, <1>3, <1>4 DEF RingInv

(* It finds the ring empty.                                                 *)
LEMMA PopEmptyPreserves ==
  ASSUME PopsExclude, RingInv, NEW c \in Consumers, PopEmpty(c)
  PROVE  RingInv' /\ Queue' = Queue
<1>1. Count' = Count /\ Queue' = Queue
  BY SameRing DEF PopEmpty
<1>2. TypeOK'
  BY <1>1 DEF TypeOK, RingInv, PopEmpty, prodVars
<1>3. ProdInv'
  BY <1>1 DEF ProdInv, RingInv, PopEmpty, prodVars
<1>4. ConsInv'
  <2>1. ASSUME NEW d \in Consumers, d # c PROVE cpc[d] \notin {"tail", "copied"}
    BY <2>1, OneInside DEF PopEmpty
  <2> QED
    BY <1>1, <2>1 DEF ConsInv, TypeOK, RingInv, PopEmpty
<1> QED
  BY <1>1, <1>2, <1>3, <1>4 DEF RingInv

(* It copies the descriptor at tail, which no producer overwrites.          *)
LEMMA PopCopyPreserves ==
  ASSUME PopsExclude, RingInv, NEW c \in Consumers, PopCopy(c)
  PROVE  RingInv' /\ Queue' = Queue
<1>1. Count' = Count /\ Queue' = Queue
  BY SameRing DEF PopCopy
<1>2. ctail[c] = tail /\ tail # head
  BY DEF ConsInv, RingInv, PopCopy
<1>3. Count > 0
  <2>1. head \in Counters /\ tail \in Counters /\ Count \in Nat
    BY QueueType DEF TypeOK, RingInv, Counters
  <2> QED
    BY <1>2, <2>1, CountIs, DistanceIs
<1>4. buf[tail % Cap] \in Item
  <2>1. tail \in Nat
    BY DEF TypeOK, RingInv
  <2> QED
    BY <2>1, DivMod, Sizes DEF TypeOK, RingInv
<1>5. TypeOK'
  BY <1>1, <1>2, <1>4 DEF TypeOK, RingInv, PopCopy, prodVars
<1>6. ProdInv'
  BY <1>1 DEF ProdInv, RingInv, PopCopy, prodVars
<1>7. ConsInv'
  BY <1>1, <1>2, <1>3 DEF ConsInv, TypeOK, RingInv, PopCopy
<1> QED
  BY <1>1, <1>5, <1>6, <1>7 DEF RingInv

(* The store of tail: the descriptor it copied is the one that leaves.      *)
LEMMA PopStorePreserves ==
  ASSUME PopsExclude, RingInv, NEW c \in Consumers, PopStore(c)
  PROVE  /\ RingInv'
         /\ Queue # <<>> /\ cur[c] = Queue[1] /\ Queue' = Tail(Queue) /\ Count' = Count - 1
<1>1. ctail[c] = tail /\ Count > 0 /\ cur[c] = buf[tail % Cap]
  BY DEF ConsInv, RingInv, PopStore
<1>2. tail' \in Counters /\ Count' = Count - 1 /\ Queue # <<>> /\ Queue' = Tail(Queue)
  BY <1>1, PopQueue DEF RingInv, PopStore
<1>3. cur[c] = Queue[1]
  <2>1. 1 \in 1..Count /\ tail + 1 - 1 = tail
    BY <1>1, QueueType DEF TypeOK, RingInv
  <2> QED
    BY <1>1, <2>1, QueueType DEF RingInv
<1>4. cur[c] \in Item
  <2>1. tail \in Nat
    BY DEF TypeOK, RingInv
  <2> QED
    BY <1>1, <2>1, DivMod, Sizes DEF TypeOK, RingInv
<1>5. Count \in Nat /\ Count <= Cap
  BY QueueType DEF RingInv
<1>6. TypeOK'
  <2>1. pool' \in [Frames -> Nat]
    <3>1. cur[c].frame \in Frames
      BY <1>4 DEF Item
    <3>2. <<cur[c].frame>> \in Seq(Frames)
      BY <3>1
    <3>3. Freed(<<cur[c].frame>>) \in [Frames -> Nat]
      BY <3>2, FreedType DEF TypeOK, RingInv
    <3> QED
      BY <3>3 DEF TypeOK, RingInv, PopStore
  <2>2. hand' \in Seq(Item)
    <3>1. Append(hand, cur[c]) \in Seq(Item)
      BY <1>4, AppendProperties DEF TypeOK, RingInv
    <3> QED
      BY <3>1 DEF TypeOK, RingInv, PopStore
  <2>3. reserved' \in 0..Batch
    <3>1. c = TX => reserved > 0
      BY DEF ConsInv, RingInv, PopStore
    <3>2. reserved' = IF c = TX THEN reserved - 1 ELSE reserved
      BY DEF PopStore
    <3> QED
      BY <3>1, <3>2, Sizes DEF TypeOK, RingInv
  <2>4. cpc' \in [Consumers -> {"idle", "pop", "tail", "copied", "submit"}]
    BY DEF TypeOK, RingInv, PopStore
  <2>5. /\ cur' \in [Consumers -> Item \cup {Whole(NoFrame)}]
        /\ ctail' \in [Consumers -> 0..(CntMod - 1)]
    BY Sizes DEF TypeOK, RingInv, PopStore
  <2>6. Count' <= Cap /\ tail' \in 0..(CntMod - 1)
    BY <1>2, <1>5, Sizes DEF Counters
  <2> QED
    BY <2>1, <2>2, <2>3, <2>4, <2>5, <2>6 DEF TypeOK, RingInv, PopStore,
       prodVars
<1>7. ProdInv'
  BY <1>2, <1>5, Sizes DEF ProdInv, RingInv, PopStore, prodVars
<1>8. ConsInv'
  <2>1. ASSUME NEW d \in Consumers, d # c PROVE cpc[d] \notin {"tail", "copied"}
    BY <2>1, OneInside DEF PopStore
  <2>2. \A d \in Consumers : cpc'[d] \notin {"tail", "copied"}
    BY <2>1 DEF TypeOK, RingInv, PopStore
  <2>3. cpc'[TX] = "pop" => reserved' > 0
    <3>1. CASE c = TX
      <4>1. reserved \in Nat /\ reserved > 0 /\ reserved' = reserved - 1
        BY <3>1 DEF ConsInv, TypeOK, RingInv, PopStore
      <4>2. cpc'[TX] = "pop" => reserved # 1
        BY <3>1 DEF TypeOK, RingInv, PopStore
      <4> QED
        BY <4>1, <4>2
    <3>2. CASE c # TX
      <4>1. cpc' = [cpc EXCEPT ![c] = "pop"] /\ reserved' = reserved
        BY <3>2 DEF PopStore
      <4>2. cpc'[TX] = cpc[TX]
        BY <3>2, <4>1 DEF Consumers
      <4> QED
        BY <4>1, <4>2 DEF ConsInv, RingInv
    <3> QED
      BY <3>1, <3>2
  <2>4. TX \in Consumers
    BY DEF Consumers
  <2> QED
    BY <2>2, <2>3, <2>4 DEF ConsInv
<1> QED
  BY <1>2, <1>3, <1>6, <1>7, <1>8 DEF RingInv

(* A batch begins with room for at least one descriptor.                    *)
LEMMA TxBeginPreserves ==
  ASSUME RingInv, NEW n \in 1..Batch, TxBegin(n)
  PROVE  RingInv'
<1>0. reserved' \in 0..Batch
  BY DEF TxBegin
<1>1. TypeOK'
  BY <1>0, SameRing DEF TypeOK, RingInv, TxBegin, prodVars
<1>2. ProdInv'
  BY SameRing DEF ProdInv, RingInv, TxBegin, prodVars
<1>3. ConsInv'
  BY SameRing DEF ConsInv, RingInv, TxBegin
<1> QED
  BY <1>1, <1>2, <1>3 DEF RingInv

(* A flush begins.                                                          *)
LEMMA FlushBeginPreserves ==
  ASSUME RingInv, FlushBegin
  PROVE  RingInv'
<1>1. TypeOK'
  BY SameRing DEF TypeOK, RingInv, FlushBegin, prodVars
<1>2. ProdInv'
  BY SameRing DEF ProdInv, RingInv, FlushBegin, prodVars
<1>3. ConsInv'
  BY SameRing DEF ConsInv, RingInv, FlushBegin, TX, Flush
<1> QED
  BY <1>1, <1>2, <1>3 DEF RingInv

(* The batch goes to the NIC.                                               *)
LEMMA SubmitPreserves ==
  ASSUME RingInv, Submit
  PROVE  RingInv'
<1> DEFINE k(f) == Cardinality({i \in 1..Len(hand) : hand[i].frame = f})
<1>1. ASSUME NEW f \in Frames PROVE k(f) \in Nat
  <2>1. IsFiniteSet(1..Len(hand))
    BY FS_Interval
  <2> QED
    BY <2>1, FS_Subset, FS_CardinalityType
<1>h. nic' = [f \in Frames |-> nic[f] + k(f)]
  BY DEF Submit
<1> HIDE DEF k
<1>2. nic' \in [Frames -> Nat]
  BY <1>1, <1>h DEF TypeOK, RingInv
<1>r. reserved' \in 0..Batch /\ hand' \in Seq(Item)
  BY Sizes DEF Submit
<1>3. TypeOK'
  BY <1>2, <1>r, SameRing DEF TypeOK, RingInv, Submit, prodVars
<1>4. ProdInv'
  BY SameRing DEF ProdInv, RingInv, Submit, prodVars
<1>5. ConsInv'
  BY SameRing DEF ConsInv, RingInv, Submit
<1> QED
  BY <1>3, <1>4, <1>5 DEF RingInv

(* A frame comes back from the NIC.                                         *)
LEMMA CompletePreserves ==
  ASSUME RingInv, NEW f \in Frames, Complete(f)
  PROVE  RingInv'
<1>1. pool' \in [Frames -> Nat]
  <2>1. <<f>> \in Seq(Frames)
    OBVIOUS
  <2> QED
    BY <2>1, FreedType DEF TypeOK, RingInv, Complete
<1>2. nic' \in [Frames -> Nat]
  BY DEF TypeOK, RingInv, Complete
<1>3. TypeOK'
  BY <1>1, <1>2, SameRing DEF TypeOK, RingInv, Complete, prodVars, consVars
<1>4. ProdInv'
  BY SameRing DEF ProdInv, RingInv, Complete, prodVars
<1>5. ConsInv'
  BY SameRing DEF ConsInv, RingInv, Complete, consVars
<1> QED
  BY <1>3, <1>4, <1>5 DEF RingInv

(* Every step keeps the invariant of the ring.                             *)
LEMMA StepPreserves ==
  ASSUME PopsExclude, RingInv, [Next]_vars
  PROVE  RingInv'
<1>1. ASSUME NEW p \in Producers, Produce(p) PROVE RingInv'
  BY <1>1, ReceivePreserves, SplitPreserves, SplitNoRoomPreserves,
     PushLockPreserves, PushFullPreserves, PushRoomPreserves, WritePreserves,
     WriteSecondPreserves, PublishPreserves DEF Produce
<1>2. ASSUME NEW c \in Consumers, Pop(c) PROVE RingInv'
  BY <1>2, PopTailPreserves, PopEmptyPreserves, PopCopyPreserves,
     PopStorePreserves DEF Pop
<1>3. TX \in Consumers /\ (Flusher => Flush \in Consumers)
  BY DEF Consumers
<1>4. CASE Drain
  BY <1>2, <1>3, <1>4, TxBeginPreserves, SubmitPreserves DEF Drain
<1>5. CASE FlushStep
  BY <1>2, <1>3, <1>5, FlushBeginPreserves DEF FlushStep
<1>6. ASSUME NEW f \in Frames, Complete(f) PROVE RingInv'
  BY <1>6, CompletePreserves
<1>7. CASE UNCHANGED vars
  <2>1. Count' = Count
    BY <1>7, SameRing DEF vars
  <2>2. TypeOK'
    BY <1>7, <2>1 DEF RingInv, TypeOK, vars, prodVars, consVars
  <2>3. ProdInv' /\ ConsInv'
    BY <1>7, <2>1 DEF RingInv, ProdInv, ConsInv, vars, prodVars, consVars
  <2> QED
    BY <2>2, <2>3 DEF RingInv
<1> QED
  BY <1>1, <1>4, <1>5, <1>6, <1>7 DEF Next

(* The initial ring is empty.                                              *)
LEMMA InitEmpty ==
  ASSUME Init
  PROVE  Count = 0 /\ Queue = <<>>
<1>1. head \in Counters /\ tail \in Counters /\ head = tail
  BY Sizes DEF Init, Counters
<1>2. Count = 0
  BY <1>1, CountIs, DistanceIs
<1> QED
  BY <1>2 DEF Queue

(* The initial states satisfy the invariant of the ring.                   *)
LEMMA InitRing ==
  ASSUME Init
  PROVE  RingInv
<1>1. TypeOK
  <2>1. PICK g \in Frames : buf = [i \in 0..(Cap - 1) |-> Whole(g)]
    BY DEF Init
  <2>2. buf \in [0..(Cap - 1) -> Item]
    BY <2>1 DEF Whole, Item
  <2>3. head \in 0..(CntMod - 1) /\ tail \in 0..(CntMod - 1) /\ Count <= Cap
    BY InitEmpty, Sizes DEF Init
  <2>4. held \in [Producers -> Seq(Frames)] /\ \A p \in Producers : Len(held[p]) <= 2
    BY DEF Init
  <2>5. ctail \in [Consumers -> 0..(CntMod - 1)] /\ reserved \in 0..Batch
    BY Sizes DEF Init
  <2>6. hand \in Seq(Item)
    BY DEF Init
  <2>7. cur \in [Consumers -> Item \cup {Whole(NoFrame)}]
    BY DEF Init
  <2> QED
    BY <2>2, <2>3, <2>4, <2>5, <2>6, <2>7 DEF Init, TypeOK
<1>2. ProdInv
  BY DEF Init, ProdInv, Pushing
<1>3. ConsInv
  BY DEF Init, ConsInv, Consumers
<1> QED
  BY <1>1, <1>2, <1>3 DEF RingInv

(* The invariant of the ring is inductive.                                 *)
THEOREM Inductive == PopsExclude /\ Spec => []RingInv
<1> SUFFICES ASSUME PopsExclude PROVE Spec => []RingInv
  OBVIOUS
<1>1. Init => RingInv
  BY InitRing
<1>2. RingInv /\ [Next]_vars => RingInv'
  BY StepPreserves
<1> QED
  BY <1>1, <1>2, PTL DEF Spec

(* Every variable keeps its type and the counters never claim more than    *)
(* the ring holds.                                                         *)
THEOREM TypeCorrect == PopsExclude /\ Spec => []TypeOK
<1>1. RingInv => TypeOK
  BY DEF RingInv
<1> QED
  BY <1>1, Inductive, PTL

(* The descriptors of a whole packet and of a split one.                   *)
LEMMA ItemsOf ==
  ASSUME NEW fs \in Seq(Frames), Len(fs) \in {1, 2}
  PROVE  /\ Len(fs) = 1 => Items(fs) = <<Whole(fs[1])>> /\ fs[1] \in Frames
         /\ Len(fs) = 2 => \E fg \in Frames \X Frames : Items(fs) = Items(<<fg[1], fg[2]>>)
<1>1. CASE Len(fs) = 1
  BY <1>1 DEF Items, Whole
<1>2. CASE Len(fs) = 2
  <2>1. fs[1] \in Frames /\ fs[2] \in Frames
    BY <1>2
  <2>2. fs = <<fs[1], fs[2]>>
    BY <1>2
  <2> DEFINE fg == <<fs[1], fs[2]>>
  <2>3. fg \in Frames \X Frames /\ fg[1] = fs[1] /\ fg[2] = fs[2]
    BY <2>1
  <2> HIDE DEF fg
  <2>4. Items(fs) = Items(<<fg[1], fg[2]>>)
    BY <2>2, <2>3
  <2>5. \E gg \in Frames \X Frames : Items(fs) = Items(<<gg[1], gg[2]>>)
    BY <2>3, <2>4, Zenon
  <2>6. Len(fs) # 1
    BY <1>2
  <2> QED
    BY <2>5, <2>6, Zenon
<1> QED
  BY <1>1, <1>2

(* The store of head is one enqueue.                                       *)
LEMMA PublishIsPut ==
  ASSUME RingInv, NEW p \in Producers, Publish(p)
  PROVE  Fifo!Next
<1> DEFINE fs == held[p]
<1>1. fs \in Seq(Frames)
  BY DEF RingInv, TypeOK
<1>2. Len(fs) \in {1, 2} /\ Count + Len(fs) <= Cap
  BY DEF RingInv, ProdInv, Publish
<1>3. Queue' = Queue \o Items(fs)
  BY PublishPreserves
<1>4. Queue \in Seq(Item) /\ Len(Queue) = Count /\ Count \in Nat
  BY QueueType DEF RingInv
<1> HIDE DEF fs
<1>5. CASE Len(fs) = 1
  <2> DEFINE x == Whole(fs[1])
  <2>1. Items(fs) = <<x>> /\ fs[1] \in Frames
    BY <1>1, <1>5, ItemsOf
  <2>2. x \in Item
    BY <2>1 DEF Whole, Item
  <2>3. x \in {Whole(f) : f \in Frames}
    BY <2>1
  <2> HIDE DEF x
  <2>4. Append(Queue, x) = Queue \o <<x>>
    BY <1>4, <2>2, AppendIsConcat
  <2>5. Len(Queue) < Cap
    BY <1>2, <1>4, <1>5, Sizes
  <2>6. Fifo!Put(x)
    BY <1>3, <2>1, <2>4, <2>5 DEF Fifo!Put
  <2> QED
    BY <2>3, <2>6 DEF Fifo!Next
<1>6. CASE Len(fs) = 2
  <2>1. PICK fg \in Frames \X Frames : Items(fs) = Items(<<fg[1], fg[2]>>)
    BY <1>1, <1>6, ItemsOf
  <2> DEFINE xy == Items(fs)
  <2>2. xy \in {Items(<<gg[1], gg[2]>>) : gg \in Frames \X Frames}
    BY <2>1
  <2> HIDE DEF xy
  <2>3. Len(Queue) + 2 <= Cap
    BY <1>2, <1>4, <1>6
  <2>4. Fifo!PutPair(xy)
    BY <1>3, <2>3 DEF Fifo!PutPair, xy
  <2> QED
    BY <2>2, <2>4 DEF Fifo!Next
<1> QED
  BY <1>2, <1>5, <1>6

(* Of all the stores to the ring only that of head enqueues and only that  *)
(* of tail dequeues.                                                       *)
LEMMA StepRefines ==
  ASSUME PopsExclude, RingInv, [Next]_vars
  PROVE  [Fifo!Next]_Queue
<1>1. ASSUME NEW p \in Producers, Produce(p) PROVE Fifo!Next \/ Queue' = Queue
  <2>1. CASE Publish(p)
    BY <2>1, PublishIsPut
  <2>2. CASE Write(p) \/ WriteSecond(p)
    BY <2>2, WritePreserves, WriteSecondPreserves
  <2>3. CASE \E f \in Frames : Receive(p, f) \/ Split(p, f)
    BY <2>3, SameRing DEF Receive, Split
  <2>4. CASE SplitNoRoom(p) \/ PushLock(p) \/ PushFull(p) \/ PushRoom(p)
    BY <2>4, SameRing DEF SplitNoRoom, PushLock, PushFull, PushRoom
  <2> QED
    BY <1>1, <2>1, <2>2, <2>3, <2>4 DEF Produce
<1>2. ASSUME NEW c \in Consumers, Pop(c) PROVE Fifo!Next \/ Queue' = Queue
  <2>1. CASE PopStore(c)
    BY <2>1, PopStorePreserves DEF Fifo!Next, Fifo!Take
  <2>2. CASE PopTail(c) \/ PopEmpty(c) \/ PopCopy(c)
    BY <2>2, PopTailPreserves, PopEmptyPreserves, PopCopyPreserves
  <2> QED
    BY <1>2, <2>1, <2>2 DEF Pop
<1>3. TX \in Consumers /\ (Flusher => Flush \in Consumers)
  BY DEF Consumers
<1>4. CASE Drain
  <2>1. CASE (\E n \in 1..Batch : TxBegin(n)) \/ Submit
    BY <2>1, SameRing DEF TxBegin, Submit
  <2> QED
    BY <1>2, <1>3, <1>4, <2>1 DEF Drain
<1>5. CASE FlushStep
  <2>1. CASE FlushBegin
    BY <2>1, SameRing DEF FlushBegin
  <2> QED
    BY <1>2, <1>3, <1>5, <2>1 DEF FlushStep
<1>6. ASSUME NEW f \in Frames, Complete(f) PROVE Queue' = Queue
  BY <1>6, SameRing DEF Complete
<1>7. CASE UNCHANGED vars
  BY <1>7, SameRing DEF vars
<1> QED
  BY <1>1, <1>4, <1>5, <1>6, <1>7 DEF Next

(* The ring implements the bounded queue: for every capacity, and across   *)
(* the wrap of its 32-bit counters, what producers push comes out once, in *)
(* order, and the two fragments of a datagram together.                    *)
THEOREM RingIsQueue == PopsExclude /\ Spec => FifoSpec
<1> SUFFICES ASSUME PopsExclude PROVE Spec => FifoSpec
  OBVIOUS
<1>1. Init => Fifo!Init
  BY InitEmpty DEF Fifo!Init
<1>2. RingInv /\ [Next]_vars => [Fifo!Next]_Queue
  BY StepRefines
<1>3. Spec => []RingInv
  BY Inductive
<1> QED
  BY <1>1, <1>2, <1>3, PTL DEF Spec, FifoSpec, Fifo!Spec

(***************************************************************************)
(* Every frame has one owner.                                              *)
(***************************************************************************)

(* Where a frame is: in whose hands, and where in the ring and the batch.  *)
HeldAt(p, i, f) == i <= Len(held[p]) /\ held[p][i] = f
HeldOf(f) == {y \in Producers \X {1, 2} : HeldAt(y[1], y[2], f)}
RingOf(f) == {j \in 1..Count : Queue[j].frame = f}
HandOf(f) == {j \in 1..Len(hand) : hand[j].frame = f}

InPool(f) == pool[f] = 1 /\ HeldOf(f) = {} /\ RingOf(f) = {} /\ HandOf(f) = {} /\ nic[f] = 0
InHeld(f) ==
  /\ pool[f] = 0 /\ nic[f] = 0 /\ RingOf(f) = {} /\ HandOf(f) = {}
  /\ \E y \in HeldOf(f) : HeldOf(f) = {y}
InRing(f) ==
  /\ pool[f] = 0 /\ nic[f] = 0 /\ HeldOf(f) = {} /\ HandOf(f) = {}
  /\ \E j \in RingOf(f) : RingOf(f) = {j}
InHand(f) ==
  /\ pool[f] = 0 /\ nic[f] = 0 /\ HeldOf(f) = {} /\ RingOf(f) = {}
  /\ \E j \in HandOf(f) : HandOf(f) = {j}
InNic(f) == pool[f] = 0 /\ HeldOf(f) = {} /\ RingOf(f) = {} /\ HandOf(f) = {} /\ nic[f] = 1

OwnerOf(f) == InPool(f) \/ InHeld(f) \/ InRing(f) \/ InHand(f) \/ InNic(f)

(* The frame is in exactly one of the five.                                *)
OwnerInv == \A f \in Frames : OwnerOf(f)

(* A frame with one owner is in one place.                                 *)
LEMMA OwnerIsPlace ==
  ASSUME OwnerInv
  PROVE  FrameOnce
<1> SUFFICES ASSUME NEW f \in Frames PROVE \E x : Places(f) = {x}
  BY FS_Singleton DEF FrameOnce
<1> DEFINE A == {<<"pool", i>> : i \in 1..pool[f]}
           B == {<<"held", x[1], x[2]>> : x \in HeldOf(f)}
           C == {<<"ring", i>> : i \in RingOf(f)}
           D == {<<"hand", i>> : i \in HandOf(f)}
           E == {<<"nic", i>> : i \in 1..nic[f]}
<1>1. Places(f) = UNION {A, B, C, D, E}
  BY DEF Places, HeldOf, HeldAt, RingOf, HandOf
<1>2. (pool[f] = 0 => A = {}) /\ (pool[f] = 1 => A = {<<"pool", 1>>})
  OBVIOUS
<1>3. (nic[f] = 0 => E = {}) /\ (nic[f] = 1 => E = {<<"nic", 1>>})
  OBVIOUS
<1>4. (HeldOf(f) = {} => B = {}) /\ (\A y : HeldOf(f) = {y} => B = {<<"held", y[1], y[2]>>})
  OBVIOUS
<1>5. (RingOf(f) = {} => C = {}) /\ (\A y : RingOf(f) = {y} => C = {<<"ring", y>>})
  OBVIOUS
<1>6. (HandOf(f) = {} => D = {}) /\ (\A y : HandOf(f) = {y} => D = {<<"hand", y>>})
  OBVIOUS
<1> HIDE DEF A, B, C, D, E
<1>7. \/ (\E x : A = {x}) /\ B = {} /\ C = {} /\ D = {} /\ E = {}
      \/ A = {} /\ (\E x : B = {x}) /\ C = {} /\ D = {} /\ E = {}
      \/ A = {} /\ B = {} /\ (\E x : C = {x}) /\ D = {} /\ E = {}
      \/ A = {} /\ B = {} /\ C = {} /\ (\E x : D = {x}) /\ E = {}
      \/ A = {} /\ B = {} /\ C = {} /\ D = {} /\ (\E x : E = {x})
  BY <1>2, <1>3, <1>4, <1>5, <1>6, Zenon DEF OwnerInv, OwnerOf, InPool, InHeld,
     InRing, InHand, InNic
<1>8. \A x : UNION {{x}, {}, {}, {}, {}} = {x} /\ UNION {{}, {x}, {}, {}, {}} = {x}
             /\ UNION {{}, {}, {x}, {}, {}} = {x} /\ UNION {{}, {}, {}, {x}, {}} = {x}
             /\ UNION {{}, {}, {}, {}, {x}} = {x}
  OBVIOUS
<1> QED
  BY <1>1, <1>7, <1>8, Zenon

(* Steps that move no frame.                                               *)
LEMMA NothingMoves ==
  ASSUME OwnerInv, UNCHANGED <<pool, held, hand, nic>>, Queue' = Queue, Count' = Count
  PROVE  OwnerInv'
<1>1. \A f : HeldOf(f)' = HeldOf(f) /\ RingOf(f)' = RingOf(f) /\ HandOf(f)' = HandOf(f)
  BY DEF HeldOf, HeldAt, RingOf, HandOf
<1> QED
  BY <1>1 DEF OwnerInv, OwnerOf, InPool, InHeld, InRing, InHand, InNic

(* What a producer takes, keeps and gives away.                            *)
LEMMA HeldMoves ==
  ASSUME NEW f
  PROVE  /\ (\A q \in Producers, j \in {1, 2} : HeldAt(q, j, f)' <=> HeldAt(q, j, f))
            => HeldOf(f)' = HeldOf(f)
         /\ \A p \in Producers, i \in {1, 2} :
              /\ HeldOf(f) = {}
              /\ \A q \in Producers, j \in {1, 2} : HeldAt(q, j, f)' <=> q = p /\ j = i
              => HeldOf(f)' = {<<p, i>>}
         /\ (\A q \in Producers, j \in {1, 2} : ~HeldAt(q, j, f)') => HeldOf(f)' = {}
<1>1. \A y \in Producers \X {1, 2} :
        y[1] \in Producers /\ y[2] \in {1, 2} /\ y = <<y[1], y[2]>>
  OBVIOUS
<1>2. (\A q \in Producers, j \in {1, 2} : HeldAt(q, j, f)' <=> HeldAt(q, j, f))
      => HeldOf(f)' = HeldOf(f)
  BY <1>1 DEF HeldOf
<1>3. ASSUME NEW p \in Producers, NEW i \in {1, 2},
             \A q \in Producers, j \in {1, 2} : HeldAt(q, j, f)' <=> q = p /\ j = i
      PROVE  HeldOf(f)' = {<<p, i>>}
  <2>1. HeldOf(f)' = {y \in Producers \X {1, 2} : y[1] = p /\ y[2] = i}
    BY <1>1, <1>3 DEF HeldOf
  <2> QED
    BY <1>1, <2>1
<1>4. (\A q \in Producers, j \in {1, 2} : ~HeldAt(q, j, f)') => HeldOf(f)' = {}
  BY <1>1 DEF HeldOf
<1> QED
  BY <1>2, <1>3, <1>4

(* A frame a producer holds is held there alone.                           *)
LEMMA HeldAlone ==
  ASSUME OwnerInv, NEW f \in Frames, NEW p \in Producers, NEW i \in {1, 2}, HeldAt(p, i, f)
  PROVE  /\ InHeld(f)
         /\ \A q \in Producers, j \in {1, 2} : HeldAt(q, j, f) => q = p /\ j = i
<1>1. <<p, i>> \in HeldOf(f)
  BY DEF HeldOf
<1>2. InHeld(f)
  BY <1>1 DEF OwnerInv, OwnerOf, InPool, InRing, InHand, InNic
<1>3. ASSUME NEW q \in Producers, NEW j \in {1, 2}, HeldAt(q, j, f) PROVE q = p /\ j = i
  <2>1. <<q, j>> \in HeldOf(f)
    BY <1>3 DEF HeldOf
  <2>2. <<q, j>> = <<p, i>>
    BY <1>1, <1>2, <2>1 DEF InHeld
  <2> QED
    BY <2>2
<1> QED
  BY <1>2, <1>3

(* A frame in the pool is nowhere else.                                    *)
LEMMA PoolAlone ==
  ASSUME RingInv, OwnerInv, NEW f \in Frames, pool[f] > 0
  PROVE  InPool(f)
BY DEF OwnerInv, OwnerOf, InHeld, InRing, InHand, InNic

(* What freeing frames does to the pool.                                   *)
LEMMA FreedIs ==
  ASSUME RingInv, NEW fs \in Seq(Frames), NEW f \in Frames
  PROVE  /\ (\A i \in 1..Len(fs) : fs[i] # f) => Freed(fs)[f] = pool[f]
         /\ \A i \in 1..Len(fs) :
              (\A j \in 1..Len(fs) : fs[j] = f <=> j = i) => Freed(fs)[f] = pool[f] + 1
<1> DEFINE S == {i \in 1..Len(fs) : fs[i] = f}
<1>1. Freed(fs)[f] = pool[f] + Cardinality(S) /\ pool[f] \in Nat
  BY DEF Freed, RingInv, TypeOK
<1>2. ASSUME \A i \in 1..Len(fs) : fs[i] # f PROVE Cardinality(S) = 0
  <2>1. S = {}
    BY <1>2
  <2> QED
    BY <2>1, FS_EmptySet
<1>3. ASSUME NEW i \in 1..Len(fs), \A j \in 1..Len(fs) : fs[j] = f <=> j = i
      PROVE  Cardinality(S) = 1
  <2>1. S = {i}
    BY <1>3
  <2> QED
    BY <2>1, FS_Singleton
<1> HIDE DEF S
<1>4. Cardinality(S) = 0 => Freed(fs)[f] = pool[f]
  BY <1>1
<1>5. Cardinality(S) = 1 => Freed(fs)[f] = pool[f] + 1
  BY <1>1
<1> QED
  BY <1>2, <1>3, <1>4, <1>5, Zenon

(* The same for one frame.                                                 *)
LEMMA FreedOne ==
  ASSUME RingInv, NEW g \in Frames, NEW f \in Frames
  PROVE  Freed(<<g>>)[f] = IF f = g THEN pool[f] + 1 ELSE pool[f]
<1> DEFINE fs == <<g>>
<1>1. fs \in Seq(Frames)
  OBVIOUS
<1>2. 1 \in 1..Len(fs) /\ \A j \in 1..Len(fs) : j = 1 /\ fs[j] = g
  OBVIOUS
<1> HIDE DEF fs
<1>3. CASE f = g
  <2>1. \A j \in 1..Len(fs) : fs[j] = f <=> j = 1
    BY <1>2, <1>3
  <2>2. Freed(fs)[f] = pool[f] + 1
    BY <1>1, <1>2, <2>1, FreedIs
  <2> QED
    BY <1>3, <2>2 DEF fs
<1>4. CASE f # g
  <2>1. \A j \in 1..Len(fs) : fs[j] # f
    BY <1>2, <1>4
  <2>2. Freed(fs)[f] = pool[f]
    BY <1>1, <2>1, FreedIs
  <2> QED
    BY <1>4, <2>2 DEF fs
<1> QED
  BY <1>3, <1>4

(* The ring and the batch stay as they are.                                *)
LEMMA RingKept ==
  ASSUME UNCHANGED <<head, tail, buf, hand>>, NEW f
  PROVE  RingOf(f)' = RingOf(f) /\ HandOf(f)' = HandOf(f)
BY SameRing DEF RingOf, HandOf

(* A received frame leaves the pool for a hand.                             *)
LEMMA ReceiveMoves ==
  ASSUME RingInv, OwnerInv, NEW p \in Producers, NEW g \in Frames, Receive(p, g)
  PROVE  OwnerInv'
<1>1. InPool(g)
  BY PoolAlone DEF Receive
<1>2. /\ held[p] = <<>> /\ held' = [held EXCEPT ![p] = <<g>>]
      /\ held \in [Producers -> Seq(Frames)]
  BY DEF RingInv, ProdInv, TypeOK, Receive
<1>3. \A q \in Producers, j \in {1, 2}, f \in Frames :
        HeldAt(q, j, f)' <=> HeldAt(q, j, f) \/ (q = p /\ j = 1 /\ f = g)
  BY <1>2 DEF HeldAt
<1>4. ASSUME NEW f \in Frames PROVE OwnerOf(f)'
  <2>1. RingOf(f)' = RingOf(f) /\ HandOf(f)' = HandOf(f) /\ nic'[f] = nic[f]
    BY RingKept DEF Receive, consVars
  <2>2. CASE f = g
    <3>1. \A q \in Producers, j \in {1, 2} : ~HeldAt(q, j, g)
      <4>1. \A q \in Producers, j \in {1, 2} : HeldAt(q, j, g) => InHeld(g)
        BY HeldAlone
      <4> QED
        BY <1>1, <4>1 DEF InPool, InHeld
    <3>2. HeldOf(g)' = {<<p, 1>>}
      BY <1>1, <1>3, <3>1, HeldMoves DEF InPool
    <3>3. pool'[g] = 0
      BY <1>1 DEF InPool, RingInv, TypeOK, Receive
    <3> QED
      BY <1>1, <2>1, <2>2, <3>2, <3>3 DEF InPool, InHeld, OwnerOf
  <2>3. CASE f # g
    <3>1. HeldOf(f)' = HeldOf(f)
      BY <1>3, <2>3, HeldMoves
    <3>2. pool'[f] = pool[f]
      BY <2>3 DEF Receive
    <3> QED
      BY <2>1, <3>1, <3>2 DEF OwnerInv, OwnerOf, InPool, InHeld, InRing,
         InHand, InNic
  <2> QED
    BY <2>2, <2>3
<1> QED
  BY <1>4 DEF OwnerInv

(* So does the frame of the tail fragment.                                  *)
LEMMA SplitMoves ==
  ASSUME RingInv, OwnerInv, NEW p \in Producers, NEW g \in Frames, Split(p, g)
  PROVE  OwnerInv'
<1>1. InPool(g)
  BY PoolAlone DEF Split
<1>2. held \in [Producers -> Seq(Frames)] /\ Len(held[p]) = 1
  BY DEF RingInv, TypeOK, Split
<1> DEFINE fs == Append(held[p], g)
<1>3. Len(fs) = 2 /\ fs[1] = held[p][1] /\ fs[2] = g
  BY <1>2, AppendOne
<1>4. held' = [held EXCEPT ![p] = fs]
  BY DEF Split
<1> HIDE DEF fs
<1>5. \A q \in Producers, j \in {1, 2}, f \in Frames :
        HeldAt(q, j, f)' <=> HeldAt(q, j, f) \/ (q = p /\ j = 2 /\ f = g)
  <2>1. held'[p] = fs /\ \A q \in Producers : q # p => held'[q] = held[q]
    BY <1>2, <1>4
  <2> QED
    BY <1>2, <1>3, <2>1 DEF HeldAt
<1>6. ASSUME NEW f \in Frames PROVE OwnerOf(f)'
  <2>1. RingOf(f)' = RingOf(f) /\ HandOf(f)' = HandOf(f) /\ nic'[f] = nic[f]
    BY RingKept DEF Split, consVars
  <2>2. CASE f = g
    <3>1. \A q \in Producers, j \in {1, 2} : ~HeldAt(q, j, g)
      <4>1. \A q \in Producers, j \in {1, 2} : HeldAt(q, j, g) => InHeld(g)
        BY HeldAlone
      <4> QED
        BY <1>1, <4>1 DEF InPool, InHeld
    <3>2. HeldOf(g)' = {<<p, 2>>}
      BY <1>1, <1>5, <3>1, HeldMoves DEF InPool
    <3>3. pool'[g] = 0
      BY <1>1 DEF InPool, RingInv, TypeOK, Split
    <3> QED
      BY <1>1, <2>1, <2>2, <3>2, <3>3 DEF InPool, InHeld, OwnerOf
  <2>3. CASE f # g
    <3>1. HeldOf(f)' = HeldOf(f)
      BY <1>5, <2>3, HeldMoves
    <3>2. pool'[f] = pool[f]
      BY <2>3 DEF Split
    <3> QED
      BY <2>1, <3>1, <3>2 DEF OwnerInv, OwnerOf, InPool, InHeld, InRing,
         InHand, InNic
  <2> QED
    BY <2>2, <2>3
<1> QED
  BY <1>6 DEF OwnerInv

(* What a producer whose hands are emptied held.                           *)
LEMMA HandsEmptied ==
  ASSUME RingInv, OwnerInv, NEW p \in Producers, held' = [held EXCEPT ![p] = <<>>],
         NEW f \in Frames, NEW i \in 1..Len(held[p]), held[p][i] = f
  PROVE  /\ InHeld(f) /\ HeldOf(f)' = {}
         /\ \A j \in 1..Len(held[p]) : held[p][j] = f => j = i
<1>1. held \in [Producers -> Seq(Frames)] /\ Len(held[p]) \in Nat /\ Len(held[p]) <= 2
  BY DEF RingInv, TypeOK
<1>2. \A q \in Producers, j \in {1, 2} : HeldAt(q, j, f)' => HeldAt(q, j, f) /\ q # p
  BY <1>1 DEF HeldAt
<1>3. \A j \in 1..Len(held[p]) : j \in {1, 2} /\ (held[p][j] = f => HeldAt(p, j, f))
  BY <1>1 DEF HeldAt
<1>4. i \in {1, 2} /\ HeldAt(p, i, f)
  BY <1>3
<1>5. /\ InHeld(f)
      /\ \A q \in Producers, j \in {1, 2} : HeldAt(q, j, f) => q = p /\ j = i
  BY <1>4, HeldAlone
<1>6. HeldOf(f)' = {}
  BY <1>2, <1>5, HeldMoves
<1> QED
  BY <1>3, <1>5, <1>6

(* And what it did not.                                                    *)
LEMMA OthersKept ==
  ASSUME RingInv, NEW p \in Producers, held' = [held EXCEPT ![p] = <<>>],
         NEW f \in Frames, \A i \in 1..Len(held[p]) : held[p][i] # f
  PROVE  HeldOf(f)' = HeldOf(f)
<1>1. held \in [Producers -> Seq(Frames)] /\ Len(held[p]) \in Nat
  BY DEF RingInv, TypeOK
<1>2. \A q \in Producers, j \in {1, 2} : HeldAt(q, j, f)' <=> HeldAt(q, j, f) /\ q # p
  BY <1>1 DEF HeldAt
<1>3. \A j \in {1, 2} : ~HeldAt(p, j, f)
  BY <1>1 DEF HeldAt
<1> QED
  BY <1>2, <1>3, HeldMoves

(* The frames of a dropped packet are in the pool again.                   *)
LEMMA DropMoves ==
  ASSUME RingInv, OwnerInv, NEW p \in Producers, Dropped(p),
         UNCHANGED <<head, tail, buf, hand, nic>>
  PROVE  OwnerInv'
<1> DEFINE fs == held[p]
<1>0. fs \in Seq(Frames) /\ pool' = Freed(fs) /\ held' = [held EXCEPT ![p] = <<>>]
  BY DEF RingInv, TypeOK, Dropped
<1>1. ASSUME NEW f \in Frames PROVE OwnerOf(f)'
  <2>1. RingOf(f)' = RingOf(f) /\ HandOf(f)' = HandOf(f) /\ nic'[f] = nic[f]
    BY RingKept
  <2>2. CASE \E i \in 1..Len(fs) : fs[i] = f
    <3>1. PICK i \in 1..Len(fs) : fs[i] = f
      BY <2>2
    <3>2. InHeld(f) /\ HeldOf(f)' = {} /\ \A j \in 1..Len(fs) : fs[j] = f <=> j = i
      <4>1. i \in 1..Len(held[p]) /\ held[p][i] = f /\ held' = [held EXCEPT ![p] = <<>>]
        BY <1>0, <3>1
      <4>2. InHeld(f) /\ HeldOf(f)' = {}
        BY <4>1, HandsEmptied
      <4>3. \A j \in 1..Len(held[p]) : held[p][j] = f <=> j = i
        <5>1. ASSUME NEW j \in 1..Len(held[p]), held[p][j] = f PROVE j = i
          BY <4>1, <5>1, HandsEmptied
        <5> QED
          BY <4>1, <5>1
      <4> QED
        BY <4>2, <4>3
    <3>3. pool'[f] = pool[f] + 1
      BY <1>0, <3>2, FreedIs
    <3> QED
      BY <2>1, <3>2, <3>3 DEF InHeld, InPool, OwnerOf
  <2>3. CASE \A i \in 1..Len(fs) : fs[i] # f
    <3>1. HeldOf(f)' = HeldOf(f)
      BY <1>0, <2>3, OthersKept
    <3>2. pool'[f] = pool[f]
      BY <1>0, <2>3, FreedIs
    <3> QED
      BY <2>1, <3>1, <3>2 DEF OwnerInv, OwnerOf, InPool, InHeld, InRing,
         InHand, InNic
  <2> QED
    BY <2>2, <2>3
<1> QED
  BY <1>1 DEF OwnerInv

(* Published frames go from the hands to the end of the ring.               *)
LEMMA PublishMoves ==
  ASSUME RingInv, OwnerInv, NEW p \in Producers, Publish(p)
  PROVE  OwnerInv'
<1> DEFINE fs == held[p]
           xs == Items(fs)
           n == Len(fs)
<1>0. fs \in Seq(Frames) /\ n \in {1, 2} /\ held' = [held EXCEPT ![p] = <<>>]
  BY DEF RingInv, TypeOK, ProdInv, Publish
<1>1. xs \in Seq(Item) /\ Len(xs) = n /\ \A i \in 1..n : xs[i].frame = fs[i]
  BY <1>0, ItemsType
<1>2. Queue \in Seq(Item) /\ Len(Queue) = Count /\ Count \in Nat
  BY QueueType DEF RingInv
<1>3. Queue' = Queue \o xs
  BY PublishPreserves
<1>4. Count' = Count + n
  BY PublishPreserves
<1>5. \A j \in 1..(Count + n) : Queue'[j] = IF j <= Count THEN Queue[j] ELSE xs[j - Count]
  BY <1>1, <1>2, <1>3, ConcatProperties
<1> HIDE DEF xs, n
<1>6. \A j \in 1..(Count + n), f \in Frames :
        Queue'[j].frame = f <=> IF j <= Count THEN Queue[j].frame = f ELSE fs[j - Count] = f
  <2>1. \A j \in 1..(Count + n) : j <= Count \/ j - Count \in 1..n
    BY <1>0, <1>2
  <2> QED
    BY <1>1, <1>5, <2>1
<1>7. ASSUME NEW f \in Frames PROVE OwnerOf(f)'
  <2>1. HandOf(f)' = HandOf(f) /\ nic'[f] = nic[f] /\ pool'[f] = pool[f]
    BY DEF HandOf, Publish, consVars
  <2>2. CASE \E i \in 1..n : fs[i] = f
    <3>1. PICK i \in 1..n : fs[i] = f
      BY <2>2
    <3>2. InHeld(f) /\ HeldOf(f)' = {} /\ \A j \in 1..n : fs[j] = f <=> j = i
      <4>1. i \in 1..Len(held[p]) /\ held[p][i] = f /\ held' = [held EXCEPT ![p] = <<>>]
        BY <1>0, <3>1 DEF n
      <4>2. InHeld(f) /\ HeldOf(f)' = {}
        BY <4>1, HandsEmptied
      <4>3. \A j \in 1..Len(held[p]) : held[p][j] = f <=> j = i
        <5>1. ASSUME NEW j \in 1..Len(held[p]), held[p][j] = f PROVE j = i
          BY <4>1, <5>1, HandsEmptied
        <5> QED
          BY <4>1, <5>1
      <4> QED
        BY <4>2, <4>3 DEF n
    <3>3. RingOf(f) = {}
      BY <3>2 DEF InHeld
    <3>4. \A j \in 1..Count : Queue[j].frame # f
      BY <3>3 DEF RingOf
    <3>5. \A j \in 1..(Count + n) : Queue'[j].frame = f <=> j = Count + i
      <4>1. ASSUME NEW j \in 1..(Count + n), j <= Count
            PROVE  j \in 1..Count /\ j # Count + i
        BY <1>0, <1>2, <4>1
      <4>2. ASSUME NEW j \in 1..(Count + n), ~(j <= Count)
            PROVE  j - Count \in 1..n /\ (j - Count = i <=> j = Count + i)
        BY <1>0, <1>2, <4>2
      <4> QED
        BY <1>6, <3>2, <3>4, <4>1, <4>2
    <3>6. Count + i \in 1..(Count + n)
      BY <1>0, <1>2
    <3>7. RingOf(f)' = {Count + i}
      BY <1>4, <3>5, <3>6 DEF RingOf
    <3> QED
      BY <2>1, <3>2, <3>7 DEF InHeld, InRing, OwnerOf
  <2>3. CASE \A i \in 1..n : fs[i] # f
    <3>1. HeldOf(f)' = HeldOf(f)
      BY <1>0, <2>3, OthersKept DEF n
    <3>2. \A j \in 1..(Count + n) :
            Queue'[j].frame = f <=> j \in 1..Count /\ Queue[j].frame = f
      <4>1. \A j \in 1..(Count + n) : j <= Count <=> j \in 1..Count
        BY <1>0, <1>2
      <4>2. \A j \in 1..(Count + n) : ~(j <= Count) => j - Count \in 1..n
        BY <1>0, <1>2
      <4> QED
        BY <1>6, <2>3, <4>1, <4>2
    <3>3. \A j \in 1..Count : j \in 1..(Count + n)
      BY <1>0, <1>2
    <3>4. RingOf(f)' = RingOf(f)
      BY <1>4, <3>2, <3>3 DEF RingOf
    <3> QED
      BY <2>1, <3>1, <3>4 DEF OwnerInv, OwnerOf, InPool, InHeld, InRing,
         InHand, InNic
  <2> QED
    BY <2>2, <2>3
<1> QED
  BY <1>7 DEF OwnerInv

(* What a pop does to the places of the ring: the first descriptor leaves, *)
(* the others move up.                                                     *)
LEMMA PopShifts ==
  ASSUME PopsExclude, RingInv, NEW c \in Consumers, PopStore(c), NEW f
  PROVE  /\ RingOf(f) = {1} => RingOf(f)' = {}
         /\ RingOf(f) = {} => RingOf(f)' = {}
         /\ \A k \in Nat \ {0, 1} : RingOf(f) = {k} => RingOf(f)' = {k - 1}
<1>1. Queue \in Seq(Item) /\ Len(Queue) = Count /\ Count \in Nat
  BY QueueType DEF RingInv
<1>2. Queue # <<>> /\ Queue' = Tail(Queue) /\ Count' = Count - 1
  BY PopStorePreserves
<1>3. \A j \in 1..(Count - 1) : Queue'[j] = Queue[j + 1]
  BY <1>1, <1>2, HeadTailProperties
<1>4. \A j \in 1..(Count - 1) : j + 1 \in 1..Count
  BY <1>1
<1>5. \A j : j \in RingOf(f)' <=> j \in 1..(Count - 1) /\ j + 1 \in RingOf(f)
  BY <1>2, <1>3, <1>4 DEF RingOf
<1>6. \A j \in RingOf(f) : j \in 1..Count
  BY DEF RingOf
<1>7. RingOf(f) = {1} => RingOf(f)' = {}
  <2>1. \A j \in 1..(Count - 1) : j + 1 # 1
    BY <1>1
  <2> QED
    BY <1>5, <2>1
<1>8. RingOf(f) = {} => RingOf(f)' = {}
  BY <1>5
<1>9. ASSUME NEW k \in Nat \ {0, 1}, RingOf(f) = {k} PROVE RingOf(f)' = {k - 1}
  <2>1. k - 1 \in 1..(Count - 1) /\ (k - 1) + 1 = k
    BY <1>1, <1>6, <1>9
  <2>2. \A j \in 1..(Count - 1) : j + 1 = k <=> j = k - 1
    BY <1>1
  <2>3. \A j : j \in RingOf(f)' <=> j = k - 1
    BY <1>5, <1>9, <2>1, <2>2
  <2> QED
    BY <2>3
<1> QED
  BY <1>7, <1>8, <1>9

(* A popped frame goes to the batch or, in a flush, to the pool.            *)
LEMMA PopStoreMoves ==
  ASSUME PopsExclude, RingInv, OwnerInv, NEW c \in Consumers, PopStore(c)
  PROVE  OwnerInv'
<1>1. Queue \in Seq(Item) /\ Len(Queue) = Count /\ Count \in Nat /\ hand \in Seq(Item)
  BY QueueType DEF RingInv, TypeOK
<1>2. Queue # <<>> /\ cur[c] = Queue[1]
  BY PopStorePreserves
<1>3. 1 \in 1..Count
  BY <1>1, <1>2, EmptySeq
<1>4. cur[c] \in Item
  BY <1>1, <1>2, <1>3
<1>g. PICK g \in Frames : g = cur[c].frame
  BY <1>4 DEF Item
<1>5. \A f : f = g <=> 1 \in RingOf(f)
  BY <1>2, <1>3, <1>g DEF RingOf
<1>6. ASSUME NEW f \in Frames PROVE HeldOf(f)' = HeldOf(f) /\ nic'[f] = nic[f]
  BY DEF HeldOf, HeldAt, PopStore, prodVars
<1>7. InRing(g) /\ RingOf(g) = {1} /\ RingOf(g)' = {}
  <2>1. 1 \in RingOf(g)
    BY <1>5
  <2>2. InRing(g)
    BY <1>4, <2>1 DEF OwnerInv, OwnerOf, InPool, InHeld, InHand, InNic
  <2>3. RingOf(g) = {1}
    BY <2>1, <2>2 DEF InRing
  <2> QED
    BY <2>2, <2>3, PopShifts
<1>8. ASSUME NEW f \in Frames, f # g
      PROVE  /\ RingOf(f) = {} => RingOf(f)' = {}
             /\ (\E j \in RingOf(f) : RingOf(f) = {j})
                => \E j \in RingOf(f)' : RingOf(f)' = {j}
  <2>1. ASSUME NEW j \in RingOf(f), RingOf(f) = {j} PROVE RingOf(f)' = {j - 1}
    <3>1. j \in Nat /\ j # 0
      BY <1>1 DEF RingOf
    <3>2. j # 1
      BY <1>5, <1>8
    <3> QED
      BY <2>1, <3>1, <3>2, PopShifts
  <2>2. RingOf(f) = {} => RingOf(f)' = {}
    BY PopShifts
  <2> QED
    BY <2>1, <2>2
<1>9. CASE c = TX
  <2>1. hand' = Append(hand, cur[c]) /\ pool' = pool
    BY <1>9 DEF PopStore
  <2>2. Len(hand') = Len(hand) + 1 /\ Len(hand) \in Nat
    BY <1>1, <1>4, <2>1, AppendProperties
  <2>3. \A j \in 1..(Len(hand) + 1) : hand'[j] = IF j = Len(hand) + 1 THEN cur[c] ELSE hand[j]
    BY <1>1, <1>4, <2>1, AppendProperties
  <2>4. HandOf(g) = {}
    BY <1>7 DEF InRing
  <2>5. HandOf(g)' = {Len(hand) + 1}
    <3>1. \A j \in 1..(Len(hand) + 1) : j # Len(hand) + 1 => j \in 1..Len(hand)
      BY <2>2
    <3>2. Len(hand) + 1 \in 1..(Len(hand) + 1)
      BY <2>2
    <3>3. \A j \in 1..Len(hand) : hand[j].frame # g
      BY <2>4 DEF HandOf
    <3> QED
      BY <1>g, <2>2, <2>3, <3>1, <3>2, <3>3 DEF HandOf
  <2>6. ASSUME NEW f \in Frames, f # g PROVE HandOf(f)' = HandOf(f)
    <3>1. \A j : j \in 1..Len(hand) <=> j \in 1..(Len(hand) + 1) /\ j # Len(hand) + 1
      BY <2>2
    <3> QED
      BY <1>g, <2>2, <2>3, <2>6, <3>1 DEF HandOf
  <2>7. OwnerOf(g)'
    BY <1>4, <1>6, <1>7, <2>1, <2>5 DEF InRing, InHand, OwnerOf
  <2>8. ASSUME NEW f \in Frames, f # g PROVE OwnerOf(f)'
    BY <1>6, <1>8, <2>1, <2>6, <2>8 DEF OwnerInv, OwnerOf, InPool, InHeld,
       InRing, InHand, InNic
  <2> QED
    BY <2>7, <2>8 DEF OwnerInv
<1>10. CASE c # TX
  <2>1. hand' = hand /\ pool' = Freed(<<g>>)
    BY <1>g, <1>10 DEF PopStore
  <2>3. pool'[g] = pool[g] + 1
    BY <2>1, FreedOne
  <2>4. ASSUME NEW f \in Frames, f # g PROVE pool'[f] = pool[f]
    BY <2>1, <2>4, FreedOne
  <2>5. \A f : HandOf(f)' = HandOf(f)
    BY <2>1 DEF HandOf
  <2>6. OwnerOf(g)'
    BY <1>4, <1>6, <1>7, <2>3, <2>5 DEF InRing, InPool, OwnerOf
  <2>7. ASSUME NEW f \in Frames, f # g PROVE OwnerOf(f)'
    BY <1>6, <1>8, <2>4, <2>5, <2>7 DEF OwnerInv, OwnerOf, InPool, InHeld,
       InRing, InHand, InNic
  <2> QED
    BY <2>6, <2>7 DEF OwnerInv
<1> QED
  BY <1>9, <1>10

(* The frames of the batch go to the NIC.                                   *)
LEMMA SubmitMoves ==
  ASSUME RingInv, OwnerInv, Submit
  PROVE  OwnerInv'
<1> SUFFICES ASSUME NEW f \in Frames PROVE OwnerOf(f)'
  BY DEF OwnerInv
<1>1. nic'[f] = nic[f] + Cardinality(HandOf(f)) /\ HandOf(f)' = {}
  BY DEF Submit, HandOf
<1>2. HeldOf(f)' = HeldOf(f) /\ RingOf(f)' = RingOf(f) /\ pool'[f] = pool[f]
  BY SameRing DEF HeldOf, HeldAt, RingOf, Submit, prodVars
<1>3. CASE \E j \in HandOf(f) : HandOf(f) = {j}
  <2>1. Cardinality(HandOf(f)) = 1
    BY <1>3, FS_Singleton
  <2>2. InHand(f)
    BY <1>3 DEF OwnerInv, OwnerOf, InPool, InHeld, InRing, InNic
  <2> QED
    BY <1>1, <1>2, <2>1, <2>2 DEF InHand, InNic, OwnerOf
<1>4. CASE HandOf(f) = {}
  <2>1. Cardinality(HandOf(f)) = 0
    BY <1>4, FS_EmptySet
  <2>2. nic'[f] = nic[f]
    BY <1>1, <2>1 DEF RingInv, TypeOK
  <2> QED
    BY <1>1, <1>2, <1>4, <2>2 DEF OwnerInv, OwnerOf, InPool, InHeld, InRing,
       InHand, InNic
<1> QED
  BY <1>3, <1>4 DEF OwnerInv, OwnerOf, InPool, InHeld, InRing, InHand, InNic

(* A sent frame goes back to the pool.                                      *)
LEMMA CompleteMoves ==
  ASSUME RingInv, OwnerInv, NEW g \in Frames, Complete(g)
  PROVE  OwnerInv'
<1> SUFFICES ASSUME NEW f \in Frames PROVE OwnerOf(f)'
  BY DEF OwnerInv
<1>1. HeldOf(f)' = HeldOf(f) /\ RingOf(f)' = RingOf(f) /\ HandOf(f)' = HandOf(f)
  BY SameRing DEF HeldOf, HeldAt, RingOf, HandOf, Complete, prodVars, consVars
<1>2. pool' = Freed(<<g>>)
  BY DEF Complete
<1>3. CASE f = g
  <2>1. InNic(g)
    BY DEF OwnerInv, OwnerOf, InPool, InHeld, InRing, InHand, Complete
  <2>2. nic'[g] = 0
    BY <2>1 DEF InNic, RingInv, TypeOK, Complete
  <2>3. pool'[g] = pool[g] + 1
    BY <1>2, FreedOne
  <2> QED
    BY <1>1, <1>3, <2>1, <2>2, <2>3 DEF InNic, InPool, OwnerOf
<1>4. CASE f # g
  <2>1. pool'[f] = pool[f]
    BY <1>2, <1>4, FreedOne
  <2>2. nic'[f] = nic[f]
    BY <1>4 DEF Complete
  <2> QED
    BY <1>1, <2>1, <2>2 DEF OwnerInv, OwnerOf, InPool, InHeld, InRing, InHand,
       InNic
<1> QED
  BY <1>3, <1>4

(* Every step moves the frames it touches and no others.                   *)
LEMMA StepMoves ==
  ASSUME PopsExclude, RingInv, OwnerInv, [Next]_vars
  PROVE  OwnerInv'
<1>1. ASSUME NEW p \in Producers, Produce(p) PROVE OwnerInv'
  <2>1. CASE \E f \in Frames : Receive(p, f) \/ Split(p, f)
    BY <2>1, ReceiveMoves, SplitMoves
  <2>2. CASE SplitNoRoom(p) \/ PushFull(p)
    BY <2>2, DropMoves DEF SplitNoRoom, PushFull, consVars
  <2>3. CASE PushLock(p) \/ PushRoom(p)
    BY <2>3, SameRing, NothingMoves DEF PushLock, PushRoom, consVars
  <2>4. CASE Write(p) \/ WriteSecond(p)
    <3>1. Queue' = Queue
      BY <2>4, WritePreserves, WriteSecondPreserves
    <3>2. Count' = Count
      BY <2>4 DEF Count, Write, WriteSecond
    <3> QED
      BY <2>4, <3>1, <3>2, NothingMoves DEF Write, WriteSecond, consVars
  <2> QED
    BY <1>1, <2>1, <2>2, <2>3, <2>4, PublishMoves DEF Produce
<1>2. ASSUME NEW c \in Consumers, Pop(c) PROVE OwnerInv'
  <2>1. CASE PopTail(c) \/ PopEmpty(c) \/ PopCopy(c)
    BY <2>1, SameRing, NothingMoves DEF PopTail, PopEmpty, PopCopy, prodVars
  <2> QED
    BY <1>2, <2>1, PopStoreMoves DEF Pop
<1>3. TX \in Consumers /\ (Flusher => Flush \in Consumers)
  BY DEF Consumers
<1>4. CASE Drain
  <2>1. CASE \E n \in 1..Batch : TxBegin(n)
    BY <2>1, SameRing, NothingMoves DEF TxBegin, prodVars
  <2> QED
    BY <1>2, <1>3, <1>4, <2>1, SubmitMoves DEF Drain
<1>5. CASE FlushStep
  <2>1. CASE FlushBegin
    BY <2>1, SameRing, NothingMoves DEF FlushBegin, prodVars
  <2> QED
    BY <1>2, <1>3, <1>5, <2>1 DEF FlushStep
<1>6. ASSUME NEW f \in Frames, Complete(f) PROVE OwnerInv'
  BY <1>6, CompleteMoves
<1>7. CASE UNCHANGED vars
  BY <1>7, SameRing, NothingMoves DEF vars, prodVars, consVars
<1> QED
  BY <1>1, <1>4, <1>5, <1>6, <1>7 DEF Next

(* At first every frame is in the pool.                                    *)
LEMMA InitOwner ==
  ASSUME Init
  PROVE  OwnerInv
<1> SUFFICES ASSUME NEW f \in Frames PROVE InPool(f)
  BY DEF OwnerInv, OwnerOf
<1>1. RingOf(f) = {} /\ HandOf(f) = {}
  BY InitEmpty DEF RingOf, HandOf, Init
<1>2. HeldOf(f) = {}
  <2>1. \A q \in Producers : Len(held[q]) = 0
    BY DEF Init
  <2>2. \A y \in Producers \X {1, 2} : ~HeldAt(y[1], y[2], f)
    BY <2>1 DEF HeldAt
  <2> QED
    BY <2>2 DEF HeldOf
<1> QED
  BY <1>1, <1>2 DEF Init, InPool

(* No frame is lost and none has two owners, for any number of producers,  *)
(* frames and places: the packet a producer fills, the descriptors of the  *)
(* ring, the batch of the TX thread, a flush and the NIC hand every frame  *)
(* on exactly once.                                                        *)
THEOREM FramesConserved == PopsExclude /\ Spec => []FrameOnce
<1> SUFFICES ASSUME PopsExclude PROVE Spec => []FrameOnce
  OBVIOUS
<1>1. Init => OwnerInv
  BY InitOwner
<1>2. RingInv /\ OwnerInv /\ [Next]_vars => OwnerInv'
  BY StepMoves
<1>3. Spec => []RingInv
  BY Inductive
<1>4. OwnerInv => FrameOnce
  BY OwnerIsPlace
<1> QED
  BY <1>1, <1>2, <1>3, <1>4, PTL DEF Spec
=============================================================================
