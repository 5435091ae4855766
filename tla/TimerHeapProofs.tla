--------------------------- MODULE TimerHeapProofs ---------------------------
(* Proofs about module TimerHeap: the heap stays a heap, and what the timer loop,*)
(* the removal of a task and the wait in the poller rely on.                    *)
EXTENDS TimerHeap, SequenceTheorems, FiniteSetTheorems, WellFoundedInduction, TLAPS

\* Swap-removal keeps a table a table, one entry shorter, of the same entries.
LEMMA SwapRemoveProperties ==
    ASSUME NEW S, NEW table \in Seq(S), table # <<>>, NEW i \in Nat
    PROVE  /\ SwapRemove(table, i) \in Seq(S)
           /\ Len(SwapRemove(table, i)) = Len(table) - 1
           /\ \A k \in 1 .. (Len(table) - 1) :
                 SwapRemove(table, i)[k] = IF k = i THEN table[Len(table)] ELSE table[k]
<1> DEFINE n == Len(table) - 1
<1>1. n \in Nat /\ n + 1 = Len(table)
    BY EmptySeq, LenProperties
<1>2. SwapRemove(table, i) \in [1 .. n -> S]
    BY <1>1, LenProperties, ElementOfSeq DEF SwapRemove
<1>3. SwapRemove(table, i) \in Seq(S) /\ Len(SwapRemove(table, i)) = n
    <2> DEFINE f == SwapRemove(table, i)
    <2> HIDE DEF f, n
    <2>1. f \in Seq(S)
        BY <1>1, <1>2, SeqDef DEF f
    <2>2. DOMAIN f = 1 .. n /\ DOMAIN f = 1 .. Len(f) /\ Len(f) \in Nat
        BY <1>2, <2>1, LenProperties DEF f
    <2> QED
        BY <1>1, <2>1, <2>2 DEF f
<1> QED
    BY <1>1, <1>2, <1>3 DEF SwapRemove

\* Induction in the form of a least counterexample: every set of natural numbers
\* that is not empty has a least member.
LEMMA LeastNumber ==
    ASSUME NEW X \in SUBSET Nat, X # {}
    PROVE  \E n \in X : \A m \in X : n <= m
<1> DEFINE Smaller == {ss \in Nat \X Nat : ss[1] < ss[2]}
<1>1. IsWellFoundedOn(Smaller, Nat)
  BY NatLessThanWellFounded DEF OpToRel
<1>2. \A m, n \in Nat : <<m, n>> \notin Smaller => n <= m
  OBVIOUS
<1> HIDE DEF Smaller
<1>3. PICK n \in X : \A m \in X : <<m, n>> \notin Smaller
  BY <1>1, WFMin
<1> QED BY <1>2, <1>3

-----------------------------------------------------------------------------
(* Arithmetic *)

\* Sums of uint64_t wrap into the type.
LEMMA AddType ==
    ASSUME NEW time \in Nat, NEW delay \in Nat
    PROVE  Add(time, delay) \in Time
<1>1. time + delay \in Nat /\ Wrap \in Nat /\ Wrap > 0
    BY TimerAssumption
<1> QED
    BY <1>1 DEF Add, Time

\* Where the parent and the children of an entry are.
LEMMA ParentProperties ==
    ASSUME NEW i \in Nat, i > 1
    PROVE  Parent(i) \in Nat /\ 1 <= Parent(i) /\ Parent(i) < i
BY DEF Parent

LEMMA ChildProperties ==
    ASSUME NEW i \in Nat \ {0}, NEW k \in Nat
    PROVE  Parent(k) = i <=> k = 2 * i \/ k = 2 * i + 1
BY DEF Parent

-----------------------------------------------------------------------------
(* Operations on the array *)

LEMMA SwapProperties ==
    ASSUME heap \in Seq(Entry), NEW i \in 1 .. Count, NEW k \in 1 .. Count
    PROVE  /\ Swap(i, k) \in Seq(Entry)
           /\ Len(Swap(i, k)) = Count
           /\ \A j \in 1 .. Count :
                 Swap(i, k)[j] = IF j = k THEN heap[i] ELSE IF j = i THEN heap[k] ELSE heap[j]
<1>1. heap[i] \in Entry /\ heap[k] \in Entry
    BY ElementOfSeq DEF Count
<1> DEFINE s == [heap EXCEPT ![i] = heap[k]]
<1>2. s \in Seq(Entry) /\ Len(s) = Count
      /\ \A j \in 1 .. Count : s[j] = IF j = i THEN heap[k] ELSE heap[j]
    BY <1>1, ExceptSeq DEF Count
<1>3. Swap(i, k) = [s EXCEPT ![k] = heap[i]]
    BY DEF Swap
<1> HIDE DEF s
<1>4. [s EXCEPT ![k] = heap[i]] \in Seq(Entry) /\ Len([s EXCEPT ![k] = heap[i]]) = Count
      /\ \A j \in 1 .. Count : [s EXCEPT ![k] = heap[i]][j] = IF j = k THEN heap[i] ELSE s[j]
    BY <1>1, <1>2, ExceptSeq
<1> QED
    BY <1>2, <1>3, <1>4

\* The times in the heap are numbers.
LEMMA TimeType ==
    ASSUME heap \in Seq(Entry), NEW i \in 1 .. Count
    PROVE  heap[i] \in Entry /\ heap[i].next \in Nat
<1>1. heap[i] \in Entry
    BY ElementOfSeq DEF Count
<1> QED
    BY <1>1, TimerAssumption DEF Entry, Time

\* _sift_down looks at the entry and at its children.
LEMMA SmallestProperties ==
    ASSUME heap \in Seq(Entry), NEW i \in 1 .. Count
    PROVE  /\ SmallestAt(i) \in 1 .. Count
           /\ SmallestAt(i) # i => Parent(SmallestAt(i)) = i
           /\ SmallestAt(i) # i => heap[SmallestAt(i)].next < heap[i].next
           /\ \A k \in 1 .. Count : Parent(k) = i =>
                 heap[SmallestAt(i)].next <= heap[k].next
           /\ heap[SmallestAt(i)].next <= heap[i].next
<1>1. Count \in Nat /\ i \in Nat \ {0}
    BY LenProperties DEF Count
<1>2. \A k \in 1 .. Count : heap[k].next \in Nat
    BY TimeType
<1>3. \A k \in Nat : Parent(k) = i <=> k = 2 * i \/ k = 2 * i + 1
    BY <1>1, ChildProperties
<1> DEFINE left == 2 * i
           right == 2 * i + 1
           first == IF left <= Count /\ heap[left].next < heap[i].next THEN left ELSE i
<1>4. left \in Nat /\ right \in Nat /\ left >= 1 /\ right >= 1 /\ left # i /\ right # i
    BY <1>1
<1>5. SmallestAt(i) = IF right <= Count /\ heap[right].next < heap[first].next
                      THEN right ELSE first
    BY DEF SmallestAt
<1>6. \A k \in 1 .. Count : Parent(k) = i <=> k = left \/ k = right
    BY <1>1, <1>3
<1>7. left <= Count => left \in 1 .. Count
    BY <1>1, <1>4
<1>8. right <= Count => right \in 1 .. Count
    BY <1>1, <1>4
<1>9. i \in 1 .. Count
    OBVIOUS
<1> HIDE DEF left, right, first
<1>10. first = IF left <= Count /\ heap[left].next < heap[i].next THEN left ELSE i
    BY DEF first
<1>11. /\ first \in 1 .. Count /\ first \in {left, i}
       /\ heap[first].next <= heap[i].next
       /\ first # i => heap[first].next < heap[i].next
       /\ left \in 1 .. Count => heap[first].next <= heap[left].next
    BY <1>1, <1>2, <1>4, <1>7, <1>9, <1>10
<1> DEFINE s == SmallestAt(i)
<1> HIDE DEF s
<1>12. s = IF right <= Count /\ heap[right].next < heap[first].next THEN right ELSE first
    BY <1>5 DEF s
<1>13. /\ s \in 1 .. Count /\ s \in {left, right, i}
       /\ heap[s].next <= heap[i].next
       /\ s # i => heap[s].next < heap[i].next
       /\ left \in 1 .. Count => heap[s].next <= heap[left].next
       /\ right \in 1 .. Count => heap[s].next <= heap[right].next
    BY <1>1, <1>2, <1>4, <1>8, <1>9, <1>11, <1>12
<1> QED
    BY <1>6, <1>13 DEF s

-----------------------------------------------------------------------------
(* Types *)

\* Numbers that the indices are compared with.
LEMMA CountType ==
    ASSUME TypeOK
    PROVE  Count \in Nat /\ idx \in Nat \ {0} /\ origin \in Nat \ {0}
<1>1. Count \in Nat
    BY LenProperties DEF TypeOK, Count
<1> QED
    BY <1>1 DEF TypeOK

LEMMA InitType == Init => TypeOK
<1> SUFFICES ASSUME Init PROVE TypeOK
    OBVIOUS
<1>1. heap \in Seq(Entry) /\ Count = 0
    BY EmptySeq DEF Init, Count
<1>2. clock \in 0 .. LastTime /\ now \in 0 .. LastTime
    BY TimerAssumption DEF Init
<1>3. capacity \in Nat \ {0} /\ Count <= capacity
    BY <1>1, TimerAssumption DEF Init
<1>4. idx \in 1 .. (Count + 1) /\ origin \in Nat \ {0}
    BY <1>1 DEF Init
<1>5. target \in Tasks \cup {None} /\ fired \in SUBSET Tasks
    BY DEF Init
<1> QED
    BY <1>1, <1>2, <1>3, <1>4, <1>5 DEF Init, TypeOK

\* _remove_at takes one entry away.
LEMMA RemoveAtProperties ==
    ASSUME TypeOK, NEW i \in 1 .. Count, RemoveAt(i)
    PROVE  /\ heap' \in Seq(Entry) /\ Count' = Count - 1
           /\ \A k \in 1 .. (Count - 1) :
                 heap'[k] = IF k = i THEN heap[Count] ELSE heap[k]
           /\ idx' \in 1 .. (Count' + 1) /\ origin' \in Nat \ {0}
           /\ sift' # "none" => idx' <= Count' /\ origin' <= Count'
           /\ sift' \in {"none", "down"} /\ capacity' = capacity
<1>1. Count \in Nat /\ heap # <<>> /\ i \in Nat /\ heap \in Seq(Entry)
    BY CountType, EmptySeq DEF TypeOK, Count
<1>2. /\ heap' \in Seq(Entry) /\ Len(heap') = Count - 1
      /\ \A k \in 1 .. (Count - 1) : heap'[k] = IF k = i THEN heap[Count] ELSE heap[k]
    BY <1>1, SwapRemoveProperties DEF RemoveAt, Count
<1>3. Count' = Count - 1
    BY <1>2 DEF Count
<1>4. idx' = i /\ origin' = i /\ (sift' = IF i = Count THEN "none" ELSE "down")
      /\ capacity' = capacity
    BY DEF RemoveAt
<1> QED
    BY <1>1, <1>2, <1>3, <1>4

\* Every step preserves the types and the bounds of the indices.
LEMMA NextType == TypeOK /\ [Next]_vars => TypeOK'
<1> SUFFICES ASSUME TypeOK, [Next]_vars PROVE TypeOK'
    OBVIOUS
<1> USE DEF heapVars
<1>0. Count \in Nat /\ idx \in Nat \ {0} /\ origin \in Nat \ {0} /\ heap \in Seq(Entry)
      /\ capacity \in Nat \ {0} /\ Count <= capacity
    BY CountType DEF TypeOK
<1>u. UNCHANGED heap => UNCHANGED Count
    BY DEF Count
<1>1. ASSUME NEW t \in Tasks, NEW delay \in Delays, NEW repeating \in BOOLEAN,
             SetTimer(t, delay, repeating)
      PROVE  TypeOK'
    <2> DEFINE entry == [next |-> Add(clock, delay), interval |-> delay,
                         repeating |-> repeating, task |-> t]
    <2>1. Push(entry) /\ UNCHANGED <<clock, now, pc, target, fired>>
        BY <1>1 DEF SetTimer
    <2>2. clock \in Nat /\ delay \in Nat
        BY TimerAssumption DEF TypeOK
    <2>3. entry \in Entry
        BY <2>2, AddType DEF Entry
    <2> HIDE DEF entry
    <2>4. CASE heap' = Append(heap, entry) /\ sift' = "up"
               /\ (capacity' = IF Count >= capacity THEN 2 * capacity ELSE capacity)
               /\ idx' = Count + 1 /\ origin' = 1
        <3>1. heap' \in Seq(Entry) /\ Count' = Count + 1
            BY <1>0, <2>3, <2>4, AppendProperties DEF Count
        <3>2. capacity' \in Nat \ {0} /\ Count' <= capacity'
            BY <1>0, <2>4, <3>1
        <3> QED
            BY <1>0, <2>1, <2>4, <3>1, <3>2 DEF TypeOK
    <2>5. CASE UNCHANGED heapVars
        BY <1>u, <2>1, <2>5 DEF TypeOK
    <2> QED
        BY <2>1, <2>4, <2>5 DEF Push
<1>2. ASSUME NEW t \in Tasks, RemoveTask(t) PROVE TypeOK'
    BY <1>0, <1>u, <1>2 DEF RemoveTask, TypeOK
<1>3. CASE UpdateTimers
    BY <1>u, <1>3 DEF UpdateTimers, TypeOK
<1>4. CASE PollerWait
    <2>1. clock' \in 0 .. LastTime
        <3>1. NextTimeout \in Nat
            <4>1. CASE heap = <<>>
                BY <4>1, TimerAssumption DEF NextTimeout
            <4>2. CASE heap # <<>>
                <5>1. 1 \in 1 .. Count
                    BY <1>0, <4>2, EmptySeq DEF Count
                <5>2. heap[1].next \in Nat /\ clock \in Nat
                    BY <1>0, <5>1, TimeType DEF TypeOK
                <5> QED
                    BY <4>2, <5>2, TimerAssumption DEF NextTimeout
            <4> QED BY <4>1, <4>2
        <3> QED
            BY <1>4, <3>1 DEF PollerWait, TypeOK
    <2> QED
        BY <1>u, <1>4, <2>1 DEF PollerWait, TypeOK
<1>5. CASE TimePasses
    <2>1. clock' \in 0 .. LastTime
        BY <1>5, TimerAssumption DEF TimePasses, TypeOK
    <2> QED
        BY <1>u, <1>5, <2>1 DEF TimePasses, TypeOK
<1>6. CASE SiftUp
    <2>0. idx \in 1 .. Count /\ origin <= Count
        BY <1>0, <1>6 DEF SiftUp, TypeOK
    <2>1. CASE /\ idx > 1 /\ heap' = Swap(idx, Parent(idx)) /\ idx' = Parent(idx)
               /\ UNCHANGED sift
        <3>1. Parent(idx) \in 1 .. Count
            BY <1>0, <2>0, <2>1, ParentProperties
        <3>2. heap' \in Seq(Entry) /\ Count' = Count
            BY <1>0, <2>0, <2>1, <3>1, SwapProperties DEF Count
        <3> QED
            BY <1>0, <1>6, <2>0, <2>1, <3>1, <3>2 DEF SiftUp, TypeOK
    <2>2. CASE sift' = "none" /\ idx' = origin /\ UNCHANGED heap
        BY <1>0, <1>u, <1>6, <2>0, <2>2 DEF SiftUp, TypeOK
    <2> QED
        BY <1>6, <2>1, <2>2 DEF SiftUp
<1>7. CASE SiftDown
    <2>0. idx \in 1 .. Count /\ origin <= Count
        BY <1>0, <1>7 DEF SiftDown, TypeOK
    <2>1. CASE /\ heap' = Swap(idx, SmallestAt(idx)) /\ idx' = SmallestAt(idx)
               /\ UNCHANGED sift
        <3>1. SmallestAt(idx) \in 1 .. Count
            BY <1>0, <2>0, SmallestProperties
        <3>2. heap' \in Seq(Entry) /\ Count' = Count
            BY <1>0, <2>0, <2>1, <3>1, SwapProperties DEF Count
        <3> QED
            BY <1>0, <1>7, <2>0, <2>1, <3>1, <3>2 DEF SiftDown, TypeOK
    <2>2. CASE /\ sift' = IF origin = 1 THEN "none" ELSE "up"
               /\ idx' = origin /\ UNCHANGED heap
        BY <1>0, <1>u, <1>7, <2>0, <2>2 DEF SiftDown, TypeOK
    <2> QED
        BY <1>7, <2>1, <2>2 DEF SiftDown
<1>8. CASE RemoveScan
    <2>0. idx \in 1 .. Count
        BY <1>0, <1>8 DEF RemoveScan
    <2>1. CASE RemoveAt(idx)
        BY <1>0, <1>8, <2>0, <2>1, RemoveAtProperties DEF RemoveScan, TypeOK
    <2>2. CASE idx' = idx + 1 /\ UNCHANGED <<heap, capacity, sift, origin>>
        BY <1>0, <1>u, <1>8, <2>0, <2>2 DEF RemoveScan, TypeOK
    <2> QED
        BY <1>8, <2>1, <2>2 DEF RemoveScan
<1>9. CASE RemoveDone
    BY <1>0, <1>u, <1>9 DEF RemoveDone, TypeOK
<1>10. CASE FireTop
    <2>0. 1 \in 1 .. Count
        BY <1>0, <1>10, EmptySeq DEF FireTop, Count
    <2>1. heap[1] \in Entry
        BY <1>0, <2>0, TimeType
    <2>2. fired' \in SUBSET Tasks
        BY <1>10, <2>1 DEF FireTop, TypeOK, Entry
    <2>3. CASE /\ heap' = [heap EXCEPT ![1].next = NextFire(heap[1])] /\ sift' = "down"
               /\ idx' = 1 /\ origin' = 1 /\ UNCHANGED capacity
        <3>1. NextFire(heap[1]) \in Time
            <4>1. now \in Nat /\ now <= LastTime
                BY TimerAssumption DEF TypeOK
            <4>0. heap[1].interval \in Nat
                <5>1. heap[1].interval \in Delays
                    BY <2>1 DEF Entry
                <5>2. \A delay \in Delays : delay \in Nat
                    BY TimerAssumption
                <5> QED BY <5>1, <5>2
            <4>2. Add(now, heap[1].interval) \in Time
                BY <4>0, <4>1, AddType
            <4>3. now + 1 \in Time
                BY <4>1, TimerAssumption DEF Time
            <4> QED
                BY <4>2, <4>3 DEF NextFire
        <3> DEFINE top == [heap[1] EXCEPT !.next = NextFire(heap[1])]
        <3>2. top \in Entry
            BY <2>1, <3>1 DEF Entry
        <3>3. heap' = [heap EXCEPT ![1] = top]
            BY <2>3
        <3> HIDE DEF top
        <3>4. heap' \in Seq(Entry) /\ Count' = Count
            BY <1>0, <2>0, <3>2, <3>3, ExceptSeq DEF Count
        <3> QED
            BY <1>0, <1>10, <2>0, <2>2, <2>3, <3>4 DEF FireTop, TypeOK
    <2>4. CASE RemoveAt(1)
        BY <1>0, <1>10, <2>0, <2>2, <2>4, RemoveAtProperties DEF FireTop, TypeOK
    <2> QED
        BY <1>10, <2>3, <2>4 DEF FireTop
<1>11. CASE UpdateDone
    <2>1. now' \in 0 .. LastTime /\ fired' \in SUBSET Tasks
        BY <1>11, TimerAssumption DEF UpdateDone
    <2> QED
        BY <1>u, <1>11, <2>1 DEF UpdateDone, TypeOK
<1>12. CASE UNCHANGED vars
    BY <1>u, <1>12 DEF vars, TypeOK
<1> QED
    BY <1>1, <1>2, <1>3, <1>4, <1>5, <1>6, <1>7, <1>8, <1>9, <1>10, <1>11, <1>12
    DEF Next, Operation, Loop

-----------------------------------------------------------------------------
(* Order *)

HeapInv == TypeOK /\ HeapOrder

\* The times are numbers, before and after a step.
LEMMA OrderTypes ==
    ASSUME TypeOK, TypeOK'
    PROVE  /\ Count \in Nat /\ Count' \in Nat
           /\ \A i \in 1 .. Count : heap[i].next \in Nat
           /\ \A i \in 1 .. Count' : heap'[i].next \in Nat
           /\ idx \in Nat \ {0} /\ idx' \in Nat \ {0}
<1>1. \A i \in 1 .. Count : heap[i].next \in Nat
    BY TimeType DEF TypeOK
<1>2. heap' \in Seq(Entry) /\ Count' = Len(heap')
    BY DEF TypeOK, Count
<1>3. \A i \in 1 .. Count' : heap'[i] \in Entry
    BY <1>2, ElementOfSeq
<1>4. \A i \in 1 .. Count' : heap'[i].next \in Nat
    BY <1>3, TimerAssumption DEF Entry, Time
<1>5. Count' \in Nat
    BY <1>2, LenProperties
<1>6. idx' \in Nat \ {0}
    BY <1>5 DEF TypeOK
<1> QED
    BY <1>1, <1>4, <1>5, <1>6, CountType

\* Outside the sifts a heap is ordered everywhere.
LEMMA Ordered ==
    ASSUME HeapOrder, sift = "none"
    PROVE  \A i \in 2 .. Count : heap[Parent(i)].next <= heap[i].next
BY DEF HeapOrder

\* _sift_up: the small entry moves to its parent's place.
LEMMA SiftUpOrder ==
    ASSUME HeapInv, TypeOK', SiftUp
    PROVE  HeapOrder'
<1> USE DEF HeapInv
<1>0. /\ Count \in Nat /\ idx \in 1 .. Count /\ sift = "up"
      /\ \A i \in 1 .. Count : heap[i].next \in Nat
    BY CountType, OrderTypes DEF SiftUp, TypeOK
<1>p. \A i \in 2 .. Count : Parent(i) \in 1 .. Count /\ Parent(i) < i
    BY <1>0, ParentProperties
<1>1. CASE /\ idx > 1 /\ heap[Parent(idx)].next > heap[idx].next
           /\ heap' = Swap(idx, Parent(idx)) /\ idx' = Parent(idx) /\ UNCHANGED sift
    <2> DEFINE p == Parent(idx)
    <2>1. p \in 1 .. Count /\ p < idx /\ p # idx
        BY <1>0, <1>1, <1>p
    <2>a. heap \in Seq(Entry)
        BY DEF TypeOK
    <2>b. heap' = Swap(idx, p)
        BY <1>1
    <2> HIDE DEF p, HeapInv
    <2>c. /\ Len(Swap(idx, p)) = Count
          /\ \A j \in 1 .. Count :
                Swap(idx, p)[j] = IF j = p THEN heap[idx] ELSE IF j = idx THEN heap[p] ELSE heap[j]
        BY <1>0, <2>1, <2>a, SwapProperties
    <2>d. Count' = Count
        BY <2>b, <2>c DEF Count
    <2> USE DEF p, HeapInv
    <2>2. /\ Count' = Count
          /\ \A j \in 1 .. Count :
                heap'[j] = IF j = p THEN heap[idx] ELSE IF j = idx THEN heap[p] ELSE heap[j]
        BY <2>b, <2>c, <2>d
    <2>3. \A i \in 2 .. Count : i # idx => heap[Parent(i)].next <= heap[i].next
        BY <1>0 DEF HeapOrder
    <2>4. \A i \in 2 .. Count : Parent(i) = idx => heap[p].next <= heap[i].next
        BY <1>0, <1>1 DEF HeapOrder
    <2>5. heap[idx].next < heap[p].next
        BY <1>0, <1>1, <2>1
    <2>6. p > 1 => heap[Parent(p)].next <= heap[p].next
        BY <2>1, <2>3
    <2> HIDE DEF p
    <2>7. \A i \in 2 .. Count : i # p => heap'[Parent(i)].next <= heap'[i].next
        <3> SUFFICES ASSUME NEW i \in 2 .. Count, i # p
                     PROVE  heap'[Parent(i)].next <= heap'[i].next
            OBVIOUS
        <3>1. Parent(i) \in 1 .. Count /\ i \in 1 .. Count
            BY <1>0, <1>p
        <3>2. CASE i = idx
            BY <1>0, <2>1, <2>2, <2>5, <3>2 DEF p
        <3>3. CASE i # idx /\ Parent(i) = p
            BY <1>0, <2>1, <2>2, <2>3, <2>5, <3>1, <3>3
        <3>4. CASE i # idx /\ Parent(i) = idx
            BY <1>0, <2>1, <2>2, <2>4, <3>1, <3>4
        <3>5. CASE i # idx /\ Parent(i) # idx /\ Parent(i) # p
            BY <1>0, <2>2, <2>3, <3>1, <3>5
        <3> QED BY <3>2, <3>3, <3>4, <3>5
    <2>8. \A i \in 2 .. Count : Parent(i) = p /\ p > 1 => heap'[Parent(p)].next <= heap'[i].next
        <3> SUFFICES ASSUME NEW i \in 2 .. Count, Parent(i) = p, p > 1
                     PROVE  heap'[Parent(p)].next <= heap'[i].next
            OBVIOUS
        <3>1. p \in 2 .. Count /\ i \in 1 .. Count /\ i # p
            BY <1>0, <2>1, <1>p
        <3>2. Parent(p) \in 1 .. Count /\ Parent(p) # p /\ Parent(p) # idx
            BY <1>0, <1>p, <2>1, <3>1
        <3>3. heap'[Parent(p)] = heap[Parent(p)]
            BY <2>2, <3>2
        <3>4. CASE i = idx
            BY <2>1, <2>2, <2>6, <3>1, <3>3, <3>4
        <3>5. CASE i # idx
            <4>1. heap[p].next <= heap[i].next
                BY <2>3, <3>5
            <4> QED
                BY <1>0, <2>1, <2>2, <2>6, <3>1, <3>2, <3>3, <3>5, <4>1
        <3> QED BY <3>4, <3>5
    <2> QED
        BY <1>0, <1>1, <2>2, <2>7, <2>8 DEF HeapOrder, p
<1>2. CASE /\ idx > 1 => heap[Parent(idx)].next <= heap[idx].next
           /\ sift' = "none" /\ UNCHANGED heap
    <2>1. \A i \in 2 .. Count : heap[Parent(i)].next <= heap[i].next
        BY <1>0, <1>2 DEF HeapOrder
    <2>2. Count' = Count
        BY <1>2 DEF Count
    <2> QED
        BY <1>2, <2>1, <2>2 DEF HeapOrder
<1> QED
    BY <1>1, <1>2 DEF SiftUp

\* _sift_down: the large entry moves to the place of its smallest child.
LEMMA SiftDownOrder ==
    ASSUME HeapInv, TypeOK', SiftDown
    PROVE  HeapOrder'
<1> USE DEF HeapInv
<1>0. /\ Count \in Nat /\ idx \in 1 .. Count /\ origin \in 1 .. Count /\ sift = "down"
      /\ heap \in Seq(Entry) /\ \A i \in 1 .. Count : heap[i].next \in Nat
    BY CountType, OrderTypes DEF SiftDown, TypeOK
<1>p. \A i \in 2 .. Count : Parent(i) \in 1 .. Count /\ Parent(i) < i
    BY <1>0, ParentProperties
<1> DEFINE s == SmallestAt(idx)
<1>s. /\ s \in 1 .. Count
      /\ s # idx => Parent(s) = idx /\ heap[s].next < heap[idx].next
      /\ \A k \in 1 .. Count : Parent(k) = idx => heap[s].next <= heap[k].next
    BY <1>0, SmallestProperties
<1>g. \A i \in 2 .. Count :
         Parent(i) = idx /\ idx > 1 => heap[Parent(idx)].next <= heap[i].next
    BY <1>0 DEF HeapOrder
<1>h. \A i \in 2 .. Count : i # idx /\ Parent(i) # idx => heap[Parent(i)].next <= heap[i].next
    BY <1>0 DEF HeapOrder
<1>1. CASE /\ s # idx /\ heap' = Swap(idx, s) /\ idx' = s /\ UNCHANGED <<sift, origin>>
    <2>1. /\ Count' = Count
          /\ \A j \in 1 .. Count :
                heap'[j] = IF j = s THEN heap[idx] ELSE IF j = idx THEN heap[s] ELSE heap[j]
        BY <1>0, <1>1, <1>s, SwapProperties DEF Count
    <2> HIDE DEF s
    <2>2. s \in 2 .. Count /\ Parent(s) = idx /\ s > idx
        <3>1. s # 1
            BY <1>0, <1>1, <1>s DEF Parent
        <3> QED BY <1>0, <1>1, <1>s, <1>p, <3>1
    <2>3. \A i \in 2 .. Count : Parent(i) # s => heap'[Parent(i)].next <= heap'[i].next
        <3> SUFFICES ASSUME NEW i \in 2 .. Count, Parent(i) # s
                     PROVE  heap'[Parent(i)].next <= heap'[i].next
            OBVIOUS
        <3>1. Parent(i) \in 1 .. Count /\ i \in 1 .. Count /\ Parent(i) # i
            BY <1>0, <1>p
        <3>2. CASE i = idx
            BY <1>0, <1>g, <2>1, <2>2, <3>1, <3>2
        <3>3. CASE i = s
            BY <1>0, <1>1, <1>s, <2>1, <2>2, <3>1, <3>3
        <3>4. CASE i # idx /\ i # s /\ Parent(i) = idx
            BY <1>0, <1>s, <2>1, <2>2, <3>1, <3>4
        <3>5. CASE i # idx /\ i # s /\ Parent(i) # idx
            BY <1>0, <1>h, <2>1, <3>1, <3>5
        <3> QED BY <3>2, <3>3, <3>4, <3>5
    <2>4. \A i \in 2 .. Count : Parent(i) = s => heap'[Parent(s)].next <= heap'[i].next
        <3> SUFFICES ASSUME NEW i \in 2 .. Count, Parent(i) = s
                     PROVE  heap'[Parent(s)].next <= heap'[i].next
            OBVIOUS
        <3>1. i \in 1 .. Count /\ i # s /\ i # idx /\ Parent(i) # idx
            BY <1>0, <1>p, <2>2
        <3>2. heap[s].next <= heap[i].next
            BY <1>h, <3>1
        <3> QED
            BY <1>0, <2>1, <2>2, <3>1, <3>2
    <2> QED
        BY <1>0, <1>1, <2>1, <2>3, <2>4 DEF HeapOrder
<1>2. CASE /\ s = idx /\ sift' = (IF origin = 1 THEN "none" ELSE "up") /\ idx' = origin
           /\ UNCHANGED heap
    <2>0. Count' = Count
        BY <1>2 DEF Count
    <2>1. \A i \in 2 .. Count : Parent(i) = idx => heap[Parent(i)].next <= heap[i].next
        BY <1>0, <1>s, <1>2
    <2>2. \A i \in 2 .. Count : i # origin => heap[Parent(i)].next <= heap[i].next
        BY <1>0, <2>1 DEF HeapOrder
    <2>3. \A i \in 2 .. Count :
             Parent(i) = origin /\ origin > 1 => heap[Parent(origin)].next <= heap[i].next
        <3>1. CASE idx = origin
            BY <1>g, <3>1
        <3>2. CASE idx # origin
            <4> SUFFICES ASSUME NEW i \in 2 .. Count, Parent(i) = origin, origin > 1
                         PROVE  heap[Parent(origin)].next <= heap[i].next
                OBVIOUS
            <4>1. origin \in 2 .. Count /\ i # origin /\ i \in 1 .. Count
                  /\ Parent(origin) \in 1 .. Count
                BY <1>0, <1>p
            <4>2. heap[Parent(origin)].next <= heap[origin].next
                BY <1>0, <2>1, <3>2, <4>1 DEF HeapOrder
            <4>3. heap[origin].next <= heap[i].next
                BY <2>2, <4>1
            <4> QED
                BY <1>0, <4>1, <4>2, <4>3
        <3> QED BY <3>1, <3>2
    <2> QED
        BY <1>0, <1>2, <2>0, <2>2, <2>3 DEF HeapOrder
<1> QED
    BY <1>1, <1>2 DEF SiftDown

\* _remove_at puts the last entry in the place of the removed one.
LEMMA RemoveAtOrder ==
    ASSUME HeapInv, TypeOK', sift = "none", NEW i \in 1 .. Count, RemoveAt(i)
    PROVE  HeapOrder'
<1> USE DEF HeapInv
<1>0. /\ Count \in Nat /\ \A k \in 1 .. Count : heap[k].next \in Nat
    BY CountType, OrderTypes
<1>p. \A k \in 2 .. Count : Parent(k) \in 1 .. Count /\ Parent(k) < k
    BY <1>0, ParentProperties
<1>1. /\ Count' = Count - 1
      /\ \A k \in 1 .. (Count - 1) : heap'[k] = IF k = i THEN heap[Count] ELSE heap[k]
      /\ idx' = i /\ origin' = i /\ (sift' = IF i = Count THEN "none" ELSE "down")
    BY RemoveAtProperties DEF RemoveAt
<1>2. \A k \in 2 .. Count : heap[Parent(k)].next <= heap[k].next
    BY Ordered
<1>3. \A k \in 2 .. (Count - 1) : k # i /\ Parent(k) # i => heap'[Parent(k)].next <= heap'[k].next
    <2> SUFFICES ASSUME NEW k \in 2 .. (Count - 1), k # i, Parent(k) # i
                 PROVE  heap'[Parent(k)].next <= heap'[k].next
        OBVIOUS
    <2>1. k \in 2 .. Count /\ k \in 1 .. (Count - 1) /\ Parent(k) \in 1 .. (Count - 1)
        BY <1>0, <1>p
    <2> QED
        BY <1>1, <1>2, <2>1
<1>4. \A k \in 2 .. (Count - 1) : Parent(k) = i /\ i > 1 => heap'[Parent(i)].next <= heap'[k].next
    <2> SUFFICES ASSUME NEW k \in 2 .. (Count - 1), Parent(k) = i, i > 1
                 PROVE  heap'[Parent(i)].next <= heap'[k].next
        OBVIOUS
    <2>1. /\ k \in 2 .. Count /\ k \in 1 .. (Count - 1) /\ k # i /\ i \in 2 .. Count
          /\ Parent(i) \in 1 .. (Count - 1) /\ Parent(i) # i
        BY <1>0, <1>p
    <2>2. heap[Parent(i)].next <= heap[i].next /\ heap[i].next <= heap[k].next
        BY <1>2, <2>1
    <2>3. heap'[Parent(i)] = heap[Parent(i)] /\ heap'[k] = heap[k]
        BY <1>1, <2>1
    <2>4. heap[Parent(i)].next \in Nat /\ heap[i].next \in Nat /\ heap[k].next \in Nat
        BY <1>0, <2>1
    <2> QED
        BY <2>2, <2>3, <2>4
<1>5. i = Count => \A k \in 2 .. (Count - 1) : k # i /\ Parent(k) # i
    BY <1>0, <1>p
<1> QED
    BY <1>1, <1>3, <1>4, <1>5 DEF HeapOrder

\* bb_timer_heap_push puts the new entry at the end.
LEMMA PushOrder ==
    ASSUME HeapInv, TypeOK', sift = "none", NEW entry \in Entry, Push(entry)
    PROVE  HeapOrder'
<1> USE DEF HeapInv
<1>0. /\ Count \in Nat /\ heap \in Seq(Entry)
    BY CountType DEF TypeOK
<1>p. \A k \in 2 .. (Count + 1) : Parent(k) \in 1 .. Count /\ Parent(k) < k
    BY <1>0, ParentProperties
<1>1. CASE heap' = Append(heap, entry) /\ sift' = "up" /\ idx' = Count + 1
    <2>1. /\ Count' = Count + 1
          /\ \A k \in 1 .. Count : heap'[k] = heap[k]
        BY <1>0, <1>1, AppendProperties DEF Count
    <2>2. \A k \in 2 .. Count : heap[Parent(k)].next <= heap[k].next
        BY Ordered
    <2>3. \A k \in 2 .. Count : heap'[Parent(k)].next <= heap'[k].next
        <3> SUFFICES ASSUME NEW k \in 2 .. Count
                     PROVE  heap'[Parent(k)].next <= heap'[k].next
            OBVIOUS
        <3>1. k \in 1 .. Count /\ Parent(k) \in 1 .. Count
            BY <1>0, <1>p
        <3> QED
            BY <2>1, <2>2, <3>1
    <2>4. \A k \in 2 .. (Count + 1) : Parent(k) # Count + 1
        BY <1>0, <1>p
    <2>5. \A k \in 2 .. (Count + 1) : k \in 2 .. Count \/ k = Count + 1
        BY <1>0
    <2> QED
        BY <1>1, <2>1, <2>3, <2>4, <2>5 DEF HeapOrder
<1>2. CASE UNCHANGED heapVars
    BY <1>2 DEF heapVars, HeapOrder, Count
<1> QED
    BY <1>1, <1>2 DEF Push

\* bb_timer_heap_reschedule_top: only the root changes.
LEMMA RescheduleOrder ==
    ASSUME HeapInv, TypeOK', sift = "none", heap # <<>>, NEW time,
           heap' = [heap EXCEPT ![1].next = time], sift' = "down", idx' = 1, origin' = 1
    PROVE  HeapOrder'
<1> USE DEF HeapInv
<1>0. /\ Count \in Nat /\ heap \in Seq(Entry)
    BY CountType DEF TypeOK
<1>p. \A k \in 2 .. Count : Parent(k) \in 1 .. Count /\ Parent(k) < k
    BY <1>0, ParentProperties
<1>1. \A k \in 2 .. Count : heap[Parent(k)].next <= heap[k].next
    BY Ordered
<1>2. Count' = Count
    <2>1. DOMAIN heap' = DOMAIN heap /\ DOMAIN heap = 1 .. Count
        BY <1>0, LenProperties DEF Count
    <2>2. heap' \in Seq(Entry) /\ DOMAIN heap' = 1 .. Count' /\ Count' \in Nat
        BY LenProperties DEF TypeOK, Count
    <2> QED
        BY <1>0, <2>1, <2>2
<1>3. \A k \in 1 .. Count : k # 1 => heap'[k] = heap[k]
    BY <1>0, LenProperties DEF Count
<1>4. \A k \in 2 .. Count : Parent(k) # 1 => heap'[Parent(k)].next <= heap'[k].next
    <2> SUFFICES ASSUME NEW k \in 2 .. Count, Parent(k) # 1
                 PROVE  heap'[Parent(k)].next <= heap'[k].next
        OBVIOUS
    <2>1. k \in 1 .. Count /\ k # 1 /\ Parent(k) \in 1 .. Count
        BY <1>0, <1>p
    <2> QED
        BY <1>1, <1>3, <2>1
<1> QED
    BY <1>2, <1>4 DEF HeapOrder

\* HeapOrder is preserved by every step.
LEMMA NextOrder == HeapInv /\ [Next]_vars => HeapInv'
<1> SUFFICES ASSUME HeapInv, [Next]_vars PROVE HeapOrder'
    BY NextType DEF HeapInv
<1>0. TypeOK /\ TypeOK' /\ HeapOrder
    BY NextType DEF HeapInv
<1>u. ASSUME UNCHANGED <<heap, sift, idx, origin>> PROVE HeapOrder'
    BY <1>0, <1>u DEF HeapOrder, Count
<1>v. ASSUME UNCHANGED <<heap, sift>>, sift = "none" PROVE HeapOrder'
    BY <1>0, <1>v DEF HeapOrder, Count
<1>1. ASSUME NEW t \in Tasks, NEW delay \in Delays, NEW repeating \in BOOLEAN,
             SetTimer(t, delay, repeating)
      PROVE  HeapOrder'
    <2> DEFINE entry == [next |-> Add(clock, delay), interval |-> delay,
                         repeating |-> repeating, task |-> t]
    <2>1. clock \in Nat /\ delay \in Nat
        BY <1>0, TimerAssumption DEF TypeOK
    <2>2. entry \in Entry
        BY <2>1, AddType DEF Entry
    <2>3. Push(entry) /\ sift = "none"
        BY <1>1 DEF SetTimer
    <2> HIDE DEF entry
    <2> QED
        BY <1>0, <2>2, <2>3, PushOrder DEF HeapInv
<1>2. ASSUME NEW t \in Tasks, RemoveTask(t) PROVE HeapOrder'
    BY <1>v, <1>2 DEF RemoveTask
<1>3. CASE UpdateTimers \/ PollerWait \/ TimePasses \/ UpdateDone
    BY <1>u, <1>3 DEF UpdateTimers, PollerWait, TimePasses, UpdateDone, heapVars
<1>4. CASE SiftUp
    BY <1>0, <1>4, SiftUpOrder DEF HeapInv
<1>5. CASE SiftDown
    BY <1>0, <1>5, SiftDownOrder DEF HeapInv
<1>6. CASE RemoveScan
    <2>1. idx \in 1 .. Count /\ sift = "none"
        BY <1>0, <1>6, CountType DEF RemoveScan
    <2>2. CASE RemoveAt(idx)
        BY <1>0, <2>1, <2>2, RemoveAtOrder DEF HeapInv
    <2>3. CASE UNCHANGED <<heap, sift>>
        BY <1>v, <2>1, <2>3
    <2> QED
        BY <1>6, <2>2, <2>3 DEF RemoveScan
<1>7. CASE RemoveDone
    BY <1>v, <1>7 DEF RemoveDone
<1>8. CASE FireTop
    <2>1. heap # <<>> /\ sift = "none" /\ 1 \in 1 .. Count
        BY <1>0, <1>8, EmptySeq, CountType DEF FireTop, Count, TypeOK
    <2>2. CASE /\ heap' = [heap EXCEPT ![1].next = NextFire(heap[1])] /\ sift' = "down"
               /\ idx' = 1 /\ origin' = 1
        BY <1>0, <2>1, <2>2, RescheduleOrder DEF HeapInv
    <2>3. CASE RemoveAt(1)
        BY <1>0, <2>1, <2>3, RemoveAtOrder DEF HeapInv
    <2> QED
        BY <1>8, <2>2, <2>3 DEF FireTop
<1>9. CASE UNCHANGED vars
    BY <1>u, <1>9 DEF vars
<1> QED
    BY <1>0, <1>1, <1>2, <1>3, <1>4, <1>5, <1>6, <1>7, <1>8, <1>9
    DEF HeapInv, Next, Operation, Loop

LEMMA InitOrder == Init => HeapInv
<1> SUFFICES ASSUME Init PROVE HeapOrder
    BY InitType DEF HeapInv
<1>1. Count = 0 /\ sift = "none"
    BY EmptySeq DEF Init, Count
<1> QED
    BY <1>1 DEF HeapOrder

\* For any number of timers and any delays, wrapping ones included, the indices
\* of timer_heap.c stay inside the array and the array is a heap, up to the
\* repair in progress.
THEOREM HeapOrderAlways == Spec => [](TypeOK /\ HeapOrder)
<1>1. Init => HeapInv
    BY InitOrder
<1>2. HeapInv /\ [Next]_vars => HeapInv'
    BY NextOrder
<1> QED
    BY <1>1, <1>2, PTL DEF Spec, HeapInv

\* A timer that is re-armed is not due again, whatever its interval and also
\* when the sum wraps: the timer loop cannot see it a second time.
LEMMA RearmedLater ==
    ASSUME TypeOK, NEW entry \in Entry
    PROVE  NextFire(entry) > now
<1>1. now \in Nat
    BY TimerAssumption DEF TypeOK
<1>2. entry.interval \in Delays /\ \A delay \in Delays : delay \in Nat
    BY TimerAssumption DEF Entry
<1>3. Add(now, entry.interval) \in Time
    BY <1>1, <1>2, AddType
<1>4. Add(now, entry.interval) \in Nat
    BY <1>3, TimerAssumption DEF Time
<1> QED
    BY <1>1, <1>4 DEF NextFire

-----------------------------------------------------------------------------
(* Which entries are in the heap *)

\* No task has two timers.
OneTimerEach ==
    \A i, k \in 1 .. Count : heap[i].task = heap[k].task => i = k

\* What this update has fired and is still in the heap was re-armed.
FiredLater ==
    /\ pc # "update" => fired = {}
    /\ pc = "update" => \A i \in 1 .. Count : heap[i].task \in fired => heap[i].next > now

\* bb_timer_heap_remove_task has removed the task, or it is not among the
\* entries that were looked at.
ScannedClean ==
    pc = "remove" =>
        \/ \A i \in 1 .. Count : heap[i].task # target
        \/ sift = "none" /\ \A i \in 1 .. Count : i < idx => heap[i].task # target

TimersInv == OneTimerEach /\ FiredLater /\ ScannedClean

\* A step that moves entries and may drop some.
Rearranged ==
    \E from \in [1 .. Count' -> 1 .. Count] :
        /\ \A i, k \in 1 .. Count' : from[i] = from[k] => i = k
        /\ \A k \in 1 .. Count' : heap'[k] = heap[from[k]]

LEMMA KeptRearranges ==
    ASSUME UNCHANGED heap
    PROVE  Rearranged
<1> DEFINE from == [k \in 1 .. Count |-> k]
<1>1. UNCHANGED Count
    BY DEF Count
<1>2. from \in [1 .. Count' -> 1 .. Count]
    BY <1>1
<1> QED
    BY <1>1, <1>2 DEF Rearranged

\* _swap
LEMMA SwapRearranges ==
    ASSUME TypeOK, NEW i \in 1 .. Count, NEW k \in 1 .. Count, heap' = Swap(i, k)
    PROVE  Rearranged
<1>0. heap \in Seq(Entry) /\ Count \in Nat
    BY CountType DEF TypeOK
<1> DEFINE from == [j \in 1 .. Count |-> IF j = k THEN i ELSE IF j = i THEN k ELSE j]
<1>1. /\ Count' = Count
      /\ \A j \in 1 .. Count :
            heap'[j] = IF j = k THEN heap[i] ELSE IF j = i THEN heap[k] ELSE heap[j]
    BY <1>0, SwapProperties DEF Count
<1>2. from \in [1 .. Count' -> 1 .. Count]
    BY <1>1
<1>3. \A j, l \in 1 .. Count' : from[j] = from[l] => j = l
    BY <1>1
<1>4. \A j \in 1 .. Count' : heap'[j] = heap[from[j]]
    BY <1>1
<1> HIDE DEF from
<1> QED
    BY <1>2, <1>3, <1>4 DEF Rearranged

\* _remove_at: every entry that stays is another one than the removed one.
LEMMA RemoveRearranges ==
    ASSUME TypeOK, NEW i \in 1 .. Count, RemoveAt(i)
    PROVE  /\ Rearranged
           /\ \A k \in 1 .. Count' : \E j \in 1 .. Count : j # i /\ heap'[k] = heap[j]
<1>0. Count \in Nat /\ Count >= 1
    BY CountType
<1> DEFINE from == [k \in 1 .. (Count - 1) |-> IF k = i THEN Count ELSE k]
<1>1. /\ Count' = Count - 1
      /\ \A k \in 1 .. (Count - 1) : heap'[k] = IF k = i THEN heap[Count] ELSE heap[k]
    BY RemoveAtProperties
<1>2. from \in [1 .. Count' -> 1 .. Count]
    BY <1>0, <1>1
<1>3. \A k, l \in 1 .. Count' : from[k] = from[l] => k = l
    BY <1>0, <1>1
<1>4. \A k \in 1 .. Count' : heap'[k] = heap[from[k]] /\ from[k] # i
    BY <1>0, <1>1
<1> HIDE DEF from
<1> QED
    BY <1>2, <1>3, <1>4 DEF Rearranged

\* What moving entries does not disturb.
LEMMA RearrangedKeeps ==
    ASSUME Rearranged
    PROVE  /\ OneTimerEach => OneTimerEach'
           /\ FiredLater /\ UNCHANGED <<pc, now, fired>> => FiredLater'
           /\ (\A i \in 1 .. Count : heap[i].task # target) /\ UNCHANGED target
              => (\A i \in 1 .. Count : heap[i].task # target)'
<1>1. PICK from \in [1 .. Count' -> 1 .. Count] :
         /\ \A i, k \in 1 .. Count' : from[i] = from[k] => i = k
         /\ \A k \in 1 .. Count' : heap'[k] = heap[from[k]]
    BY DEF Rearranged
<1>2. ASSUME OneTimerEach PROVE OneTimerEach'
    BY <1>1, <1>2 DEF OneTimerEach
<1>3. ASSUME FiredLater, UNCHANGED <<pc, now, fired>> PROVE FiredLater'
    BY <1>1, <1>3 DEF FiredLater
<1>4. ASSUME \A i \in 1 .. Count : heap[i].task # target, UNCHANGED target
      PROVE  (\A i \in 1 .. Count : heap[i].task # target)'
    BY <1>1, <1>4
<1> QED
    BY <1>2, <1>3, <1>4

\* The sifts only move entries.
LEMMA SiftRearranges ==
    ASSUME TypeOK, SiftUp \/ SiftDown
    PROVE  Rearranged
<1>0. /\ Count \in Nat /\ idx \in 1 .. Count /\ heap \in Seq(Entry)
    BY CountType DEF SiftUp, SiftDown, TypeOK
<1>1. CASE UNCHANGED heap
    BY <1>1, KeptRearranges
<1>2. CASE idx > 1 /\ heap' = Swap(idx, Parent(idx))
    <2>1. Parent(idx) \in 1 .. Count
        BY <1>0, <1>2, ParentProperties
    <2> QED
        BY <1>0, <1>2, <2>1, SwapRearranges
<1>3. CASE heap' = Swap(idx, SmallestAt(idx))
    BY <1>0, <1>3, SmallestProperties, SwapRearranges
<1> QED
    BY <1>1, <1>2, <1>3 DEF SiftUp, SiftDown

\* bb_timer_heap_push adds an entry of a task that has none.
LEMMA PushTimers ==
    ASSUME TypeOK, TypeOK', TimersInv, pc = "idle", NEW entry \in Entry, Push(entry),
           \A other \in Armed : other.task # entry.task, UNCHANGED <<now, pc, target, fired>>
    PROVE  TimersInv'
<1>0. Count \in Nat /\ heap \in Seq(Entry)
    BY CountType DEF TypeOK
<1>1. OneTimerEach'
    <2>1. CASE heap' = Append(heap, entry)
        <3>1. /\ Count' = Count + 1 /\ heap'[Count + 1] = entry
              /\ \A k \in 1 .. Count : heap'[k] = heap[k]
            BY <1>0, <2>1, AppendProperties DEF Count
        <3>2. \A k \in 1 .. Count : heap[k].task # entry.task
            BY DEF Armed
        <3>3. \A k \in 1 .. Count' : k \in 1 .. Count \/ k = Count + 1
            BY <1>0, <3>1
        <3> QED
            BY <3>1, <3>2, <3>3 DEF TimersInv, OneTimerEach
    <2>2. CASE UNCHANGED heap
        BY <2>2, KeptRearranges, RearrangedKeeps DEF TimersInv
    <2> QED
        BY <2>1, <2>2 DEF Push, heapVars
<1>2. FiredLater' /\ ScannedClean'
    BY DEF TimersInv, FiredLater, ScannedClean
<1> QED
    BY <1>1, <1>2 DEF TimersInv

\* One iteration of bb_timer_heap_remove_task.
LEMMA ScanTimers ==
    ASSUME TypeOK, TypeOK', TimersInv, RemoveScan
    PROVE  TimersInv'
<1>0. /\ Count \in Nat /\ idx \in 1 .. Count /\ idx \in Nat /\ pc = "remove" /\ sift = "none"
      /\ UNCHANGED <<now, pc, target, fired>>
    BY CountType DEF RemoveScan
<1>1. CASE heap[idx].task = target /\ RemoveAt(idx)
    <2>1. Rearranged
        BY <1>0, <1>1, RemoveRearranges
    <2>2. \A k \in 1 .. Count' : \E j \in 1 .. Count : j # idx /\ heap'[k] = heap[j]
        BY <1>0, <1>1, RemoveRearranges
    <2>3. \A k \in 1 .. Count' : heap'[k].task # target'
        BY <1>0, <1>1, <2>2 DEF TimersInv, OneTimerEach
    <2>4. OneTimerEach' /\ FiredLater'
        BY <1>0, <2>1, RearrangedKeeps DEF TimersInv
    <2>5. ScannedClean'
        BY <2>3 DEF ScannedClean
    <2> QED
        BY <2>4, <2>5 DEF TimersInv
<1>2. CASE /\ heap[idx].task # target /\ idx' = idx + 1 /\ UNCHANGED <<heap, sift>>
    <2>1. UNCHANGED Count
        BY <1>2 DEF Count
    <2>2. OneTimerEach' /\ FiredLater'
        BY <1>0, <1>2, KeptRearranges, RearrangedKeeps DEF TimersInv
    <2>3. \A i \in 1 .. Count : i < idx + 1 => i < idx \/ i = idx
        BY <1>0
    <2>4. ScannedClean'
        BY <1>0, <1>2, <2>1, <2>3 DEF TimersInv, ScannedClean
    <2> QED
        BY <2>2, <2>4 DEF TimersInv
<1> QED
    BY <1>1, <1>2 DEF RemoveScan

\* One iteration of the timer loop: a timer that stays is re-armed after now.
LEMMA FireTimers ==
    ASSUME TypeOK, TypeOK', TimersInv, FireTop
    PROVE  TimersInv'
<1>0. /\ Count \in Nat /\ 1 \in 1 .. Count /\ heap \in Seq(Entry)
      /\ pc = "update" /\ UNCHANGED <<now, pc>> /\ fired' = fired \cup {heap[1].task}
    BY CountType, EmptySeq DEF FireTop, TypeOK, Count
<1>1. \A k \in 1 .. Count : k # 1 => heap[k].task # heap[1].task
    BY <1>0 DEF TimersInv, OneTimerEach
<1>2. \A k \in 1 .. Count : heap[k].task \in fired => heap[k].next > now
    BY <1>0 DEF TimersInv, FiredLater
<1>3. ScannedClean'
    BY <1>0 DEF ScannedClean
<1>4. CASE heap' = [heap EXCEPT ![1].next = NextFire(heap[1])]
    <2> DEFINE top == [heap[1] EXCEPT !.next = NextFire(heap[1])]
    <2>1. heap[1] \in Entry
        BY <1>0, TimeType
    <2>2. NextFire(heap[1]) > now
        BY <2>1, RearmedLater
    <2>3. heap' = [heap EXCEPT ![1] = top] /\ top.next = NextFire(heap[1])
          /\ top.task = heap[1].task
        BY <1>4, <2>1 DEF Entry
    <2> HIDE DEF top
    <2>4. DOMAIN heap = 1 .. Count
        BY <1>0, LenProperties DEF Count
    <2>5. heap'[1] = top /\ \A k \in 1 .. Count : k # 1 => heap'[k] = heap[k]
        BY <1>0, <2>3, <2>4
    <2>6. Count' = Count
        <3>1. DOMAIN heap' = 1 .. Count
            BY <2>3, <2>4
        <3>2. DOMAIN heap' = 1 .. Count' /\ Count' \in Nat
            BY LenProperties DEF TypeOK, Count
        <3> QED
            BY <1>0, <3>1, <3>2
    <2>7. OneTimerEach'
        BY <2>3, <2>5, <2>6 DEF TimersInv, OneTimerEach
    <2>8. FiredLater'
        <3> SUFFICES ASSUME NEW k \in 1 .. Count, heap'[k].task \in fired'
                     PROVE  heap'[k].next > now
            BY <1>0, <2>6 DEF FiredLater
        <3>1. CASE k = 1
            BY <2>2, <2>3, <2>5, <3>1
        <3>2. CASE k # 1
            BY <1>0, <1>1, <1>2, <2>5, <3>2
        <3> QED
            BY <3>1, <3>2
    <2> QED
        BY <1>3, <2>7, <2>8 DEF TimersInv
<1>5. CASE RemoveAt(1)
    <2>1. Rearranged
        BY <1>0, <1>5, RemoveRearranges
    <2>2. \A k \in 1 .. Count' : \E j \in 1 .. Count : j # 1 /\ heap'[k] = heap[j]
        BY <1>0, <1>5, RemoveRearranges
    <2>3. OneTimerEach'
        BY <2>1, RearrangedKeeps DEF TimersInv
    <2>4. FiredLater'
        BY <1>0, <1>1, <1>2, <2>2 DEF FiredLater
    <2> QED
        BY <1>3, <2>3, <2>4 DEF TimersInv
<1> QED
    BY <1>4, <1>5 DEF FireTop

\* TimersInv is preserved by every step.
LEMMA NextTimers ==
    ASSUME TypeOK, TypeOK', TimersInv, [Next]_vars
    PROVE  TimersInv'
<1>k. ASSUME UNCHANGED heap PROVE OneTimerEach' /\ UNCHANGED Count
    BY <1>k, KeptRearranges, RearrangedKeeps DEF TimersInv, Count
<1>1. ASSUME NEW t \in Tasks, NEW delay \in Delays, NEW repeating \in BOOLEAN,
             SetTimer(t, delay, repeating)
      PROVE  TimersInv'
    <2> DEFINE entry == [next |-> Add(clock, delay), interval |-> delay,
                         repeating |-> repeating, task |-> t]
    <2>1. clock \in Nat /\ delay \in Nat
        BY TimerAssumption DEF TypeOK
    <2>2. entry \in Entry /\ entry.task = t
        BY <2>1, AddType DEF Entry
    <2>3. /\ Push(entry) /\ pc = "idle" /\ UNCHANGED <<now, pc, target, fired>>
          /\ \A other \in Armed : other.task # t
        BY <1>1 DEF SetTimer
    <2> HIDE DEF entry
    <2> QED
        BY <2>2, <2>3, PushTimers
<1>2. ASSUME NEW t \in Tasks, RemoveTask(t) PROVE TimersInv'
    <2>1. UNCHANGED <<heap, fired, now, sift>> /\ sift = "none" /\ pc = "idle" /\ pc' = "remove"
          /\ idx' = 1
        BY <1>2 DEF RemoveTask
    <2>2. FiredLater' /\ ScannedClean'
        BY <2>1, <1>k, CountType DEF TimersInv, FiredLater, ScannedClean
    <2> QED
        BY <1>k, <2>1, <2>2 DEF TimersInv
<1>3. CASE UpdateTimers
    <2>1. UNCHANGED <<heap, fired>> /\ pc = "idle" /\ pc' = "update"
        BY <1>3 DEF UpdateTimers, heapVars
    <2>2. FiredLater' /\ ScannedClean'
        BY <2>1 DEF TimersInv, FiredLater, ScannedClean
    <2> QED
        BY <1>k, <2>1, <2>2 DEF TimersInv
<1>4. CASE PollerWait \/ TimePasses \/ UNCHANGED vars
    <2>1. UNCHANGED <<heap, sift, idx, pc, now, target, fired>>
        BY <1>4 DEF PollerWait, TimePasses, heapVars, vars
    <2>2. FiredLater' /\ ScannedClean'
        BY <1>k, <2>1 DEF TimersInv, FiredLater, ScannedClean
    <2> QED
        BY <1>k, <2>1, <2>2 DEF TimersInv
<1>5. CASE SiftUp \/ SiftDown
    <2>1. Rearranged /\ sift # "none" /\ UNCHANGED <<pc, now, target, fired>>
        BY <1>5, SiftRearranges DEF SiftUp, SiftDown
    <2>2. OneTimerEach' /\ FiredLater'
        BY <2>1, RearrangedKeeps DEF TimersInv
    <2>3. ScannedClean'
        BY <2>1, RearrangedKeeps DEF TimersInv, ScannedClean
    <2> QED
        BY <2>2, <2>3 DEF TimersInv
<1>6. CASE RemoveScan
    BY <1>6, ScanTimers
<1>7. CASE FireTop
    BY <1>7, FireTimers
<1>8. CASE RemoveDone \/ UpdateDone
    <2>1. /\ UNCHANGED heap /\ pc' = "idle"
          /\ (fired' = {} \/ (pc # "update" /\ UNCHANGED fired))
        BY <1>8 DEF RemoveDone, UpdateDone, heapVars
    <2>2. FiredLater' /\ ScannedClean'
        BY <2>1 DEF TimersInv, FiredLater, ScannedClean
    <2> QED
        BY <1>k, <2>1, <2>2 DEF TimersInv
<1> QED
    BY <1>1, <1>2, <1>3, <1>4, <1>5, <1>6, <1>7, <1>8 DEF Next, Operation, Loop

LEMMA InitTimers == Init => TimersInv
<1> SUFFICES ASSUME Init PROVE TimersInv
    OBVIOUS
<1>1. Count = 0
    BY EmptySeq DEF Init, Count
<1> QED
    BY <1>1 DEF Init, TimersInv, OneTimerEach, FiredLater, ScannedClean

\* No task has two timers, what an update has fired is due later, and a scan
\* leaves nothing behind it.
THEOREM TimersInvariant == Spec => [](HeapInv /\ TimersInv)
<1>1. Init => HeapInv /\ TimersInv
    BY InitOrder, InitTimers
<1>2. HeapInv /\ TimersInv /\ [Next]_vars => HeapInv' /\ TimersInv'
    BY NextOrder, NextTimers DEF HeapInv
<1> QED
    BY <1>1, <1>2, PTL DEF Spec

\* One update of the timers fires no timer twice, also for an interval of 0 and
\* for a sum that wraps (_bb_runtime_update_timers).
THEOREM FiresOnceAlways == Spec => FiresOncePerUpdate
<1>1. HeapInv /\ TimersInv /\ [Next]_vars => [FireTop => heap[1].task \notin fired]_vars
    <2> SUFFICES ASSUME TypeOK, TimersInv, FireTop, heap[1].task \in fired
                 PROVE  FALSE
        BY DEF HeapInv
    <2>1. heap \in Seq(Entry) /\ 1 \in 1 .. Count /\ now >= heap[1].next /\ pc = "update"
        BY CountType, EmptySeq DEF FireTop, Due, TypeOK, Count
    <2>2. heap[1].next > now
        BY <2>1 DEF TimersInv, FiredLater
    <2>3. heap[1].next \in Nat /\ now \in Nat
        BY <2>1, TimeType, TimerAssumption DEF TypeOK
    <2> QED
        BY <2>1, <2>2, <2>3
<1> QED
    BY <1>1, TimersInvariant, PTL DEF Spec, FiresOncePerUpdate

\* bb_timer_heap_remove_task leaves no timer of the task behind, although the
\* sifts move entries while it scans.
THEOREM RemoveFindsAlways == Spec => RemoveFindsTask
<1>1. HeapInv /\ TimersInv /\ [Next]_vars =>
         [pc = "remove" /\ pc' = "idle" => \A entry \in Armed : entry.task # target]_vars
    <2> SUFFICES ASSUME TypeOK, TimersInv, Next, pc = "remove", pc' = "idle"
                 PROVE  \A entry \in Armed : entry.task # target
        BY DEF HeapInv
    <2>1. RemoveDone
        BY DEF Next, Operation, Loop, SetTimer, RemoveTask, UpdateTimers, PollerWait,
               TimePasses, SiftUp, SiftDown, RemoveScan, FireTop, UpdateDone
    <2>2. \A i \in 1 .. Count : i < idx
        BY <2>1, CountType DEF RemoveDone
    <2>3. \A i \in 1 .. Count : heap[i].task # target
        BY <2>2 DEF TimersInv, ScannedClean
    <2> QED
        BY <2>3 DEF Armed
<1> QED
    BY <1>1, TimersInvariant, PTL DEF Spec, RemoveFindsTask

-----------------------------------------------------------------------------
(* The root *)

\* No timer is before the root: a least index whose entry is would have a
\* parent that is, too.
LEMMA RootIsEarliest ==
    ASSUME HeapInv, sift = "none"
    PROVE  \A i \in 1 .. Count : heap[1].next <= heap[i].next
<1>0. /\ Count \in Nat /\ \A i \in 1 .. Count : heap[i].next \in Nat
    BY CountType, TimeType DEF HeapInv, TypeOK
<1>1. \A i \in 2 .. Count : heap[Parent(i)].next <= heap[i].next
    BY Ordered DEF HeapInv
<1> DEFINE Earlier == {i \in 1 .. Count : heap[i].next < heap[1].next}
<1>2. ASSUME Earlier # {} PROVE FALSE
    <2>1. Earlier \in SUBSET Nat
        BY <1>0
    <2>2. PICK n \in Earlier : \A m \in Earlier : n <= m
        BY <1>2, <2>1, LeastNumber
    <2>3. n \in 2 .. Count /\ heap[n].next < heap[1].next
        BY <1>0
    <2>4. Parent(n) \in 1 .. Count /\ Parent(n) < n
        BY <1>0, <2>3, ParentProperties
    <2>5. Parent(n) \notin Earlier
        BY <1>0, <2>2, <2>3, <2>4
    <2>6. heap[1].next <= heap[Parent(n)].next
        BY <1>0, <2>3, <2>4, <2>5
    <2> QED
        BY <1>0, <1>1, <2>3, <2>4, <2>6
<1> QED
    BY <1>0, <1>2

\* When the timer loop of _bb_runtime_update_timers ends no timer is due.
THEOREM NothingDueAlways == Spec => NothingDueAfterUpdate
<1>1. HeapInv /\ [Next]_vars =>
         [pc = "update" /\ pc' = "idle" => \A entry \in Armed : entry.next > now]_vars
    <2> SUFFICES ASSUME HeapInv, Next, pc = "update", pc' = "idle"
                 PROVE  \A entry \in Armed : entry.next > now
        OBVIOUS
    <2>1. UpdateDone
        BY DEF Next, Operation, Loop, SetTimer, RemoveTask, UpdateTimers, PollerWait,
               TimePasses, SiftUp, SiftDown, RemoveScan, FireTop, RemoveDone
    <2> SUFFICES ASSUME NEW i \in 1 .. Count
                 PROVE  heap[i].next > now
        BY DEF Armed
    <2>2. heap[1].next <= heap[i].next
        BY <2>1, RootIsEarliest DEF UpdateDone
    <2>3. heap # <<>> /\ 1 \in 1 .. Count /\ Count \in Nat /\ heap \in Seq(Entry)
        BY CountType, EmptySeq DEF HeapInv, TypeOK, Count
    <2>4. heap[1].next \in Nat /\ heap[i].next \in Nat /\ now \in Nat
        BY <2>3, TimeType, TimerAssumption DEF HeapInv, TypeOK
    <2> QED
        BY <2>1, <2>2, <2>3, <2>4 DEF UpdateDone, Due
<1> QED
    BY <1>1, TimersInvariant, PTL DEF Spec, NothingDueAfterUpdate

\* The wait in the poller ends by the time of the earliest timer
\* (_bb_runtime_next_timeout_ms).
THEOREM NeverOversleepsAlways == Spec => NeverOversleeps
<1>1. HeapInv /\ [Next]_vars =>
         [PollerWait => \A entry \in Armed : clock' <= entry.next]_vars
    <2> SUFFICES ASSUME HeapInv, PollerWait, NEW i \in 1 .. Count
                 PROVE  clock' <= heap[i].next
        BY DEF Armed
    <2>1. heap[1].next <= heap[i].next
        BY RootIsEarliest DEF PollerWait
    <2>2. heap # <<>> /\ 1 \in 1 .. Count /\ Count \in Nat /\ heap \in Seq(Entry)
        BY CountType, EmptySeq DEF HeapInv, TypeOK, Count
    <2>3. heap[1].next \in Nat /\ heap[i].next \in Nat /\ clock \in Nat
        BY <2>2, TimeType, TimerAssumption DEF HeapInv, TypeOK
    <2>4. PICK elapsed \in 1 .. NextTimeout : clock' = clock + elapsed
        BY DEF PollerWait
    <2>5. /\ heap[1].next > clock /\ NextTimeout \in Nat
          /\ NextTimeout <= heap[1].next - clock
        BY <2>2, <2>3, <2>4, TimerAssumption DEF NextTimeout
    <2> QED
        BY <2>1, <2>3, <2>4, <2>5
<1> QED
    BY <1>1, TimersInvariant, PTL DEF Spec, NeverOversleeps

====
