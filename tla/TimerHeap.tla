------------------------------ MODULE TimerHeap ------------------------------
(***************************************************************************)
(* The timers of the runtime: the binary heap of timer_heap.c, the loop of  *)
(* _bb_runtime_update_timers over it and the timeout that bounds the wait   *)
(* in the poller.  Module Runtime sees the timers as a set of which some    *)
(* may be due; here time is real and wraps at the width of uint64_t.        *)
(*                                                                          *)
(* The loops of the heap are taken one iteration at a time: pc is the       *)
(* operation that is in progress, sift the loop inside it and idx its       *)
(* index.  Indices are the code's plus one.                                 *)
(***************************************************************************)
EXTENDS SwapTable

CONSTANTS
    Tasks,            \* tasks; none has two timers, a freed one may return
    Delays,           \* interval_ms and timeout_ms that callers pass
    Wrap,             \* 2^64, the number of values of uint64_t
    LastTime,         \* bound: the last time that the clock shows
    InitialCapacity,  \* BB_TIMER_HEAP_INITIAL_CAPACITY
    IdleTimeout,      \* BB_RUNTIME_IDLE_TIMEOUT_MS
    None              \* no task

\* The monotonic clock stays far below the width of its type.
ASSUME TimerAssumption ==
    /\ None \notin Tasks
    /\ Wrap \in Nat
    /\ LastTime \in Nat
    /\ LastTime + 1 < Wrap
    /\ Delays \subseteq 0 .. (Wrap - 1)
    /\ InitialCapacity \in Nat \ {0}
    /\ IdleTimeout \in Nat

Time == 0 .. (Wrap - 1)
Entry == [next : Time, interval : Delays, repeating : BOOLEAN, task : Tasks]

VARIABLES
    heap,      \* items[0 .. count - 1]
    capacity,  \* the length of the array behind it
    clock,     \* what bb_time_monotonic_ms returns
    now,       \* the time that _bb_runtime_update_timers has read
    pc,        \* "idle", "update" (the timer loop) or "remove" (remove_task)
    sift,      \* "none", "up" (_sift_up) or "down" (_sift_down)
    idx,       \* the index of the sift, or of the scan of remove_task
    origin,    \* where _sift_down started: _remove_at sifts up from there
    target,    \* the task that remove_task looks for
    fired      \* the tasks that this update has queued (ghost)

heapVars == <<heap, capacity, sift, idx, origin>>
vars == <<heap, capacity, clock, now, pc, sift, idx, origin, target, fired>>

Count == Len(heap)
Armed == {heap[i] : i \in 1 .. Count}
Due(entry) == now >= entry.next

Init ==
    /\ heap = <<>>
    /\ capacity = InitialCapacity
    /\ clock = 0
    /\ now = 0
    /\ pc = "idle"
    /\ sift = "none"
    /\ idx = 1
    /\ origin = 1
    /\ target = None
    /\ fired = {}

-----------------------------------------------------------------------------
(* timer_heap.c *)

Parent(i) == i \div 2

\* _swap
Swap(i, k) == [heap EXCEPT ![i] = heap[k], ![k] = heap[i]]

\* One iteration of _sift_up
SiftUp ==
    /\ sift = "up"
    /\ \/ /\ idx > 1
          /\ heap[Parent(idx)].next > heap[idx].next
          /\ heap' = Swap(idx, Parent(idx))
          /\ idx' = Parent(idx)
          /\ UNCHANGED sift
       \/ /\ idx > 1 => heap[Parent(idx)].next <= heap[idx].next
          /\ sift' = "none"
          /\ idx' = origin
          /\ UNCHANGED heap
    /\ UNCHANGED <<capacity, clock, now, pc, origin, target, fired>>

\* The smallest of an entry and its children, as _sift_down compares them.
SmallestAt(i) ==
    LET left == 2 * i
        right == 2 * i + 1
        first == IF left <= Count /\ heap[left].next < heap[i].next THEN left ELSE i
    IN IF right <= Count /\ heap[right].next < heap[first].next THEN right ELSE first

\* Mutant of SiftDown: _remove_at does not sift up afterwards.
SiftDownOnly ==
    /\ sift = "down"
    /\ \/ /\ SmallestAt(idx) # idx
          /\ heap' = Swap(idx, SmallestAt(idx))
          /\ idx' = SmallestAt(idx)
          /\ UNCHANGED sift
       \/ /\ SmallestAt(idx) = idx
          /\ sift' = "none"
          /\ idx' = origin
          /\ UNCHANGED heap
    /\ UNCHANGED <<capacity, clock, now, pc, origin, target, fired>>

\* One iteration of _sift_down; then the _sift_up that _remove_at adds (from
\* the root it would return at once).
SiftDown ==
    /\ sift = "down"
    /\ \/ /\ SmallestAt(idx) # idx
          /\ heap' = Swap(idx, SmallestAt(idx))
          /\ idx' = SmallestAt(idx)
          /\ UNCHANGED sift
       \/ /\ SmallestAt(idx) = idx
          /\ sift' = IF origin = 1 THEN "none" ELSE "up"
          /\ idx' = origin
          /\ UNCHANGED heap
    /\ UNCHANGED <<capacity, clock, now, pc, origin, target, fired>>

\* _remove_at, up to the sifts
RemoveAt(i) ==
    /\ heap' = SwapRemove(heap, i)
    /\ idx' = i
    /\ origin' = i
    /\ sift' = IF i = Count THEN "none" ELSE "down"
    /\ UNCHANGED capacity

\* bb_timer_heap_push, up to the sift; the array grows when it is full.
Push(entry) ==
    \/ /\ heap' = Append(heap, entry)
       /\ capacity' = IF Count >= capacity THEN 2 * capacity ELSE capacity
       /\ sift' = "up"
       /\ idx' = Count + 1
       /\ origin' = 1
    \/ /\ Count >= capacity
       /\ UNCHANGED heapVars

-----------------------------------------------------------------------------
(* runtime.c *)

Add(time, delay) == (time + delay) % Wrap

\* bb_runtime_set_interval_ex and bb_runtime_set_timeout_ex
SetTimer(t, delay, repeating) ==
    /\ pc = "idle"
    /\ sift = "none"
    /\ \A entry \in Armed : entry.task # t
    /\ Push([next |-> Add(clock, delay), interval |-> delay,
             repeating |-> repeating, task |-> t])
    /\ UNCHANGED <<clock, now, pc, target, fired>>

\* bb_timer_heap_remove_task, called by bb_runtime_cancel_task
RemoveTask(t) ==
    /\ pc = "idle"
    /\ sift = "none"
    /\ pc' = "remove"
    /\ target' = t
    /\ idx' = 1
    /\ origin' = 1
    /\ UNCHANGED <<heap, capacity, clock, now, sift, fired>>

\* One iteration of its loop: the entry that took the place of the removed one
\* is looked at next.
RemoveScan ==
    /\ pc = "remove"
    /\ sift = "none"
    /\ idx <= Count
    /\ \/ /\ heap[idx].task = target
          /\ RemoveAt(idx)
       \/ /\ heap[idx].task # target
          /\ idx' = idx + 1
          /\ UNCHANGED <<heap, capacity, sift, origin>>
    /\ UNCHANGED <<clock, now, pc, target, fired>>

\* Mutant of RemoveDone: the last entry is not looked at.
RemoveDoneEarly ==
    /\ pc = "remove"
    /\ sift = "none"
    /\ idx >= Count
    /\ pc' = "idle"
    /\ target' = None
    /\ idx' = 1
    /\ origin' = 1
    /\ UNCHANGED <<heap, capacity, sift, clock, now, fired>>

RemoveDone ==
    /\ pc = "remove"
    /\ sift = "none"
    /\ idx > Count
    /\ pc' = "idle"
    /\ target' = None
    /\ idx' = 1
    /\ origin' = 1
    /\ UNCHANGED <<heap, capacity, sift, clock, now, fired>>

\* Start of _bb_runtime_update_timers
UpdateTimers ==
    /\ pc = "idle"
    /\ sift = "none"
    /\ pc' = "update"
    /\ now' = clock
    /\ UNCHANGED <<heapVars, clock, target, fired>>

\* Mutant of NextFire: the sum may be no later than now.
NextFireUnguarded(entry) == Add(now, entry.interval)

\* When a repeating timer fires next
NextFire(entry) ==
    IF Add(now, entry.interval) <= now THEN now + 1 ELSE Add(now, entry.interval)

\* Mutant of FireTop: a re-armed root stays at the top.
FireTopInPlace ==
    /\ pc = "update"
    /\ sift = "none"
    /\ heap # <<>>
    /\ Due(heap[1])
    /\ fired' = fired \cup {heap[1].task}
    /\ \/ /\ heap[1].repeating
          /\ heap' = [heap EXCEPT ![1].next = NextFire(heap[1])]
          /\ UNCHANGED <<capacity, sift, idx, origin>>
       \/ /\ ~ heap[1].repeating
          /\ RemoveAt(1)
    /\ UNCHANGED <<clock, now, pc, target>>

\* One iteration of its loop: the root is due; it is re-armed or popped
\* (bb_timer_heap_reschedule_top, bb_timer_heap_pop).
FireTop ==
    /\ pc = "update"
    /\ sift = "none"
    /\ heap # <<>>
    /\ Due(heap[1])
    /\ fired' = fired \cup {heap[1].task}
    /\ \/ /\ heap[1].repeating
          /\ heap' = [heap EXCEPT ![1].next = NextFire(heap[1])]
          /\ sift' = "down"
          /\ idx' = 1
          /\ origin' = 1
          /\ UNCHANGED capacity
       \/ /\ ~ heap[1].repeating
          /\ RemoveAt(1)
    /\ UNCHANGED <<clock, now, pc, target>>

UpdateDone ==
    /\ pc = "update"
    /\ sift = "none"
    /\ heap # <<>> => ~ Due(heap[1])
    /\ pc' = "idle"
    /\ now' = 0
    /\ fired' = {}
    /\ UNCHANGED <<heapVars, clock, target>>

\* Mutant of NextTimeout: the idle timeout is a lower bound.
NextTimeoutAtLeastIdle ==
    IF heap = <<>> THEN IdleTimeout
    ELSE IF heap[1].next <= clock THEN 0
    ELSE IF heap[1].next - clock < IdleTimeout THEN IdleTimeout
    ELSE heap[1].next - clock

\* _bb_runtime_next_timeout_ms
NextTimeout ==
    IF heap = <<>> THEN IdleTimeout
    ELSE IF heap[1].next <= clock THEN 0
    ELSE IF heap[1].next - clock > IdleTimeout THEN IdleTimeout
    ELSE heap[1].next - clock

\* bb_poller_wait returns after at most that timeout.
PollerWait ==
    /\ pc = "idle"
    /\ sift = "none"
    /\ \E elapsed \in 1 .. NextTimeout :
        /\ clock + elapsed <= LastTime
        /\ clock' = clock + elapsed
    /\ UNCHANGED <<heapVars, now, pc, target, fired>>

\* Tasks and the rest of the program take time.
TimePasses ==
    /\ pc = "idle"
    /\ sift = "none"
    /\ clock < LastTime
    /\ clock' = clock + 1
    /\ UNCHANGED <<heapVars, now, pc, target, fired>>

Operation ==
    \/ \E t \in Tasks, delay \in Delays, repeating \in BOOLEAN :
          SetTimer(t, delay, repeating)
    \/ \E t \in Tasks : RemoveTask(t)
    \/ UpdateTimers
    \/ PollerWait
    \/ TimePasses

Loop ==
    \/ SiftUp
    \/ SiftDown
    \/ RemoveScan
    \/ RemoveDone
    \/ FireTop
    \/ UpdateDone

Next == Operation \/ Loop

Spec == Init /\ [][Next]_vars

-----------------------------------------------------------------------------
(* Properties *)

\* Type invariant: the indices stay inside the array.
TypeOK ==
    /\ heap \in Seq(Entry)
    /\ capacity \in Nat \ {0}
    /\ Count <= capacity
    /\ clock \in 0 .. LastTime
    /\ now \in 0 .. LastTime
    /\ pc \in {"idle", "update", "remove"}
    /\ sift \in {"none", "up", "down"}
    /\ idx \in 1 .. (Count + 1)
    /\ sift # "none" => idx <= Count /\ origin <= Count
    /\ origin \in Nat \ {0}
    /\ target \in Tasks \cup {None}
    /\ fired \in SUBSET Tasks

\* The heap is ordered, up to what the sift in progress has still to repair:
\* _sift_up an entry smaller than its parent, _sift_down one larger than its
\* children, and where _sift_down began the entry may also be too small.  The
\* entries around the hole are ordered across it.
HeapOrder ==
    /\ \A i \in 2 .. Count :
          \/ heap[Parent(i)].next <= heap[i].next
          \/ sift # "none" /\ i = idx /\ (sift = "down" => idx = origin)
          \/ sift = "down" /\ Parent(i) = idx
    /\ sift # "none" =>
          \A i \in 2 .. Count :
              Parent(i) = idx /\ idx > 1 => heap[Parent(idx)].next <= heap[i].next

\* The timer loop ends with no timer due: none is missed behind the root.
NothingDueAfterUpdate ==
    [][pc = "update" /\ pc' = "idle" => \A entry \in Armed : entry.next > now]_vars

\* One update fires no timer twice, also for an interval of 0 and for a sum
\* that wraps: the loop always re-arms after the time it has read.
FiresOncePerUpdate ==
    [][FireTop => heap[1].task \notin fired]_vars

\* The wait in the poller ends by the time of the earliest timer.
NeverOversleeps ==
    [][PollerWait => \A entry \in Armed : clock' <= entry.next]_vars

\* bb_timer_heap_remove_task leaves no timer of the task behind, although the
\* sifts move entries while it scans.
RemoveFindsTask ==
    [][pc = "remove" /\ pc' = "idle" => \A entry \in Armed : entry.task # target]_vars

====
