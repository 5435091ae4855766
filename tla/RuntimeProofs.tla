---------------------------- MODULE RuntimeProofs ----------------------------
(***************************************************************************)
(* Proofs about Runtime: its types; the scheduler's list; the dispatch of   *)
(* events; no use after free; the life cycle of a task; no leak; and the    *)
(* agreement of the poller with the watchers.                               *)
(***************************************************************************)
EXTENDS Runtime, SequenceTheorems, FiniteSetTheorems, TLAPS

FlagSets == [Tasks -> SUBSET TaskFlag]

-----------------------------------------------------------------------------
(* Facts about the helpers *)

\* Swap-removal keeps a table a table, one entry shorter, of the same entries.
LEMMA SwapRemoveProperties ==
    ASSUME NEW S, NEW table \in Seq(S), table # <<>>, NEW i \in Nat
    PROVE  /\ SwapRemove(table, i) \in Seq(S)
           /\ Len(SwapRemove(table, i)) = Len(table) - 1
           /\ \A k \in 1 .. (Len(table) - 1) :
                 SwapRemove(table, i)[k] = IF k = i THEN table[Len(table)] ELSE table[k]
<1> DEFINE n == Len(table) - 1
<1>1. n \in Nat /\ n + 1 = Len(table)
    BY EmptySeq, LenProperties
<1>2. SwapRemove(table, i) \in [1 .. n -> S]
    BY <1>1, LenProperties, ElementOfSeq DEF SwapRemove
<1>3. SwapRemove(table, i) \in Seq(S) /\ Len(SwapRemove(table, i)) = n
    <2> DEFINE f == SwapRemove(table, i)
    <2> HIDE DEF f, n
    <2>1. f \in Seq(S)
        BY <1>1, <1>2, SeqDef DEF f
    <2>2. DOMAIN f = 1 .. n /\ DOMAIN f = 1 .. Len(f) /\ Len(f) \in Nat
        BY <1>2, <2>1, LenProperties DEF f
    <2> QED
        BY <1>1, <2>1, <2>2 DEF f
<1> QED
    BY <1>1, <1>2, <1>3 DEF SwapRemove

\* The innermost call and the calls below it.
LEMMA StackProperties ==
    ASSUME stack \in Seq(Frame), stack # <<>>
    PROVE  /\ Len(stack) \in Nat \ {0}
           /\ Top \in Frame
           /\ Caller \in Seq(Frame)
           /\ Len(Caller) = Len(stack) - 1
           /\ \A i \in 1 .. (Len(stack) - 1) : Caller[i] = stack[i]
<1>1. Len(stack) \in Nat \ {0}
    BY EmptySeq, LenProperties
<1>2. \A i \in 1 .. Len(stack) : stack[i] \in Frame
    BY ElementOfSeq
<1>3. Top \in Frame
    BY <1>1, <1>2 DEF Top
<1> DEFINE m == Len(stack) - 1
<1>4. m \in Nat /\ \A i \in 1 .. m : stack[i] \in Frame
    BY <1>1, <1>2
<1> HIDE DEF m
<1>5. /\ SubSeq(stack, 1, m) \in Seq(Frame)
      /\ Len(SubSeq(stack, 1, m)) = m
      /\ \A i \in 1 .. m : SubSeq(stack, 1, m)[i] = stack[i]
    <2>1. 1 \in Int /\ m \in Int
        BY <1>4
    <2>2. /\ SubSeq(stack, 1, m) \in Seq(Frame)
          /\ Len(SubSeq(stack, 1, m)) = IF 1 <= m THEN m - 1 + 1 ELSE 0
          /\ \A i \in 1 .. m - 1 + 1 : SubSeq(stack, 1, m)[i] = stack[1 + i - 1]
        BY <2>1, <1>4, SubSeqProperties
    <2> QED
        BY <2>2, <1>4
<1> QED
    BY <1>1, <1>3, <1>4, <1>5 DEF Caller, m

-----------------------------------------------------------------------------
(* Types *)

\* Queueing a task keeps the queue and the flags well-typed.
LEMMA EnqueueType ==
    ASSUME TypeOK, NEW t \in Tasks, NEW ok \in BOOLEAN, Enqueue(t, ok)
    PROVE  queue' \in Seq(Tasks) /\ flags' \in FlagSets
<1>1. CASE ok /\ "SCHEDULED" \notin flags[t]
    <2>0. queue' = Append(queue, t)
        BY <1>1 DEF Enqueue
    <2>1. queue' \in Seq(Tasks)
        BY <2>0, AppendProperties DEF TypeOK
    <2> QED
        BY <1>1, <2>1 DEF TypeOK, Enqueue, FlagSets, TaskFlag
<1>2. CASE ~ (ok /\ "SCHEDULED" \notin flags[t])
    BY <1>2 DEF TypeOK, Enqueue, FlagSets
<1> QED
    BY <1>1, <1>2

\* Finalizing a task keeps the flags and the ghost counters well-typed.
LEMMA FinalizeType ==
    ASSUME TypeOK, NEW t \in Tasks, NEW fl \in FlagSets, Finalize(t, fl)
    PROVE  flags' \in FlagSets /\ cleanups' \in [Tasks -> Nat]
BY DEF TypeOK, Finalize, FlagSets, TaskFlag

LEMMA TaskDestroyType ==
    ASSUME TypeOK, NEW t \in Tasks, NEW fl \in FlagSets, NEW callers \in Seq(Frame),
           TaskDestroy(t, fl, callers)
    PROVE  flags' \in FlagSets /\ cleanups' \in [Tasks -> Nat] /\ stack' \in Seq(Frame)
<1>1. flags' \in FlagSets /\ cleanups' \in [Tasks -> Nat]
    BY FinalizeType DEF TaskDestroy
<1>2. CleanupFrame("destroy", t, fl, None, 0) \in Frame
    BY RuntimeAssumption DEF CleanupFrame, Frame
<1> QED
    BY <1>1, <1>2, AppendProperties DEF TaskDestroy

LEMMA TaskCancelType ==
    ASSUME TypeOK, NEW t \in Tasks, NEW fl \in FlagSets, NEW callers \in Seq(Frame),
           NEW kind \in {"cancel", "unwatch"}, NEW fd \in Fds \cup {None}, NEW at \in Nat,
           kind = "unwatch" => at >= 1,
           TaskCancel(kind, t, fl, fd, at, callers)
    PROVE  flags' \in FlagSets /\ cleanups' \in [Tasks -> Nat] /\ stack' \in Seq(Frame)
<1> DEFINE cancelled == [fl EXCEPT ![t] = (@ \cup {"CANCELLED"}) \ {"PERSISTENT"}]
<1>1. cancelled \in FlagSets
    BY DEF FlagSets, TaskFlag
<1>2. Finalize(t, cancelled)
    BY DEF TaskCancel
<1>3. flags' \in FlagSets /\ cleanups' \in [Tasks -> Nat]
    <2> HIDE DEF cancelled
    <2> QED BY <1>1, <1>2, FinalizeType
<1>4. CleanupFrame(kind, t, fl, fd, at) \in Frame
    BY RuntimeAssumption DEF CleanupFrame, Frame
<1> QED
    BY <1>3, <1>4, AppendProperties DEF TaskCancel

LEMMA ReapType ==
    ASSUME TypeOK, NEW t \in Tasks, NEW fl \in FlagSets, NEW callers \in Seq(Frame),
           Reap(t, fl, callers)
    PROVE  flags' \in FlagSets /\ cleanups' \in [Tasks -> Nat] /\ stack' \in Seq(Frame)
<1>1. CASE {"SCHEDULED", "PERSISTENT"} \cap fl[t] = {}
    BY <1>1, TaskDestroyType DEF Reap
<1>2. CASE {"SCHEDULED", "PERSISTENT"} \cap fl[t] # {}
    BY <1>2 DEF Reap, TypeOK
<1> QED
    BY <1>1, <1>2

\* Every task that a frame names is a task, unless the frame is a scan.
LEMMA TopTask ==
    ASSUME TypeOK, stack # <<>>, Top.kind # "unwatch" \/ Top.task # None
    PROVE  Top.task \in Tasks
BY StackProperties DEF TypeOK, Frame

\* Initial states are well-typed.
LEMMA InitType == Init => TypeOK
<1> SUFFICES ASSUME Init PROVE TypeOK
    OBVIOUS
<1>1. /\ queue \in Seq(Tasks)
      /\ watchers \in Seq(Watcher)
      /\ ready \in Seq(PollEvent)
      /\ stack \in Seq(Frame)
    BY EmptySeq DEF Init
<1>2. /\ mem \in [Tasks -> {"none", "live", "freed"}]
      /\ flags \in [Tasks -> SUBSET TaskFlag]
      /\ cleanups \in [Tasks -> Nat]
      /\ interest \in [Fds -> SUBSET Event]
    BY DEF Init
<1>3. pos \in Nat \ {0} /\ timers \in SUBSET Timer /\ due \in SUBSET Timer
    BY DEF Init
<1> QED
    BY <1>1, <1>2, <1>3 DEF Init, TypeOK, Phase

\* The entries of the table are watchers.
LEMMA WatcherType ==
    ASSUME TypeOK, NEW i \in 1 .. Len(watchers)
    PROVE  /\ watchers[i] \in Watcher
           /\ watchers[i].task \in Tasks
           /\ watchers[i].fd \in Fds
<1>1. watchers[i] \in Watcher
    BY ElementOfSeq DEF TypeOK
<1> QED
    BY <1>1 DEF Watcher

\* An entry that _watch_fd replaces keeps the table well-typed.
LEMMA ReplaceType ==
    ASSUME TypeOK, NEW t \in Tasks, NEW mode \in Mode, NEW i \in 1 .. Len(watchers),
           watchers' = [watchers EXCEPT ![i] = [@ EXCEPT !.mode = mode, !.task = t]]
    PROVE  watchers' \in Seq(Watcher)
<1>1. watchers[i] \in Watcher
    BY ElementOfSeq DEF TypeOK
<1>2. [watchers[i] EXCEPT !.mode = mode, !.task = t] \in Watcher
    BY <1>1 DEF Watcher
<1>3. watchers' = [watchers EXCEPT ![i] = [watchers[i] EXCEPT !.mode = mode, !.task = t]]
    OBVIOUS
<1> QED
    BY <1>2, <1>3, ExceptSeq DEF TypeOK

\* The operations of the public interface preserve the types.
LEMMA UserOperationType == TypeOK /\ UserOperation => TypeOK'
<1> SUFFICES ASSUME TypeOK, UserOperation PROVE TypeOK'
    OBVIOUS
<1> USE DEF runVars, tickVars, tableVars
<1>0. flags \in FlagSets
    BY DEF TypeOK, FlagSets
<1>1. ASSUME NEW t \in Tasks, Schedule(t) PROVE TypeOK'
    <2>1. mem' \in [Tasks -> {"none", "live", "freed"}]
        BY <1>1 DEF Schedule, TypeOK
    <2>2. CASE Enqueue(t, TRUE) /\ UNCHANGED <<cleanups, stack>>
        <3>1. queue' \in Seq(Tasks) /\ flags' \in FlagSets
            BY <2>2, EnqueueType
        <3> QED
            BY <1>1, <2>1, <2>2, <3>1 DEF Schedule, TypeOK, FlagSets
    <2>3. CASE TaskDestroy(t, flags, stack) /\ UNCHANGED queue
        <3>1. /\ flags' \in FlagSets /\ cleanups' \in [Tasks -> Nat]
              /\ stack' \in Seq(Frame)
            BY <1>0, <2>3, TaskDestroyType DEF TypeOK
        <3> QED
            BY <1>1, <2>1, <2>3, <3>1 DEF Schedule, TypeOK, FlagSets
    <2> QED
        BY <1>1, <2>2, <2>3 DEF Schedule
<1>2. ASSUME NEW t \in Tasks, NEW repeating \in BOOLEAN, SetTimer(t, repeating)
      PROVE  TypeOK'
    <2> DEFINE fl == [flags EXCEPT ![t] = IF repeating THEN {"PERSISTENT"} ELSE {}]
    <2>1. mem' \in [Tasks -> {"none", "live", "freed"}]
        BY <1>2 DEF SetTimer, TypeOK
    <2>2. fl \in FlagSets
        BY <1>0 DEF FlagSets, TaskFlag
    <2>3. CASE /\ timers' = timers \cup {[task |-> t, repeating |-> repeating]}
               /\ flags' = fl
               /\ UNCHANGED <<cleanups, stack>>
        <3>1. timers' \in SUBSET Timer
            BY <2>3 DEF TypeOK, Timer
        <3> QED
            BY <1>2, <2>1, <2>2, <2>3, <3>1 DEF SetTimer, TypeOK, FlagSets
    <2>4. CASE TaskDestroy(t, fl, stack) /\ UNCHANGED timers
        <3> HIDE DEF fl
        <3>1. /\ flags' \in FlagSets /\ cleanups' \in [Tasks -> Nat]
              /\ stack' \in Seq(Frame)
            BY <2>2, <2>4, TaskDestroyType DEF TypeOK
        <3> QED
            BY <1>2, <2>1, <2>4, <3>1 DEF SetTimer, TypeOK, FlagSets
    <2> QED
        BY <1>2, <2>3, <2>4 DEF SetTimer
<1>3. ASSUME NEW t \in Tasks, NEW fd \in Fds, NEW events \in Masks, NEW mode \in Mode,
             WatchFd(t, fd, events, mode)
      PROVE  TypeOK'
    <2> DEFINE fl == [flags EXCEPT ![t] = PersistentFlag(mode)]
    <2>1. mem' \in [Tasks -> {"none", "live", "freed"}]
        BY <1>3 DEF WatchFd, TypeOK
    <2>2. fl \in FlagSets
        BY <1>0 DEF FlagSets, TaskFlag, PersistentFlag
    <2>3. UNCHANGED <<queue, timers, tickVars, runVars>>
        BY <1>3 DEF WatchFd
    <2>4. CASE WatchReplace(t, fd, events, mode)
        <3>1. PICK i \in 1 .. Len(watchers) :
                /\ watchers' = [watchers EXCEPT ![i] = [@ EXCEPT !.mode = mode, !.task = t]]
                /\ TaskCancel("cancel", watchers[i].task, fl, None, 0, stack)
                /\ UNCHANGED interest
            BY <2>4 DEF WatchReplace, ExactAt
        <3>2. watchers' \in Seq(Watcher)
            BY <3>1, ReplaceType
        <3>3. watchers[i].task \in Tasks
            BY WatcherType
        <3>4. /\ flags' \in FlagSets /\ cleanups' \in [Tasks -> Nat]
              /\ stack' \in Seq(Frame)
            <4> HIDE DEF fl
            <4> QED BY <2>2, <3>1, <3>3, TaskCancelType DEF TypeOK
        <3> QED
            BY <2>1, <2>3, <3>1, <3>2, <3>4 DEF TypeOK, FlagSets
    <2>5. CASE WatchAppend(t, fd, events, mode)
        <3> DEFINE entry == [fd |-> fd, events |-> events, mode |-> mode, task |-> t]
        <3>1. entry \in Watcher
            BY DEF Watcher
        <3>2. watchers' \in Seq(Watcher)
            BY <2>5, <3>1, AppendProperties DEF WatchAppend, TypeOK
        <3>3. interest' \in [Fds -> SUBSET Event]
            BY <2>5, RuntimeAssumption DEF WatchAppend, TypeOK, RegisteredMask
        <3> QED
            BY <2>1, <2>2, <2>3, <2>5, <3>2, <3>3 DEF WatchAppend, TypeOK, FlagSets
    <2>6. CASE WatchFail(t, fd, events)
        <3>1. interest' \in [Fds -> SUBSET Event]
            BY <2>6 DEF WatchFail, TypeOK, RegisteredMask
        <3>2. /\ flags' \in FlagSets /\ cleanups' \in [Tasks -> Nat]
              /\ stack' \in Seq(Frame)
            BY <1>0, <2>6, TaskDestroyType DEF WatchFail, TypeOK
        <3> QED
            BY <2>1, <2>3, <2>6, <3>1, <3>2 DEF WatchFail, TypeOK, FlagSets
    <2> QED
        BY <1>3, <2>4, <2>5, <2>6 DEF WatchFd
<1>4. ASSUME NEW t \in Tasks, CancelTask(t) PROVE TypeOK'
    <2>1. flags' \in FlagSets /\ cleanups' \in [Tasks -> Nat] /\ stack' \in Seq(Frame)
        BY <1>0, <1>4, TaskCancelType DEF CancelTask, TypeOK
    <2> QED
        BY <1>4, <2>1 DEF CancelTask, TypeOK, FlagSets
<1>5. ASSUME NEW fd \in Fds, UnwatchFd(fd) PROVE TypeOK'
    <2>1. [kind |-> "unwatch", task |-> None, cb |-> FALSE, fd |-> fd, at |-> 1] \in Frame
        BY DEF Frame
    <2>2. stack' \in Seq(Frame)
        BY <1>5, <2>1, AppendProperties DEF UnwatchFd, TypeOK
    <2>3. interest' \in [Fds -> SUBSET Event]
        BY <1>5 DEF UnwatchFd, TypeOK
    <2> QED
        BY <1>5, <2>2, <2>3 DEF UnwatchFd, TypeOK
<1>6. ASSUME NEW on \in BOOLEAN, SetRunning(on) PROVE TypeOK'
    BY <1>6 DEF SetRunning, TypeOK
<1>7. CASE Run
    BY <1>7 DEF Run, TypeOK
<1> QED
    BY <1>1, <1>2, <1>3, <1>4, <1>5, <1>6, <1>7 DEF UserOperation

\* Removing a watcher and unregistering it preserves the types.
LEMMA RemoveType ==
    ASSUME TypeOK, NEW i \in 1 .. Len(watchers),
           interest' = [interest EXCEPT ![watchers[i].fd] = @ \ watchers[i].events],
           watchers' = SwapRemove(watchers, i)
    PROVE  interest' \in [Fds -> SUBSET Event] /\ watchers' \in Seq(Watcher)
<1>1. watchers # <<>> /\ i \in Nat
    BY EmptySeq, LenProperties DEF TypeOK
<1>2. watchers' \in Seq(Watcher)
    BY <1>1, SwapRemoveProperties DEF TypeOK
<1> QED
    BY <1>2 DEF TypeOK

\* The continuations after a callback preserve the types.
LEMMA ReturnType == TypeOK /\ Return => TypeOK'
<1> SUFFICES ASSUME TypeOK, Return PROVE TypeOK'
    OBVIOUS
<1> USE DEF runVars, tickVars, tableVars
<1>0. flags \in FlagSets /\ stack \in Seq(Frame)
    BY DEF TypeOK, FlagSets
<1>1. CASE ReturnDestroy
    <2>1. stack' \in Seq(Frame)
        BY <1>0, <1>1, StackProperties DEF ReturnDestroy
    <2>2. mem' \in [Tasks -> {"none", "live", "freed"}]
        BY <1>1 DEF ReturnDestroy, TypeOK
    <2> QED
        BY <1>1, <2>1, <2>2 DEF ReturnDestroy, TypeOK
<1>2. CASE ReturnCancel
    <2>1. stack' \in Seq(Frame)
        BY <1>0, <1>2, StackProperties DEF ReturnCancel
    <2>2. interest' \in [Fds -> SUBSET Event] /\ watchers' \in Seq(Watcher)
        <3>1. CASE UNCHANGED <<watchers, interest>>
            BY <3>1 DEF TypeOK
        <3>2. ASSUME NEW i \in 1 .. Len(watchers),
                     interest' = [interest EXCEPT ![watchers[i].fd] = @ \ watchers[i].events],
                     watchers' = SwapRemove(watchers, i)
              PROVE  interest' \in [Fds -> SUBSET Event] /\ watchers' \in Seq(Watcher)
            BY <3>2, RemoveType
        <3> QED
            BY <1>2, <3>1, <3>2 DEF ReturnCancel, RemoveWatchersOf
    <2>3. Top.task \in Tasks
        BY <1>2, TopTask DEF ReturnCancel
    <2>4. queue' \in Seq(Tasks) /\ flags' \in FlagSets
        <3>1. PICK ok \in BOOLEAN : Enqueue(Top.task, ok)
            BY <1>2 DEF ReturnCancel, AllocResult
        <3> QED
            BY <2>3, <3>1, EnqueueType
    <2>5. timers' \in SUBSET Timer
        BY <1>2 DEF ReturnCancel, TypeOK
    <2> QED
        BY <1>2, <2>1, <2>2, <2>4, <2>5 DEF ReturnCancel, TypeOK, FlagSets
<1>3. CASE UnwatchScan
    <2>1. stack' \in Seq(Frame) /\ flags' \in FlagSets /\ cleanups' \in [Tasks -> Nat]
        <3> DEFINE found == {i \in Top.at .. Len(watchers) : watchers[i].fd = Top.fd}
        <3>1. Top \in Frame /\ Caller \in Seq(Frame)
            BY <1>0, <1>3, StackProperties DEF UnwatchScan
        <3>2. CASE found = {} /\ stack' = Caller /\ UNCHANGED <<flags, cleanups>>
            BY <1>0, <3>1, <3>2 DEF TypeOK
        <3>3. ASSUME NEW i \in found,
                     TaskCancel("unwatch", watchers[i].task, flags, Top.fd, i, Caller)
              PROVE  /\ stack' \in Seq(Frame) /\ flags' \in FlagSets
                     /\ cleanups' \in [Tasks -> Nat]
            <4>1. Top.at \in Nat /\ Top.fd \in Fds \cup {None} /\ i \in Nat
                BY <3>1 DEF Frame
            <4>2. watchers[i].fd = Top.fd /\ i \in Top.at .. Len(watchers)
                OBVIOUS
            <4>3. Top.at >= 1
                BY <1>3, <3>1 DEF Frame, UnwatchScan
            <4>4. i \in 1 .. Len(watchers) /\ i >= 1
                BY <4>1, <4>2, <4>3
            <4>5. watchers[i].task \in Tasks
                BY <4>4, WatcherType
            <4> QED
                BY <1>0, <3>1, <3>3, <4>1, <4>4, <4>5, TaskCancelType
        <3> QED
            BY <1>3, <3>2, <3>3 DEF UnwatchScan
    <2> QED
        BY <1>3, <2>1 DEF UnwatchScan, TypeOK, FlagSets
<1>4. CASE UnwatchRemove
    <2>1. Top \in Frame /\ Caller \in Seq(Frame)
        BY <1>0, <1>4, StackProperties DEF UnwatchRemove
    <2>2. Top.task \in Tasks
        BY <1>4, TopTask DEF UnwatchRemove
    <2>3. [Top EXCEPT !.task = None, !.cb = FALSE] \in Frame
        BY <1>4, <2>1 DEF Frame, UnwatchRemove
    <2>4. stack' \in Seq(Frame)
        BY <1>4, <2>1, <2>3, AppendProperties DEF UnwatchRemove
    <2>5. queue' \in Seq(Tasks) /\ flags' \in FlagSets
        <3>1. PICK ok \in BOOLEAN : Enqueue(Top.task, ok)
            BY <1>4 DEF UnwatchRemove, AllocResult
        <3> QED
            BY <2>2, <3>1, EnqueueType
    <2>6. watchers' \in Seq(Watcher) /\ pc' \in Phase
        <3>1. Top.at \in Nat
            BY <2>1 DEF Frame
        <3>2. CASE watchers = <<>>
            BY <1>4, <3>2 DEF UnwatchRemove, TypeOK, Phase
        <3>3. CASE watchers # <<>>
            <4>1. SwapRemove(watchers, Top.at) \in Seq(Watcher)
                BY <3>1, <3>3, SwapRemoveProperties DEF TypeOK
            <4> QED
                BY <1>4, <3>3, <4>1 DEF UnwatchRemove, TypeOK
        <3> QED
            BY <3>2, <3>3
    <2> QED
        BY <1>4, <2>4, <2>5, <2>6 DEF UnwatchRemove, TypeOK, FlagSets
<1>5. CASE ReturnRun
    <2>1. Top.task \in Tasks /\ Caller \in Seq(Frame)
        BY <1>0, <1>5, TopTask, StackProperties DEF ReturnRun
    <2> DEFINE fl == [flags EXCEPT ![Top.task] = @ \ {"RUNNING"}]
    <2>2. fl \in FlagSets /\ Reap(Top.task, fl, Caller)
        BY <1>0, <1>5 DEF ReturnRun, FlagSets
    <2>3. flags' \in FlagSets /\ cleanups' \in [Tasks -> Nat] /\ stack' \in Seq(Frame)
        <3> HIDE DEF fl
        <3> QED BY <2>1, <2>2, ReapType
    <2> QED
        BY <1>5, <2>3 DEF ReturnRun, TypeOK, FlagSets
<1> QED
    BY <1>1, <1>2, <1>3, <1>4, <1>5 DEF Return

\* The phases of a tick preserve the types.
LEMMA TickType == TypeOK /\ (PollerWait \/ TickStep \/ RunReturns) => TypeOK'
<1> SUFFICES ASSUME TypeOK, PollerWait \/ TickStep \/ RunReturns PROVE TypeOK'
    OBVIOUS
<1> USE DEF runVars, tickVars, tableVars
<1>0. flags \in FlagSets /\ stack \in Seq(Frame) /\ queue \in Seq(Tasks)
    BY DEF TypeOK, FlagSets
<1>1. CASE PollerWait
    <2>1. PICK n \in 0 .. MaxEvents : ready' \in [1 .. n -> PollEvent]
        BY <1>1 DEF PollerWait
    <2>2. n \in Nat
        BY RuntimeAssumption
    <2>3. ready' \in Seq(PollEvent)
        BY <2>1, <2>2, SeqDef
    <2> QED
        BY <1>1, <2>3 DEF PollerWait, TypeOK, Phase
<1>2. CASE Dispatch
    <2> DEFINE found == {i \in pos .. Len(watchers) : Matches(i, Head(ready))}
    <2>1. CASE /\ ready' = Tail(ready) /\ pos' = 1
               /\ UNCHANGED <<flags, queue, watchers, interest>>
        <3>1. ready' \in Seq(PollEvent)
            BY <1>2, <2>1, HeadTailProperties DEF Dispatch, TypeOK
        <3> QED
            BY <1>2, <2>1, <3>1 DEF Dispatch, TypeOK
    <2>2. ASSUME NEW i \in found, i \in 1 .. Len(watchers), WakeWatcher(i), UNCHANGED ready
          PROVE  TypeOK'
        <3>1. PICK ok \in BOOLEAN : Enqueue(watchers[i].task, ok)
            BY <2>2 DEF WakeWatcher, AllocResult
        <3>2. queue' \in Seq(Tasks) /\ flags' \in FlagSets
            BY <2>2, <3>1, WatcherType, EnqueueType
        <3>3. pos' \in Nat \ {0}
            BY <2>2 DEF WakeWatcher
        <3>4. interest' \in [Fds -> SUBSET Event] /\ watchers' \in Seq(Watcher)
            <4>1. CASE watchers[i].mode = "ONESHOT"
                BY <2>2, <4>1, RemoveType DEF WakeWatcher
            <4>2. CASE watchers[i].mode # "ONESHOT"
                BY <2>2, <4>2 DEF WakeWatcher, TypeOK
            <4> QED
                BY <4>1, <4>2
        <3> QED
            BY <1>2, <2>2, <3>2, <3>3, <3>4 DEF Dispatch, TypeOK, FlagSets
    <2>3. \A i \in found : i \in 1 .. Len(watchers)
        BY DEF TypeOK
    <2> QED
        BY <1>2, <2>1, <2>2, <2>3 DEF Dispatch
<1>3. CASE DispatchDone
    BY <1>3 DEF DispatchDone, TypeOK, Phase
<1>4. ASSUME NEW timer \in Timer, FireTimer(timer) PROVE TypeOK'
    <2>1. PICK ok \in BOOLEAN : Enqueue(timer.task, ok)
        BY <1>4 DEF FireTimer, AllocResult
    <2>2. timer.task \in Tasks
        BY DEF Timer
    <2>3. queue' \in Seq(Tasks) /\ flags' \in FlagSets
        BY <2>1, <2>2, EnqueueType
    <2>4. due' \in SUBSET Timer /\ timers' \in SUBSET Timer
        BY <1>4 DEF FireTimer, TypeOK
    <2> QED
        BY <1>4, <2>3, <2>4 DEF FireTimer, TypeOK, FlagSets
<1>5. CASE TimersDone
    BY <1>5 DEF TimersDone, TypeOK, Phase
<1>6. CASE RunNext
    <2> DEFINE t == Head(queue)
               popped == [flags EXCEPT ![t] = @ \ {"SCHEDULED"}]
    <2>1. t \in Tasks /\ queue' \in Seq(Tasks)
        BY <1>0, <1>6, HeadTailProperties DEF RunNext
    <2>2. popped \in FlagSets
        BY <1>0 DEF FlagSets
    <2>3. flags' \in FlagSets /\ cleanups' \in [Tasks -> Nat] /\ stack' \in Seq(Frame)
        <3>1. CASE Reap(t, popped, stack)
            <4> HIDE DEF t, popped
            <4> QED BY <1>0, <2>1, <2>2, <3>1, ReapType
        <3> DEFINE frame == [kind |-> "run", task |-> t, cb |-> TRUE,
                             fd |-> None, at |-> 0]
        <3>2. CASE /\ flags' = [popped EXCEPT ![t] = @ \cup {"RUNNING"}]
                   /\ stack' = Append(stack, frame)
                   /\ UNCHANGED cleanups
            <4>1. frame \in Frame
                BY <2>1, RuntimeAssumption DEF Frame
            <4>2. flags' \in FlagSets
                BY <2>2, <3>2 DEF FlagSets, TaskFlag
            <4> HIDE DEF frame
            <4> QED BY <1>0, <3>2, <4>1, <4>2, AppendProperties DEF TypeOK
        <3> QED
            BY <1>6, <3>1, <3>2 DEF RunNext
    <2> QED
        BY <1>6, <2>1, <2>3 DEF RunNext, TypeOK, FlagSets
<1>7. CASE TickDone
    BY <1>7 DEF TickDone, TypeOK, Phase
<1>8. CASE RunReturns
    BY <1>8 DEF RunReturns, TypeOK
<1> QED
    BY <1>1, <1>2, <1>3, <1>4, <1>5, <1>6, <1>7, <1>8 DEF TickStep

\* The steps of the shutdown preserve the types.
LEMMA DestroyType == TypeOK /\ (DestroyRuntime \/ DestroyStep) => TypeOK'
<1> SUFFICES ASSUME TypeOK, DestroyRuntime \/ DestroyStep PROVE TypeOK'
    OBVIOUS
<1> USE DEF runVars, tickVars, tableVars
<1>0. flags \in FlagSets /\ stack \in Seq(Frame) /\ queue \in Seq(Tasks)
    BY DEF TypeOK, FlagSets
<1>1. CASE DestroyRuntime
    BY <1>1 DEF DestroyRuntime, TypeOK, Phase
<1>2. CASE DrainQueue
    <2> DEFINE t == Head(queue)
               popped == [flags EXCEPT ![t] = @ \ {"SCHEDULED"}]
    <2>1. t \in Tasks /\ queue' \in Seq(Tasks)
        BY <1>0, <1>2, HeadTailProperties DEF DrainQueue
    <2>2. popped \in FlagSets
        BY <1>0 DEF FlagSets
    <2>3. flags' \in FlagSets /\ cleanups' \in [Tasks -> Nat] /\ stack' \in Seq(Frame)
        <3>1. CASE TaskDestroy(t, popped, stack)
            <4> HIDE DEF t, popped
            <4> QED BY <1>0, <2>1, <2>2, <3>1, TaskDestroyType
        <3>2. CASE flags' = popped /\ UNCHANGED <<cleanups, stack>>
            BY <1>0, <2>2, <3>2 DEF TypeOK
        <3> QED
            BY <1>2, <3>1, <3>2 DEF DrainQueue
    <2> QED
        BY <1>2, <2>1, <2>3 DEF DrainQueue, TypeOK, FlagSets
<1>3. CASE DrainQueueDone
    BY <1>3 DEF DrainQueueDone, TypeOK, Phase
<1>4. CASE DrainWatchers
    <2>1. pos \in 1 .. Len(watchers)
        BY <1>4 DEF DrainWatchers, TypeOK
    <2>2. watchers[pos].task \in Tasks
        BY <2>1, WatcherType
    <2>3. flags' \in FlagSets /\ cleanups' \in [Tasks -> Nat] /\ stack' \in Seq(Frame)
        BY <1>0, <1>4, <2>2, TaskDestroyType DEF DrainWatchers
    <2>4. pos' \in Nat \ {0}
        BY <1>4 DEF DrainWatchers, TypeOK
    <2>5. interest' \in [Fds -> SUBSET Event]
        BY <1>4 DEF DrainWatchers, TypeOK
    <2> QED
        BY <1>4, <2>3, <2>4, <2>5 DEF DrainWatchers, TypeOK, FlagSets
<1>5. CASE DrainWatchersDone
    <2>1. watchers' \in Seq(Watcher)
        BY <1>5, EmptySeq DEF DrainWatchersDone
    <2> QED
        BY <1>5, <2>1 DEF DrainWatchersDone, TypeOK, Phase
<1>6. ASSUME NEW timer \in Timer, DrainTimers(timer) PROVE TypeOK'
    <2>1. timer.task \in Tasks
        BY DEF Timer
    <2>2. flags' \in FlagSets /\ cleanups' \in [Tasks -> Nat] /\ stack' \in Seq(Frame)
        BY <1>0, <1>6, <2>1, TaskDestroyType DEF DrainTimers
    <2> QED
        BY <1>6, <2>2 DEF DrainTimers, TypeOK, FlagSets
<1>7. CASE DrainTimersDone
    BY <1>7 DEF DrainTimersDone, TypeOK, Phase
<1> QED
    BY <1>1, <1>2, <1>3, <1>4, <1>5, <1>6, <1>7 DEF DestroyStep

\* Every step of the runtime preserves the types.
LEMMA NextType == TypeOK /\ [Next]_vars => TypeOK'
<1>1. ASSUME TypeOK, UNCHANGED vars PROVE TypeOK'
    BY <1>1 DEF vars, TypeOK
<1> QED
    BY <1>1, UserOperationType, ReturnType, TickType, DestroyType DEF Next, Gone

\* The state of the runtime is well-typed in every reachable state, for any
\* number of tasks, descriptors and nested callbacks.
THEOREM TypeCorrect == Spec => []TypeOK
<1>1. Init => TypeOK
    BY InitType
<1>2. TypeOK /\ [Next]_vars => TypeOK'
    BY NextType
<1> QED
    BY <1>1, <1>2, PTL DEF Spec

-----------------------------------------------------------------------------
(* How the operations on the queue affect ScheduledOnce *)

\* A step that leaves the queue and the SCHEDULED bits alone.
LEMMA KeepOnce ==
    ASSUME ScheduledOnce, queue' = queue,
           \A t \in Tasks : "SCHEDULED" \in flags'[t] <=> "SCHEDULED" \in flags[t]
    PROVE  ScheduledOnce'
BY DEF ScheduledOnce

\* bb_scheduler_schedule
LEMMA EnqueueOnce ==
    ASSUME TypeOK, ScheduledOnce, NEW t \in Tasks, NEW ok \in BOOLEAN, Enqueue(t, ok)
    PROVE  ScheduledOnce'
<1>1. CASE ok /\ "SCHEDULED" \notin flags[t]
    <2>1. queue' = Append(queue, t) /\ flags' = [flags EXCEPT ![t] = @ \cup {"SCHEDULED"}]
        BY <1>1 DEF Enqueue
    <2>2. /\ Len(queue) \in Nat /\ Len(queue') = Len(queue) + 1
          /\ \A i \in 1 .. Len(queue) : queue'[i] = queue[i]
          /\ queue'[Len(queue) + 1] = t
        BY <2>1, AppendProperties, LenProperties DEF TypeOK
    <2>3. \A i \in 1 .. Len(queue) : queue[i] # t
        BY <1>1 DEF ScheduledOnce
    <2>4. \A i, k \in 1 .. Len(queue') : queue'[i] = queue'[k] => i = k
        BY <2>2, <2>3 DEF ScheduledOnce
    <2>5. \A u \in Tasks : "SCHEDULED" \in flags'[u]
                              <=> \E i \in 1 .. Len(queue') : queue'[i] = u
        <3> SUFFICES ASSUME NEW u \in Tasks
                     PROVE  "SCHEDULED" \in flags'[u]
                              <=> \E i \in 1 .. Len(queue') : queue'[i] = u
            OBVIOUS
        <3>1. CASE u = t
            <4>1. "SCHEDULED" \in flags'[t]
                BY <2>1 DEF TypeOK
            <4>2. Len(queue) + 1 \in 1 .. Len(queue')
                BY <2>2
            <4> QED BY <3>1, <4>1, <4>2, <2>2
        <3>2. CASE u # t
            <4>1. flags'[u] = flags[u]
                BY <2>1, <3>2 DEF TypeOK
            <4>2. (\E i \in 1 .. Len(queue') : queue'[i] = u)
                    <=> \E i \in 1 .. Len(queue) : queue[i] = u
                BY <2>2, <3>2
            <4> QED BY <4>1, <4>2 DEF ScheduledOnce
        <3> QED BY <3>1, <3>2
    <2> QED
        BY <2>4, <2>5 DEF ScheduledOnce
<1>2. CASE ~ (ok /\ "SCHEDULED" \notin flags[t])
    BY <1>2 DEF Enqueue, ScheduledOnce
<1> QED
    BY <1>1, <1>2

\* bb_scheduler_next: the head leaves the queue and loses its bit.
LEMMA PopOnce ==
    ASSUME TypeOK, ScheduledOnce, queue # <<>>, queue' = Tail(queue),
           "SCHEDULED" \notin flags'[Head(queue)],
           \A u \in Tasks \ {Head(queue)} :
               "SCHEDULED" \in flags'[u] <=> "SCHEDULED" \in flags[u]
    PROVE  ScheduledOnce'
<1> DEFINE n == Len(queue)
<1>1. n \in Nat \ {0}
    BY EmptySeq, LenProperties DEF TypeOK
<1>2. /\ Head(queue) = queue[1] /\ Len(queue') = n - 1
      /\ \A i \in 1 .. (n - 1) : queue'[i] = queue[i + 1]
    BY HeadTailProperties DEF TypeOK
<1> HIDE DEF n
<1>3. \A i, k \in 1 .. n : queue[i] = queue[k] => i = k
    BY DEF ScheduledOnce, n
<1>4. \A i, k \in 1 .. (n - 1) : queue'[i] = queue'[k] => i = k
    BY <1>1, <1>2, <1>3
<1>5. ASSUME NEW u \in Tasks
      PROVE  "SCHEDULED" \in flags'[u] <=> \E i \in 1 .. (n - 1) : queue'[i] = u
    <2>1. CASE u = Head(queue)
        <3>1. \A i \in 1 .. (n - 1) : queue'[i] # u
            BY <1>1, <1>2, <1>3, <2>1
        <3> QED BY <2>1, <3>1
    <2>2. CASE u # Head(queue)
        <3>1. (\E i \in 1 .. n : queue[i] = u) => \E i \in 1 .. (n - 1) : queue'[i] = u
            <4> SUFFICES ASSUME NEW i \in 1 .. n, queue[i] = u
                         PROVE  \E k \in 1 .. (n - 1) : queue'[k] = u
                OBVIOUS
            <4>1. i - 1 \in 1 .. (n - 1) /\ (i - 1) + 1 = i
                BY <1>1, <1>2, <2>2
            <4> QED BY <1>2, <4>1
        <3>2. (\E i \in 1 .. (n - 1) : queue'[i] = u) => \E i \in 1 .. n : queue[i] = u
            <4> SUFFICES ASSUME NEW i \in 1 .. (n - 1), queue'[i] = u
                         PROVE  \E k \in 1 .. n : queue[k] = u
                OBVIOUS
            <4>1. i + 1 \in 1 .. n
                BY <1>1
            <4> QED BY <1>2, <4>1
        <3>3. "SCHEDULED" \in flags[u] <=> \E i \in 1 .. n : queue[i] = u
            BY DEF ScheduledOnce, n
        <3> QED BY <2>2, <3>1, <3>2, <3>3
    <2> QED BY <2>1, <2>2
<1> QED
    BY <1>2, <1>4, <1>5 DEF ScheduledOnce

\* _bb_task_finalize leaves the SCHEDULED bits alone.
LEMMA FinalizeBits ==
    ASSUME NEW t \in Tasks, NEW fl \in FlagSets, Finalize(t, fl)
    PROVE  \A u \in Tasks : "SCHEDULED" \in flags'[u] <=> "SCHEDULED" \in fl[u]
BY DEF Finalize, FlagSets

LEMMA DestroyBits ==
    ASSUME NEW t \in Tasks, NEW fl \in FlagSets, NEW callers, TaskDestroy(t, fl, callers)
    PROVE  \A u \in Tasks : "SCHEDULED" \in flags'[u] <=> "SCHEDULED" \in fl[u]
BY FinalizeBits DEF TaskDestroy

LEMMA CancelBits ==
    ASSUME NEW t \in Tasks, NEW fl \in FlagSets, NEW callers, NEW kind, NEW fd, NEW at,
           TaskCancel(kind, t, fl, fd, at, callers)
    PROVE  \A u \in Tasks : "SCHEDULED" \in flags'[u] <=> "SCHEDULED" \in fl[u]
<1> DEFINE cancelled == [fl EXCEPT ![t] = (@ \cup {"CANCELLED"}) \ {"PERSISTENT"}]
<1>1. cancelled \in FlagSets
    BY DEF FlagSets, TaskFlag
<1>2. \A u \in Tasks : "SCHEDULED" \in cancelled[u] <=> "SCHEDULED" \in fl[u]
    BY DEF FlagSets
<1>3. Finalize(t, cancelled)
    BY DEF TaskCancel
<1> HIDE DEF cancelled
<1> QED
    BY <1>1, <1>2, <1>3, FinalizeBits

LEMMA ReapBits ==
    ASSUME NEW t \in Tasks, NEW fl \in FlagSets, NEW callers, Reap(t, fl, callers)
    PROVE  \A u \in Tasks : "SCHEDULED" \in flags'[u] <=> "SCHEDULED" \in fl[u]
BY DestroyBits DEF Reap

-----------------------------------------------------------------------------
(* References to tasks: allocations are never undone *)

\* What a step may do to the allocations: none becomes unallocated again.
KeepsAllocations == \A t \in Tasks : mem[t] # "none" => mem'[t] # "none"

QueueAllocated == \A i \in 1 .. Len(queue) : mem[queue[i]] # "none"
WatchersAllocated == \A i \in 1 .. Len(watchers) : mem[watchers[i].task] # "none"
TimersAllocated == \A timer \in timers \cup due : mem[timer.task] # "none"
StackAllocated == \A i \in 1 .. Len(stack) :
                     stack[i].task # None => mem[stack[i].task] # "none"

\* What the queue names is typed, so that KeepsAllocations applies to it.
LEMMA ReferenceTypes ==
    ASSUME TypeOK
    PROVE  /\ \A i \in 1 .. Len(queue) : queue[i] \in Tasks
           /\ \A i \in 1 .. Len(watchers) : watchers[i].task \in Tasks
           /\ \A timer \in timers \cup due : timer.task \in Tasks
           /\ \A i \in 1 .. Len(stack) : stack[i].task \in Tasks \cup {None}
<1>1. \A i \in 1 .. Len(queue) : queue[i] \in Tasks
    BY ElementOfSeq DEF TypeOK
<1>2. \A i \in 1 .. Len(watchers) : watchers[i].task \in Tasks
    BY WatcherType
<1>3. \A timer \in timers \cup due : timer.task \in Tasks
    BY DEF TypeOK, Timer
<1>4. \A i \in 1 .. Len(stack) : stack[i] \in Frame
    BY ElementOfSeq DEF TypeOK
<1>5. \A i \in 1 .. Len(stack) : stack[i].task \in Tasks \cup {None}
    BY <1>4 DEF Frame
<1> QED
    BY <1>1, <1>2, <1>3, <1>5

\* The parts of RefersToAllocated that a step does not change stay true.
LEMMA KeepAllocated ==
    ASSUME TypeOK, RefersToAllocated, KeepsAllocations
    PROVE  /\ UNCHANGED queue => QueueAllocated'
           /\ UNCHANGED watchers => WatchersAllocated'
           /\ timers' \cup due' \subseteq timers \cup due => TimersAllocated'
           /\ UNCHANGED stack => StackAllocated'
<1>1. UNCHANGED queue => QueueAllocated'
    BY ReferenceTypes DEF RefersToAllocated, KeepsAllocations, QueueAllocated
<1>2. UNCHANGED watchers => WatchersAllocated'
    BY ReferenceTypes DEF RefersToAllocated, KeepsAllocations, WatchersAllocated
<1>3. timers' \cup due' \subseteq timers \cup due => TimersAllocated'
    BY ReferenceTypes DEF RefersToAllocated, KeepsAllocations, TimersAllocated
<1>4. UNCHANGED stack => StackAllocated'
    BY ReferenceTypes DEF RefersToAllocated, KeepsAllocations, StackAllocated
<1> QED
    BY <1>1, <1>2, <1>3, <1>4

LEMMA EnqueueAllocated ==
    ASSUME TypeOK, RefersToAllocated, KeepsAllocations, NEW t \in Tasks, NEW ok \in BOOLEAN,
           mem'[t] # "none", Enqueue(t, ok)
    PROVE  QueueAllocated'
<1>1. CASE queue' = Append(queue, t)
    <2>1. /\ Len(queue) \in Nat /\ Len(queue') = Len(queue) + 1
          /\ \A i \in 1 .. Len(queue) : queue'[i] = queue[i]
          /\ queue'[Len(queue) + 1] = t
        BY <1>1, AppendProperties, LenProperties DEF TypeOK
    <2>2. \A i \in 1 .. Len(queue) : mem'[queue'[i]] # "none"
        BY <2>1, ReferenceTypes DEF RefersToAllocated, KeepsAllocations
    <2> QED
        BY <2>1, <2>2 DEF QueueAllocated
<1>2. CASE UNCHANGED queue
    BY <1>2, KeepAllocated
<1> QED
    BY <1>1, <1>2 DEF Enqueue

LEMMA PopAllocated ==
    ASSUME TypeOK, RefersToAllocated, KeepsAllocations, queue # <<>>, queue' = Tail(queue)
    PROVE  QueueAllocated'
<1> DEFINE n == Len(queue)
<1>1. n \in Nat \ {0}
    BY EmptySeq, LenProperties DEF TypeOK
<1>2. Len(queue') = n - 1 /\ \A i \in 1 .. (n - 1) : queue'[i] = queue[i + 1]
    BY HeadTailProperties DEF TypeOK
<1>3. \A i \in 1 .. n : mem'[queue[i]] # "none"
    BY ReferenceTypes DEF RefersToAllocated, KeepsAllocations
<1> HIDE DEF n
<1>4. \A i \in 1 .. (n - 1) : i + 1 \in 1 .. n
    BY <1>1
<1> QED
    BY <1>2, <1>3, <1>4 DEF QueueAllocated

\* A call is made from the calls that are in progress.
LEMMA PushAllocated ==
    ASSUME TypeOK, NEW callers \in Seq(Frame), NEW frame \in Frame,
           \A i \in 1 .. Len(callers) :
               callers[i].task # None => mem'[callers[i].task] # "none",
           frame.task # None => mem'[frame.task] # "none",
           stack' = Append(callers, frame)
    PROVE  StackAllocated'
<1>1. /\ Len(callers) \in Nat /\ Len(stack') = Len(callers) + 1
      /\ \A i \in 1 .. Len(callers) : stack'[i] = callers[i]
      /\ stack'[Len(callers) + 1] = frame
    BY AppendProperties, LenProperties
<1> QED
    BY <1>1 DEF StackAllocated

\* The callers of the innermost call, and the whole stack, name allocated tasks.
LEMMA CallersAllocated ==
    ASSUME TypeOK, RefersToAllocated, KeepsAllocations
    PROVE  /\ \A i \in 1 .. Len(stack) :
                 stack[i].task # None => mem'[stack[i].task] # "none"
           /\ stack # <<>> => \A i \in 1 .. Len(Caller) :
                 Caller[i].task # None => mem'[Caller[i].task] # "none"
           /\ stack # <<>> /\ Top.task # None => mem[Top.task] # "none"
<1>1. \A i \in 1 .. Len(stack) : stack[i].task # None => mem'[stack[i].task] # "none"
    BY ReferenceTypes DEF RefersToAllocated, KeepsAllocations
<1>2. ASSUME stack # <<>>
      PROVE  /\ \A i \in 1 .. Len(Caller) :
                    Caller[i].task # None => mem'[Caller[i].task] # "none"
             /\ Top.task # None => mem[Top.task] # "none"
    <2>1. /\ Len(stack) \in Nat \ {0} /\ Len(Caller) = Len(stack) - 1
          /\ \A i \in 1 .. (Len(stack) - 1) : Caller[i] = stack[i]
        BY <1>2, StackProperties DEF TypeOK
    <2>2. Len(stack) \in 1 .. Len(stack) /\ Top = stack[Len(stack)]
        BY <2>1 DEF Top
    <2> QED
        BY <1>1, <2>1, <2>2 DEF RefersToAllocated
<1> QED
    BY <1>1, <1>2

LEMMA PopCallAllocated ==
    ASSUME TypeOK, RefersToAllocated, KeepsAllocations, stack # <<>>, stack' = Caller
    PROVE  StackAllocated'
BY CallersAllocated DEF StackAllocated

\* bb_task_destroy and bb_task_cancel push a frame that names their task.
LEMMA TaskDestroyAllocated ==
    ASSUME TypeOK, NEW t \in Tasks, NEW fl, NEW callers \in Seq(Frame),
           \A i \in 1 .. Len(callers) :
               callers[i].task # None => mem'[callers[i].task] # "none",
           mem'[t] # "none", TaskDestroy(t, fl, callers)
    PROVE  StackAllocated'
<1> DEFINE frame == CleanupFrame("destroy", t, fl, None, 0)
<1>1. frame \in Frame /\ frame.task = t
    BY RuntimeAssumption DEF CleanupFrame, Frame
<1>2. stack' = Append(callers, frame)
    BY DEF TaskDestroy
<1> HIDE DEF frame
<1> QED
    BY <1>1, <1>2, PushAllocated

LEMMA TaskCancelAllocated ==
    ASSUME TypeOK, NEW t \in Tasks, NEW fl, NEW callers \in Seq(Frame),
           NEW kind \in {"cancel", "unwatch"}, NEW fd \in Fds \cup {None}, NEW at \in Nat,
           kind = "unwatch" => at >= 1,
           \A i \in 1 .. Len(callers) :
               callers[i].task # None => mem'[callers[i].task] # "none",
           mem'[t] # "none", TaskCancel(kind, t, fl, fd, at, callers)
    PROVE  StackAllocated'
<1> DEFINE frame == CleanupFrame(kind, t, fl, fd, at)
<1>1. frame \in Frame /\ frame.task = t
    BY RuntimeAssumption DEF CleanupFrame, Frame
<1>2. stack' = Append(callers, frame)
    BY DEF TaskCancel
<1> HIDE DEF frame
<1> QED
    BY <1>1, <1>2, PushAllocated

LEMMA ReapAllocated ==
    ASSUME TypeOK, NEW t \in Tasks, NEW fl, NEW callers \in Seq(Frame),
           \A i \in 1 .. Len(callers) :
               callers[i].task # None => mem'[callers[i].task] # "none",
           mem'[t] # "none", Reap(t, fl, callers)
    PROVE  StackAllocated'
<1>1. CASE TaskDestroy(t, fl, callers)
    BY <1>1, TaskDestroyAllocated
<1>2. CASE stack' = callers
    BY <1>2 DEF StackAllocated
<1> QED
    BY <1>1, <1>2 DEF Reap

\* Swap-removal only drops references.
LEMMA RemoveAllocated ==
    ASSUME TypeOK, RefersToAllocated, KeepsAllocations, watchers # <<>>, NEW i \in Nat,
           watchers' = SwapRemove(watchers, i)
    PROVE  WatchersAllocated'
<1> DEFINE n == Len(watchers)
<1>1. n \in Nat \ {0}
    BY EmptySeq, LenProperties DEF TypeOK
<1>2. Len(watchers') = n - 1 /\ \A k \in 1 .. (n - 1) :
          watchers'[k] = IF k = i THEN watchers[n] ELSE watchers[k]
    BY SwapRemoveProperties DEF TypeOK
<1>3. \A k \in 1 .. n : mem'[watchers[k].task] # "none"
    BY ReferenceTypes DEF RefersToAllocated, KeepsAllocations
<1> HIDE DEF n
<1>4. n \in 1 .. n /\ \A k \in 1 .. (n - 1) : k \in 1 .. n
    BY <1>1
<1> QED
    BY <1>2, <1>3, <1>4 DEF WatchersAllocated

\* The parts together are the invariant, in the state after a step.
LEMMA AllocatedParts ==
    QueueAllocated' /\ WatchersAllocated' /\ TimersAllocated' /\ StackAllocated'
        => RefersToAllocated'
BY DEF RefersToAllocated, QueueAllocated, WatchersAllocated, TimersAllocated, StackAllocated

-----------------------------------------------------------------------------
(* The inductive invariant *)

\* ScheduledOnce is not inductive alone: bb_runtime_watch_fd_ex and the timer
\* calls set the flags of a new task afresh, which is harmless only because
\* nothing refers to a task that has not been allocated.
QueueInv == TypeOK /\ ScheduledOnce /\ RefersToAllocated

\* In states of QueueInv a task that is not allocated is not queued.
LEMMA FreshNotScheduled ==
    ASSUME QueueInv, NEW t \in Tasks, mem[t] = "none"
    PROVE  "SCHEDULED" \notin flags[t]
BY DEF QueueInv, ScheduledOnce, RefersToAllocated

\* The public operations preserve QueueInv (TypeOK is UserOperationType).
LEMMA UserOperationQueue ==
    ASSUME QueueInv, UserOperation
    PROVE  ScheduledOnce' /\ RefersToAllocated'
<1> USE DEF runVars, tickVars, tableVars
<1>0. TypeOK /\ ScheduledOnce /\ RefersToAllocated /\ flags \in FlagSets
      /\ stack \in Seq(Frame)
    BY DEF QueueInv, TypeOK, FlagSets
<1>1. ASSUME NEW t \in Tasks, Schedule(t) PROVE ScheduledOnce' /\ RefersToAllocated'
    <2>1. KeepsAllocations /\ mem'[t] # "none"
        BY <1>0, <1>1 DEF Schedule, KeepsAllocations, TypeOK
    <2>2. WatchersAllocated' /\ TimersAllocated'
        BY <1>0, <1>1, <2>1, KeepAllocated DEF Schedule
    <2>3. CASE Enqueue(t, TRUE) /\ UNCHANGED <<cleanups, stack>>
        <3>1. ScheduledOnce'
            BY <1>0, <2>3, EnqueueOnce
        <3>2. QueueAllocated' /\ StackAllocated'
            BY <1>0, <2>1, <2>3, EnqueueAllocated, KeepAllocated
        <3> QED
            BY <2>2, <3>1, <3>2, AllocatedParts
    <2>4. CASE TaskDestroy(t, flags, stack) /\ UNCHANGED queue
        <3>1. ScheduledOnce'
            BY <1>0, <2>4, DestroyBits, KeepOnce
        <3>2. QueueAllocated' /\ StackAllocated'
            BY <1>0, <2>1, <2>4, KeepAllocated, CallersAllocated, TaskDestroyAllocated
        <3> QED
            BY <2>2, <3>1, <3>2, AllocatedParts
    <2> QED
        BY <1>1, <2>3, <2>4 DEF Schedule
<1>2. ASSUME NEW t \in Tasks, NEW repeating \in BOOLEAN, SetTimer(t, repeating)
      PROVE  ScheduledOnce' /\ RefersToAllocated'
    <2> DEFINE fl == [flags EXCEPT ![t] = IF repeating THEN {"PERSISTENT"} ELSE {}]
    <2>1. KeepsAllocations /\ mem'[t] # "none" /\ mem[t] = "none"
        BY <1>0, <1>2 DEF SetTimer, KeepsAllocations, TypeOK
    <2>2. "SCHEDULED" \notin flags[t]
        BY <2>1, FreshNotScheduled
    <2>3. fl \in FlagSets /\ \A u \in Tasks : "SCHEDULED" \in fl[u] <=> "SCHEDULED" \in flags[u]
        BY <1>0, <2>2 DEF FlagSets, TaskFlag
    <2>4. QueueAllocated' /\ WatchersAllocated'
        BY <1>0, <1>2, <2>1, KeepAllocated DEF SetTimer
    <2>5. CASE /\ timers' = timers \cup {[task |-> t, repeating |-> repeating]}
               /\ flags' = fl
               /\ UNCHANGED <<cleanups, stack>>
        <3>1. ScheduledOnce'
            BY <1>0, <1>2, <2>3, <2>5, KeepOnce DEF SetTimer
        <3>2. StackAllocated'
            BY <1>0, <2>1, <2>5, KeepAllocated
        <3>3. TimersAllocated'
            <4>1. \A timer \in timers \cup due : mem'[timer.task] # "none"
                BY <1>0, <2>1, ReferenceTypes DEF RefersToAllocated, KeepsAllocations
            <4> QED
                BY <1>2, <2>1, <2>5, <4>1 DEF SetTimer, TimersAllocated
        <3> QED
            BY <2>4, <3>1, <3>2, <3>3, AllocatedParts
    <2>6. CASE TaskDestroy(t, fl, stack) /\ UNCHANGED timers
        <3> HIDE DEF fl
        <3>1. \A u \in Tasks : "SCHEDULED" \in flags'[u] <=> "SCHEDULED" \in fl[u]
            BY <2>3, <2>6, DestroyBits
        <3>2. ScheduledOnce'
            BY <1>0, <1>2, <2>3, <3>1, KeepOnce DEF SetTimer
        <3>3. TimersAllocated' /\ StackAllocated'
            BY <1>0, <1>2, <2>1, <2>6, KeepAllocated, CallersAllocated,
               TaskDestroyAllocated DEF SetTimer
        <3> QED
            BY <2>4, <3>2, <3>3, AllocatedParts
    <2> QED
        BY <1>2, <2>5, <2>6 DEF SetTimer
<1>3. ASSUME NEW t \in Tasks, NEW fd \in Fds, NEW events \in Masks, NEW mode \in Mode,
             WatchFd(t, fd, events, mode)
      PROVE  ScheduledOnce' /\ RefersToAllocated'
    <2> DEFINE fl == [flags EXCEPT ![t] = PersistentFlag(mode)]
    <2>1. KeepsAllocations /\ mem'[t] # "none" /\ mem[t] = "none"
        BY <1>0, <1>3 DEF WatchFd, KeepsAllocations, TypeOK
    <2>2. "SCHEDULED" \notin flags[t]
        BY <2>1, FreshNotScheduled
    <2>3. fl \in FlagSets /\ \A u \in Tasks : "SCHEDULED" \in fl[u] <=> "SCHEDULED" \in flags[u]
        BY <1>0, <2>2 DEF FlagSets, TaskFlag, PersistentFlag
    <2>4. UNCHANGED <<queue, timers, due>>
        BY <1>3 DEF WatchFd
    <2>5. QueueAllocated' /\ TimersAllocated'
        BY <1>0, <2>1, <2>4, KeepAllocated
    <2>6. \A i \in 1 .. Len(watchers) : mem'[watchers[i].task] # "none"
        BY <1>0, <2>1, ReferenceTypes DEF RefersToAllocated, KeepsAllocations
    <2>7. CASE WatchReplace(t, fd, events, mode)
        <3>1. PICK i \in 1 .. Len(watchers) :
                /\ watchers' = [watchers EXCEPT ![i] = [@ EXCEPT !.mode = mode, !.task = t]]
                /\ TaskCancel("cancel", watchers[i].task, fl, None, 0, stack)
            BY <2>7 DEF WatchReplace, ExactAt
        <3>2. watchers[i].task \in Tasks /\ mem'[watchers[i].task] # "none"
            BY <1>0, <2>6, WatcherType
        <3> HIDE DEF fl
        <3>3. \A u \in Tasks : "SCHEDULED" \in flags'[u] <=> "SCHEDULED" \in fl[u]
            BY <2>3, <3>1, <3>2, CancelBits
        <3>4. ScheduledOnce'
            BY <1>0, <2>3, <2>4, <3>3, KeepOnce
        <3>5. StackAllocated'
            BY <1>0, <2>1, <3>1, <3>2, CallersAllocated, TaskCancelAllocated
        <3>6. WatchersAllocated'
            <4>1. watchers[i] \in Watcher /\ watchers \in Seq(Watcher)
                BY <1>0, WatcherType DEF TypeOK
            <4>2. Len(watchers') = Len(watchers)
                BY <3>1, <4>1, ExceptSeq DEF Watcher
            <4>3. \A k \in 1 .. Len(watchers) :
                     watchers'[k].task = IF k = i THEN t ELSE watchers[k].task
                BY <3>1, <4>1, LenProperties DEF Watcher
            <4> QED
                BY <2>1, <2>6, <4>2, <4>3 DEF WatchersAllocated
        <3> QED
            BY <2>5, <3>4, <3>5, <3>6, AllocatedParts
    <2>8. CASE WatchAppend(t, fd, events, mode)
        <3> DEFINE entry == [fd |-> fd, events |-> events, mode |-> mode, task |-> t]
        <3>1. entry \in Watcher /\ entry.task = t /\ watchers' = Append(watchers, entry)
            BY <2>8 DEF WatchAppend, Watcher
        <3>2. ScheduledOnce'
            BY <1>0, <2>3, <2>4, <2>8, KeepOnce DEF WatchAppend
        <3>3. StackAllocated'
            BY <1>0, <2>1, <2>8, KeepAllocated DEF WatchAppend
        <3> HIDE DEF entry
        <3>4. /\ Len(watchers) \in Nat /\ Len(watchers') = Len(watchers) + 1
              /\ \A k \in 1 .. Len(watchers) : watchers'[k] = watchers[k]
              /\ watchers'[Len(watchers) + 1] = entry
            BY <1>0, <3>1, AppendProperties, LenProperties DEF TypeOK
        <3>5. WatchersAllocated'
            BY <2>1, <2>6, <3>1, <3>4 DEF WatchersAllocated
        <3> QED
            BY <2>5, <3>2, <3>3, <3>5, AllocatedParts
    <2>9. CASE WatchFail(t, fd, events)
        <3>1. ScheduledOnce'
            BY <1>0, <2>4, <2>9, DestroyBits, KeepOnce DEF WatchFail
        <3>2. WatchersAllocated' /\ StackAllocated'
            BY <1>0, <2>1, <2>9, KeepAllocated, CallersAllocated,
               TaskDestroyAllocated DEF WatchFail
        <3> QED
            BY <2>5, <3>1, <3>2, AllocatedParts
    <2> QED
        BY <1>3, <2>7, <2>8, <2>9 DEF WatchFd
<1>4. ASSUME NEW t \in Tasks, CancelTask(t) PROVE ScheduledOnce' /\ RefersToAllocated'
    <2>1. KeepsAllocations /\ mem'[t] # "none"
        BY <1>4 DEF CancelTask, KeepsAllocations
    <2>2. ScheduledOnce'
        BY <1>0, <1>4, CancelBits, KeepOnce DEF CancelTask
    <2>3. QueueAllocated' /\ WatchersAllocated' /\ TimersAllocated'
        BY <1>0, <1>4, <2>1, KeepAllocated DEF CancelTask
    <2>4. StackAllocated'
        BY <1>0, <1>4, <2>1, CallersAllocated, TaskCancelAllocated DEF CancelTask
    <2> QED
        BY <2>2, <2>3, <2>4, AllocatedParts
<1>5. ASSUME NEW fd \in Fds, UnwatchFd(fd) PROVE ScheduledOnce' /\ RefersToAllocated'
    <2> DEFINE frame == [kind |-> "unwatch", task |-> None, cb |-> FALSE,
                         fd |-> fd, at |-> 1]
    <2>1. KeepsAllocations
        BY <1>5 DEF UnwatchFd, KeepsAllocations
    <2>2. ScheduledOnce'
        BY <1>0, <1>5, KeepOnce DEF UnwatchFd
    <2>3. QueueAllocated' /\ WatchersAllocated' /\ TimersAllocated'
        BY <1>0, <1>5, <2>1, KeepAllocated DEF UnwatchFd
    <2>4. frame \in Frame /\ frame.task = None /\ stack' = Append(stack, frame)
        BY <1>5 DEF Frame, UnwatchFd
    <2> HIDE DEF frame
    <2>5. StackAllocated'
        BY <1>0, <2>1, <2>4, CallersAllocated, PushAllocated
    <2> QED
        BY <2>2, <2>3, <2>5, AllocatedParts
<1>6. ASSUME NEW on \in BOOLEAN, SetRunning(on) PROVE ScheduledOnce' /\ RefersToAllocated'
    BY <1>0, <1>6 DEF SetRunning, ScheduledOnce, RefersToAllocated
<1>7. CASE Run
    BY <1>0, <1>7 DEF Run, ScheduledOnce, RefersToAllocated
<1> QED
    BY <1>1, <1>2, <1>3, <1>4, <1>5, <1>6, <1>7 DEF UserOperation

\* The continuations after a callback preserve QueueInv.
LEMMA ReturnQueue ==
    ASSUME QueueInv, Return
    PROVE  ScheduledOnce' /\ RefersToAllocated'
<1> USE DEF runVars, tickVars, tableVars
<1>0. TypeOK /\ ScheduledOnce /\ RefersToAllocated /\ flags \in FlagSets
      /\ stack \in Seq(Frame)
    BY DEF QueueInv, TypeOK, FlagSets
<1>1. CASE ReturnDestroy
    <2>1. KeepsAllocations
        BY <1>0, <1>1 DEF ReturnDestroy, KeepsAllocations, TypeOK
    <2>2. ScheduledOnce'
        BY <1>0, <1>1, KeepOnce DEF ReturnDestroy
    <2>3. QueueAllocated' /\ WatchersAllocated' /\ TimersAllocated' /\ StackAllocated'
        BY <1>0, <1>1, <2>1, KeepAllocated, PopCallAllocated DEF ReturnDestroy
    <2> QED
        BY <2>2, <2>3, AllocatedParts
<1>2. CASE ReturnCancel
    <2>1. KeepsAllocations
        BY <1>2 DEF ReturnCancel, KeepsAllocations
    <2>2. Top.task \in Tasks /\ mem'[Top.task] # "none"
        BY <1>0, <1>2, <2>1, TopTask, CallersAllocated, RuntimeAssumption DEF ReturnCancel
    <2>3. PICK ok \in BOOLEAN : Enqueue(Top.task, ok)
        BY <1>2 DEF ReturnCancel, AllocResult
    <2>4. ScheduledOnce'
        BY <1>0, <2>2, <2>3, EnqueueOnce
    <2>5. QueueAllocated'
        BY <1>0, <2>1, <2>2, <2>3, EnqueueAllocated
    <2>6. TimersAllocated' /\ StackAllocated'
        BY <1>0, <1>2, <2>1, KeepAllocated, PopCallAllocated DEF ReturnCancel
    <2>7. WatchersAllocated'
        <3>1. CASE UNCHANGED watchers
            BY <1>0, <2>1, <3>1, KeepAllocated
        <3>2. ASSUME NEW i \in 1 .. Len(watchers), watchers' = SwapRemove(watchers, i)
              PROVE  WatchersAllocated'
            <4>1. watchers # <<>> /\ i \in Nat
                BY <1>0, EmptySeq, LenProperties DEF TypeOK
            <4> QED
                BY <1>0, <2>1, <3>2, <4>1, RemoveAllocated
        <3> QED
            BY <1>2, <3>1, <3>2 DEF ReturnCancel, RemoveWatchersOf
    <2> QED
        BY <2>4, <2>5, <2>6, <2>7, AllocatedParts
<1>3. CASE UnwatchScan
    <2>1. KeepsAllocations
        BY <1>3 DEF UnwatchScan, KeepsAllocations
    <2>2. QueueAllocated' /\ WatchersAllocated' /\ TimersAllocated'
        BY <1>0, <1>3, <2>1, KeepAllocated DEF UnwatchScan
    <2> DEFINE found == {i \in Top.at .. Len(watchers) : watchers[i].fd = Top.fd}
    <2>3. CASE stack' = Caller /\ UNCHANGED <<flags, cleanups>>
        <3>1. ScheduledOnce'
            BY <1>0, <1>3, <2>3, KeepOnce DEF UnwatchScan
        <3>2. StackAllocated'
            BY <1>0, <1>3, <2>1, <2>3, PopCallAllocated DEF UnwatchScan
        <3> QED
            BY <2>2, <3>1, <3>2, AllocatedParts
    <2>4. ASSUME NEW i \in found,
                 TaskCancel("unwatch", watchers[i].task, flags, Top.fd, i, Caller)
          PROVE  ScheduledOnce' /\ RefersToAllocated'
        <3>1. Top \in Frame /\ Caller \in Seq(Frame)
            BY <1>0, <1>3, StackProperties DEF UnwatchScan
        <3>2. Top.at \in Nat /\ Top.fd \in Fds \cup {None} /\ Top.at >= 1
            BY <1>3, <3>1 DEF Frame, UnwatchScan
        <3>3. i \in 1 .. Len(watchers) /\ i \in Nat /\ i >= 1
            BY <3>2
        <3>4. watchers[i].task \in Tasks /\ mem'[watchers[i].task] # "none"
            BY <1>0, <2>1, <3>3, ReferenceTypes DEF RefersToAllocated, KeepsAllocations
        <3>5. ScheduledOnce'
            BY <1>0, <1>3, <2>4, <3>4, CancelBits, KeepOnce DEF UnwatchScan
        <3>6. StackAllocated'
            BY <1>0, <1>3, <2>1, <2>4, <3>1, <3>2, <3>3, <3>4, CallersAllocated,
               TaskCancelAllocated DEF UnwatchScan
        <3> QED
            BY <2>2, <3>5, <3>6, AllocatedParts
    <2> QED
        BY <1>3, <2>3, <2>4 DEF UnwatchScan
<1>4. CASE UnwatchRemove
    <2>1. KeepsAllocations
        BY <1>4 DEF UnwatchRemove, KeepsAllocations
    <2>2. Top.task \in Tasks /\ mem'[Top.task] # "none"
        BY <1>0, <1>4, <2>1, TopTask, CallersAllocated DEF UnwatchRemove, KeepsAllocations
    <2>3. PICK ok \in BOOLEAN : Enqueue(Top.task, ok)
        BY <1>4 DEF UnwatchRemove, AllocResult
    <2>4. ScheduledOnce'
        BY <1>0, <2>2, <2>3, EnqueueOnce
    <2>5. QueueAllocated' /\ TimersAllocated'
        BY <1>0, <1>4, <2>1, <2>2, <2>3, EnqueueAllocated, KeepAllocated DEF UnwatchRemove
    <2>6. Top \in Frame /\ Caller \in Seq(Frame) /\ Top.at \in Nat
        BY <1>0, <1>4, StackProperties DEF UnwatchRemove, Frame
    <2>7. StackAllocated'
        <3> DEFINE frame == [Top EXCEPT !.task = None, !.cb = FALSE]
        <3>1. frame \in Frame /\ frame.task = None
            BY <1>4, <2>6 DEF Frame, UnwatchRemove
        <3>2. stack' = Append(Caller, frame)
            BY <1>4 DEF UnwatchRemove
        <3> HIDE DEF frame
        <3> QED
            BY <1>0, <1>4, <2>1, <2>6, <3>1, <3>2, CallersAllocated, PushAllocated
            DEF UnwatchRemove
    <2>8. WatchersAllocated'
        <3>1. CASE watchers = <<>>
            BY <1>0, <1>4, <2>1, <3>1, KeepAllocated DEF UnwatchRemove
        <3>2. CASE watchers # <<>>
            BY <1>0, <1>4, <2>1, <2>6, <3>2, RemoveAllocated DEF UnwatchRemove
        <3> QED BY <3>1, <3>2
    <2> QED
        BY <2>4, <2>5, <2>7, <2>8, AllocatedParts
<1>5. CASE ReturnRun
    <2> DEFINE fl == [flags EXCEPT ![Top.task] = @ \ {"RUNNING"}]
    <2>1. KeepsAllocations
        BY <1>5 DEF ReturnRun, KeepsAllocations
    <2>2. Top.task \in Tasks /\ mem'[Top.task] # "none" /\ Caller \in Seq(Frame)
        BY <1>0, <1>5, <2>1, TopTask, StackProperties, CallersAllocated, RuntimeAssumption
        DEF ReturnRun
    <2>3. /\ fl \in FlagSets /\ Reap(Top.task, fl, Caller)
          /\ \A u \in Tasks : "SCHEDULED" \in fl[u] <=> "SCHEDULED" \in flags[u]
        BY <1>0, <1>5 DEF ReturnRun, FlagSets
    <2> HIDE DEF fl
    <2>4. ScheduledOnce'
        <3>1. \A u \in Tasks : "SCHEDULED" \in flags'[u] <=> "SCHEDULED" \in fl[u]
            BY <2>2, <2>3, ReapBits
        <3> QED
            BY <1>0, <1>5, <2>3, <3>1, KeepOnce DEF ReturnRun
    <2>5. QueueAllocated' /\ WatchersAllocated' /\ TimersAllocated'
        BY <1>0, <1>5, <2>1, KeepAllocated DEF ReturnRun
    <2>6. StackAllocated'
        BY <1>0, <1>5, <2>1, <2>2, <2>3, CallersAllocated, ReapAllocated DEF ReturnRun
    <2> QED
        BY <2>4, <2>5, <2>6, AllocatedParts
<1> QED
    BY <1>1, <1>2, <1>3, <1>4, <1>5 DEF Return

\* The phases of a tick preserve QueueInv.
LEMMA TickQueue ==
    ASSUME QueueInv, PollerWait \/ TickStep \/ RunReturns
    PROVE  ScheduledOnce' /\ RefersToAllocated'
<1> USE DEF runVars, tickVars, tableVars
<1>0. TypeOK /\ ScheduledOnce /\ RefersToAllocated /\ flags \in FlagSets
      /\ stack \in Seq(Frame) /\ queue \in Seq(Tasks)
    BY DEF QueueInv, TypeOK, FlagSets
<1>1. CASE PollerWait \/ TimersDone \/ TickDone \/ RunReturns
    BY <1>0, <1>1 DEF PollerWait, TimersDone, TickDone, RunReturns, ScheduledOnce,
                      RefersToAllocated
<1>2. CASE Dispatch
    <2>1. KeepsAllocations
        BY <1>2 DEF Dispatch, KeepsAllocations
    <2>2. TimersAllocated' /\ StackAllocated'
        BY <1>0, <1>2, <2>1, KeepAllocated DEF Dispatch
    <2> DEFINE found == {i \in pos .. Len(watchers) : Matches(i, Head(ready))}
    <2>3. CASE UNCHANGED <<flags, queue, watchers, interest>>
        BY <1>0, <2>1, <2>2, <2>3, KeepOnce, KeepAllocated, AllocatedParts
    <2>4. ASSUME NEW i \in found, WakeWatcher(i)
          PROVE  ScheduledOnce' /\ RefersToAllocated'
        <3>1. i \in 1 .. Len(watchers)
            BY <1>0 DEF TypeOK
        <3>2. PICK ok \in BOOLEAN : Enqueue(watchers[i].task, ok)
            BY <2>4 DEF WakeWatcher, AllocResult
        <3>3. watchers[i].task \in Tasks /\ mem'[watchers[i].task] # "none"
            BY <1>0, <2>1, <3>1, ReferenceTypes DEF RefersToAllocated, KeepsAllocations
        <3>4. ScheduledOnce' /\ QueueAllocated'
            BY <1>0, <2>1, <3>2, <3>3, EnqueueOnce, EnqueueAllocated
        <3>5. watchers # <<>> /\ i \in Nat
            BY <1>0, <3>1, EmptySeq, LenProperties DEF TypeOK
        <3>6. WatchersAllocated'
            BY <1>0, <2>1, <2>4, <3>5, RemoveAllocated, KeepAllocated DEF WakeWatcher
        <3> QED
            BY <2>2, <3>4, <3>6, AllocatedParts
    <2> QED
        BY <1>2, <2>3, <2>4 DEF Dispatch
<1>3. CASE DispatchDone
    <2>1. KeepsAllocations
        BY <1>3 DEF DispatchDone, KeepsAllocations
    <2>2. ScheduledOnce'
        BY <1>0, <1>3, KeepOnce DEF DispatchDone
    <2>3. QueueAllocated' /\ WatchersAllocated' /\ TimersAllocated' /\ StackAllocated'
        BY <1>0, <1>3, <2>1, KeepAllocated DEF DispatchDone
    <2> QED
        BY <2>2, <2>3, AllocatedParts
<1>4. ASSUME NEW timer \in Timer, FireTimer(timer) PROVE ScheduledOnce' /\ RefersToAllocated'
    <2>1. KeepsAllocations
        BY <1>4 DEF FireTimer, KeepsAllocations
    <2>2. PICK ok \in BOOLEAN : Enqueue(timer.task, ok)
        BY <1>4 DEF FireTimer, AllocResult
    <2>3. timer.task \in Tasks /\ mem'[timer.task] # "none"
        BY <1>0, <1>4, <2>1 DEF FireTimer, Timer, RefersToAllocated, KeepsAllocations
    <2>4. ScheduledOnce' /\ QueueAllocated'
        BY <1>0, <2>1, <2>2, <2>3, EnqueueOnce, EnqueueAllocated
    <2>5. WatchersAllocated' /\ TimersAllocated' /\ StackAllocated'
        BY <1>0, <1>4, <2>1, KeepAllocated DEF FireTimer
    <2> QED
        BY <2>4, <2>5, AllocatedParts
<1>5. CASE RunNext
    <2> DEFINE t == Head(queue)
               popped == [flags EXCEPT ![t] = @ \ {"SCHEDULED"}]
    <2>1. KeepsAllocations /\ queue # <<>> /\ queue' = Tail(queue)
        BY <1>5 DEF RunNext, KeepsAllocations
    <2>2. t \in Tasks /\ t = queue[1] /\ 1 \in 1 .. Len(queue)
        BY <1>0, <2>1, HeadTailProperties, EmptySeq, LenProperties
    <2>3. mem'[t] # "none"
        BY <1>0, <2>1, <2>2 DEF RefersToAllocated, KeepsAllocations
    <2>4. /\ popped \in FlagSets /\ "SCHEDULED" \notin popped[t]
          /\ \A u \in Tasks \ {t} : popped[u] = flags[u]
        BY <1>0, <2>2 DEF FlagSets
    <2>5. QueueAllocated' /\ WatchersAllocated' /\ TimersAllocated'
        BY <1>0, <1>5, <2>1, PopAllocated, KeepAllocated DEF RunNext
    <2>6. CASE Reap(t, popped, stack)
        <3> HIDE DEF popped
        <3>1. \A u \in Tasks : "SCHEDULED" \in flags'[u] <=> "SCHEDULED" \in popped[u]
            BY <2>2, <2>4, <2>6, ReapBits
        <3>2. ScheduledOnce'
            BY <1>0, <2>1, <2>2, <2>4, <3>1, PopOnce
        <3>3. StackAllocated'
            BY <1>0, <2>1, <2>2, <2>3, <2>6, CallersAllocated, ReapAllocated
        <3> QED
            BY <2>5, <3>2, <3>3, AllocatedParts
    <2> DEFINE frame == [kind |-> "run", task |-> t, cb |-> TRUE, fd |-> None, at |-> 0]
    <2>7. CASE /\ flags' = [popped EXCEPT ![t] = @ \cup {"RUNNING"}]
               /\ stack' = Append(stack, frame)
        <3>1. frame \in Frame /\ frame.task = t
            BY <2>2, RuntimeAssumption DEF Frame
        <3>2. \A u \in Tasks : "SCHEDULED" \in flags'[u] <=> "SCHEDULED" \in popped[u]
            BY <2>2, <2>4, <2>7 DEF FlagSets
        <3> HIDE DEF popped, frame
        <3>3. ScheduledOnce'
            BY <1>0, <2>1, <2>2, <2>4, <3>2, PopOnce
        <3>4. StackAllocated'
            BY <1>0, <2>1, <2>3, <2>7, <3>1, CallersAllocated, PushAllocated
        <3> QED
            BY <2>5, <3>3, <3>4, AllocatedParts
    <2> QED
        BY <1>5, <2>6, <2>7 DEF RunNext
<1> QED
    BY <1>1, <1>2, <1>3, <1>4, <1>5 DEF TickStep

\* The steps of the shutdown preserve QueueInv.
LEMMA DestroyQueue ==
    ASSUME QueueInv, DestroyRuntime \/ DestroyStep
    PROVE  ScheduledOnce' /\ RefersToAllocated'
<1> USE DEF runVars, tickVars, tableVars
<1>0. TypeOK /\ ScheduledOnce /\ RefersToAllocated /\ flags \in FlagSets
      /\ stack \in Seq(Frame) /\ queue \in Seq(Tasks)
    BY DEF QueueInv, TypeOK, FlagSets
<1>1. CASE DestroyRuntime \/ DrainQueueDone \/ DrainWatchersDone \/ DrainTimersDone
    <2>1. KeepsAllocations /\ UNCHANGED <<queue, flags, stack>>
        BY <1>1 DEF DestroyRuntime, DrainQueueDone, DrainWatchersDone, DrainTimersDone,
                    KeepsAllocations
    <2>2. timers' \cup due' \subseteq timers \cup due
        BY <1>1 DEF DestroyRuntime, DrainQueueDone, DrainWatchersDone, DrainTimersDone
    <2>3. QueueAllocated' /\ TimersAllocated' /\ StackAllocated' /\ ScheduledOnce'
        BY <1>0, <2>1, <2>2, KeepAllocated, KeepOnce
    <2>4. WatchersAllocated'
        <3>1. CASE UNCHANGED watchers
            BY <1>0, <2>1, <3>1, KeepAllocated
        <3>2. CASE watchers' = <<>>
            BY <3>2, EmptySeq DEF WatchersAllocated
        <3> QED
            BY <1>1, <3>1, <3>2 DEF DestroyRuntime, DrainQueueDone, DrainWatchersDone,
                                    DrainTimersDone
    <2> QED
        BY <2>3, <2>4, AllocatedParts
<1>2. CASE DrainQueue
    <2> DEFINE t == Head(queue)
               popped == [flags EXCEPT ![t] = @ \ {"SCHEDULED"}]
    <2>1. KeepsAllocations /\ queue # <<>> /\ queue' = Tail(queue)
        BY <1>2 DEF DrainQueue, KeepsAllocations
    <2>2. t \in Tasks /\ t = queue[1] /\ 1 \in 1 .. Len(queue)
        BY <1>0, <2>1, HeadTailProperties, EmptySeq, LenProperties
    <2>3. mem'[t] # "none"
        BY <1>0, <2>1, <2>2 DEF RefersToAllocated, KeepsAllocations
    <2>4. /\ popped \in FlagSets /\ "SCHEDULED" \notin popped[t]
          /\ \A u \in Tasks \ {t} : popped[u] = flags[u]
        BY <1>0, <2>2 DEF FlagSets
    <2>5. QueueAllocated' /\ WatchersAllocated' /\ TimersAllocated'
        BY <1>0, <1>2, <2>1, PopAllocated, KeepAllocated DEF DrainQueue
    <2>6. CASE flags' = popped /\ UNCHANGED <<cleanups, stack>>
        <3>1. ScheduledOnce'
            BY <1>0, <2>1, <2>2, <2>4, <2>6, PopOnce
        <3>2. StackAllocated'
            BY <1>0, <2>1, <2>6, KeepAllocated
        <3> QED
            BY <2>5, <3>1, <3>2, AllocatedParts
    <2>7. CASE TaskDestroy(t, popped, stack)
        <3> HIDE DEF popped
        <3>1. \A u \in Tasks : "SCHEDULED" \in flags'[u] <=> "SCHEDULED" \in popped[u]
            BY <2>2, <2>4, <2>7, DestroyBits
        <3>2. ScheduledOnce'
            BY <1>0, <2>1, <2>2, <2>4, <3>1, PopOnce
        <3>3. StackAllocated'
            BY <1>0, <2>1, <2>2, <2>3, <2>7, CallersAllocated, TaskDestroyAllocated
        <3> QED
            BY <2>5, <3>2, <3>3, AllocatedParts
    <2> QED
        BY <1>2, <2>6, <2>7 DEF DrainQueue
<1>3. CASE DrainWatchers
    <2>1. KeepsAllocations
        BY <1>3 DEF DrainWatchers, KeepsAllocations
    <2>2. pos \in 1 .. Len(watchers)
        BY <1>0, <1>3 DEF DrainWatchers, TypeOK
    <2>3. watchers[pos].task \in Tasks /\ mem'[watchers[pos].task] # "none"
        BY <1>0, <2>1, <2>2, ReferenceTypes DEF RefersToAllocated, KeepsAllocations
    <2>4. ScheduledOnce'
        BY <1>0, <1>3, <2>3, DestroyBits, KeepOnce DEF DrainWatchers
    <2>5. QueueAllocated' /\ WatchersAllocated' /\ TimersAllocated'
        BY <1>0, <1>3, <2>1, KeepAllocated DEF DrainWatchers
    <2>6. StackAllocated'
        BY <1>0, <1>3, <2>1, <2>3, CallersAllocated, TaskDestroyAllocated DEF DrainWatchers
    <2> QED
        BY <2>4, <2>5, <2>6, AllocatedParts
<1>4. ASSUME NEW timer \in Timer, DrainTimers(timer) PROVE ScheduledOnce' /\ RefersToAllocated'
    <2>1. KeepsAllocations
        BY <1>4 DEF DrainTimers, KeepsAllocations
    <2>2. timer.task \in Tasks /\ mem'[timer.task] # "none"
        BY <1>0, <1>4, <2>1 DEF DrainTimers, Timer, RefersToAllocated, KeepsAllocations
    <2>3. ScheduledOnce'
        BY <1>0, <1>4, <2>2, DestroyBits, KeepOnce DEF DrainTimers
    <2>4. QueueAllocated' /\ WatchersAllocated' /\ TimersAllocated'
        BY <1>0, <1>4, <2>1, KeepAllocated DEF DrainTimers
    <2>5. StackAllocated'
        BY <1>0, <1>4, <2>1, <2>2, CallersAllocated, TaskDestroyAllocated DEF DrainTimers
    <2> QED
        BY <2>3, <2>4, <2>5, AllocatedParts
<1> QED
    BY <1>1, <1>2, <1>3, <1>4 DEF DestroyStep

\* Initially nothing is queued, watched, timed or in progress.
LEMMA InitQueue == Init => QueueInv
<1> SUFFICES ASSUME Init PROVE ScheduledOnce /\ RefersToAllocated
    BY InitType DEF QueueInv
<1>1. Len(queue) = 0 /\ Len(watchers) = 0 /\ Len(stack) = 0
    BY EmptySeq DEF Init
<1>2. timers \cup due = {} /\ \A t \in Tasks : flags[t] = {}
    BY DEF Init
<1> QED
    BY <1>1, <1>2 DEF ScheduledOnce, RefersToAllocated

\* QueueInv is inductive.
LEMMA NextQueue == QueueInv /\ [Next]_vars => QueueInv'
<1> SUFFICES ASSUME QueueInv, [Next]_vars PROVE ScheduledOnce' /\ RefersToAllocated'
    BY NextType DEF QueueInv
<1>1. CASE UNCHANGED vars
    BY <1>1 DEF vars, QueueInv, ScheduledOnce, RefersToAllocated
<1> QED
    BY <1>1, UserOperationQueue, ReturnQueue, TickQueue, DestroyQueue DEF Next, Gone

\* For any number of tasks, descriptors and nested callbacks, and whatever
\* allocations fail, the SCHEDULED bit of a task says whether the scheduler's
\* list holds it, and the list never holds a task twice (scheduler.c).
THEOREM ScheduledOnceAlways == Spec => []ScheduledOnce
<1>1. Init => QueueInv
    BY InitQueue
<1>2. QueueInv /\ [Next]_vars => QueueInv'
    BY NextQueue
<1>3. QueueInv => ScheduledOnce
    BY DEF QueueInv
<1> QED
    BY <1>1, <1>2, <1>3, PTL DEF Spec

-----------------------------------------------------------------------------
(* The dispatch of events: no watcher is skipped *)

\* The watchers that the loop has passed and that match its event are persistent
\* and queued.  No call is in progress during the dispatch, and the batch of
\* events is empty outside it.
DispatchInv ==
    /\ pc = "dispatch" => stack = <<>>
    /\ pc # "dispatch" => ready = <<>>
    /\ ready # <<>> =>
          \A i \in 1 .. Len(watchers) : i < pos /\ Matches(i, Head(ready)) =>
              watchers[i].mode = "PERSISTENT" /\ "SCHEDULED" \in flags[watchers[i].task]

\* Steps outside the dispatch, and its beginning and end.
LEMMA OutsideDispatch ==
    ASSUME DispatchInv, ready' = ready, pc # "dispatch", pc' # "dispatch"
    PROVE  DispatchInv'
BY DEF DispatchInv

\* Steps outside the dispatch.
LEMMA ElsewhereDispatch ==
    ASSUME DispatchInv, \/ UserOperation \/ Return \/ RunReturns \/ DestroyRuntime
                        \/ DestroyStep \/ TimersDone \/ RunNext \/ TickDone
                        \/ \E timer \in Timer : FireTimer(timer)
    PROVE  DispatchInv'
<1> USE DEF runVars, tickVars, tableVars
<1>1. CASE UserOperation
    BY <1>1, OutsideDispatch
    DEF UserOperation, UserCode, Schedule, SetTimer, WatchFd, CancelTask, UnwatchFd,
        SetRunning, Run
<1>2. CASE Return
    <2>1. stack # <<>> /\ pc # "dispatch"
        BY <1>2 DEF Return, ReturnDestroy, ReturnCancel, UnwatchScan, UnwatchRemove, ReturnRun,
                    DispatchInv
    <2> QED
        BY <1>2, <2>1, OutsideDispatch
        DEF Return, ReturnDestroy, ReturnCancel, UnwatchScan, UnwatchRemove, ReturnRun
<1>3. CASE RunReturns \/ DestroyRuntime \/ DestroyStep
    BY <1>3, OutsideDispatch
    DEF RunReturns, DestroyRuntime, DestroyStep, DrainQueue, DrainQueueDone, DrainWatchers,
        DrainWatchersDone, DrainTimers, DrainTimersDone
<1>4. CASE TimersDone \/ RunNext \/ TickDone \/ \E timer \in Timer : FireTimer(timer)
    BY <1>4, OutsideDispatch DEF TimersDone, RunNext, TickDone, FireTimer
<1> QED
    BY <1>1, <1>2, <1>3, <1>4

\* One watcher is woken: a persistent one is passed by the loop, and a one-shot
\* one makes room for the last entry, which the loop has not passed.
LEMMA WakeDispatch ==
    ASSUME TypeOK, DispatchInv, ~ AllocMayFail, pc = "dispatch", UNCHANGED <<pc, ready, stack>>,
           NEW i \in pos .. Len(watchers), Matches(i, Head(ready)), WakeWatcher(i),
           \A k \in pos .. Len(watchers) : Matches(k, Head(ready)) => i <= k
    PROVE  DispatchInv'
<1>0. /\ pos \in Nat \ {0} /\ Len(watchers) \in Nat /\ i \in 1 .. Len(watchers) /\ i \in Nat
      /\ flags \in FlagSets
    BY LenProperties DEF TypeOK, FlagSets
<1>1. watchers[i] \in Watcher /\ watchers[i].task \in Tasks /\ watchers # <<>>
    BY <1>0, WatcherType, EmptySeq
<1>2. Enqueue(watchers[i].task, TRUE)
    BY DEF WakeWatcher, AllocResult
<1>3. /\ "SCHEDULED" \in flags'[watchers[i].task]
      /\ \A t \in Tasks : "SCHEDULED" \in flags[t] => "SCHEDULED" \in flags'[t]
    BY <1>0, <1>1, <1>2 DEF Enqueue, FlagSets
<1>4. ASSUME ready # <<>>
      PROVE  \A k \in 1 .. Len(watchers) : k < i /\ Matches(k, Head(ready)) =>
                 /\ watchers[k].mode = "PERSISTENT"
                 /\ "SCHEDULED" \in flags'[watchers[k].task]
    <2> SUFFICES ASSUME NEW k \in 1 .. Len(watchers), k < i, Matches(k, Head(ready))
                 PROVE  /\ watchers[k].mode = "PERSISTENT"
                        /\ "SCHEDULED" \in flags'[watchers[k].task]
        OBVIOUS
    <2>1. k < pos
        BY <1>0
    <2>2. watchers[k].task \in Tasks
        BY WatcherType
    <2> QED
        BY <1>3, <1>4, <2>1, <2>2 DEF DispatchInv
<1>5. CASE watchers[i].mode = "ONESHOT"
    <2>1. watchers' = SwapRemove(watchers, i) /\ pos' = i
        BY <1>5 DEF WakeWatcher
    <2>2. watchers \in Seq(Watcher)
        BY DEF TypeOK
    <2>3. Len(watchers') = Len(watchers) - 1
        BY <1>0, <1>1, <2>1, <2>2, SwapRemoveProperties
    <2>4. \A k \in 1 .. (Len(watchers) - 1) :
              watchers'[k] = IF k = i THEN watchers[Len(watchers)] ELSE watchers[k]
        BY <1>0, <1>1, <2>1, <2>2, SwapRemoveProperties
    <2>5. \A k \in 1 .. Len(watchers') : k < i =>
              watchers'[k] = watchers[k] /\ k \in 1 .. Len(watchers)
        BY <1>0, <2>3, <2>4
    <2> QED
        BY <1>3, <1>4, <2>1, <2>5 DEF DispatchInv, Matches
<1>6. CASE watchers[i].mode # "ONESHOT"
    <2>1. watchers' = watchers /\ pos' = i + 1 /\ watchers[i].mode = "PERSISTENT"
        BY <1>1, <1>6 DEF WakeWatcher, Watcher, Mode
    <2>2. \A k \in 1 .. Len(watchers) : k < pos' => k < i \/ k = i
        BY <1>0, <2>1
    <2> QED
        BY <1>3, <1>4, <2>1, <2>2 DEF DispatchInv, Matches
<1> QED
    BY <1>5, <1>6

\* The invariant of the dispatch is inductive when no allocation fails.
LEMMA StepDispatch ==
    ASSUME TypeOK, DispatchInv, ~ AllocMayFail, [Next]_vars
    PROVE  DispatchInv'
<1> USE DEF runVars, tickVars, tableVars
<1>1. CASE UNCHANGED vars \/ Gone
    BY <1>1 DEF vars, Gone, DispatchInv, Matches
<1>2. CASE PollerWait
    <2>1. pos' = 1 /\ pc' = "dispatch" /\ UNCHANGED stack /\ stack = <<>>
        BY <1>2 DEF PollerWait
    <2> QED
        BY <2>1 DEF DispatchInv
<1>3. CASE DispatchDone
    <2>1. ready' = <<>> /\ pc' = "timers"
        BY <1>3 DEF DispatchDone
    <2> QED
        BY <2>1 DEF DispatchInv
<1>4. CASE Dispatch
    <2>1. pc = "dispatch" /\ UNCHANGED <<pc, stack>>
        BY <1>4 DEF Dispatch
    <2>2. CASE pos' = 1
        BY <2>1, <2>2 DEF DispatchInv
    <2>3. CASE \E i \in {k \in pos .. Len(watchers) : Matches(k, Head(ready))} :
                  /\ \A k \in {k \in pos .. Len(watchers) : Matches(k, Head(ready))} : i <= k
                  /\ WakeWatcher(i)
                  /\ UNCHANGED ready
        BY <2>1, <2>3, WakeDispatch
    <2> QED
        BY <1>4, <2>2, <2>3 DEF Dispatch
<1> QED
    BY <1>1, <1>2, <1>3, <1>4, ElsewhereDispatch DEF Next, TickStep

\* The dispatch of an event is over only when the event is dropped.
LEMMA TailDiffers ==
    ASSUME NEW S, NEW s \in Seq(S), s # <<>>
    PROVE  Tail(s) # s
<1> DEFINE n == Len(s)
           m == Len(Tail(s))
<1>1. n \in Nat /\ m = n - 1
    BY EmptySeq, LenProperties, HeadTailProperties
<1>2. m # n
    <2> HIDE DEF n, m
    <2> QED
        BY <1>1
<1> QED
    BY <1>2

\* No watcher that an event matches is skipped, in spite of the swap-removals
\* under the loop of _bb_runtime_wait, when no allocation fails.
THEOREM NoWatcherSkippedAlways ==
    ASSUME ~ AllocMayFail
    PROVE  Spec => NoWatcherSkipped
<1>1. Init => DispatchInv
    BY DEF Init, DispatchInv
<1>2. TypeOK /\ DispatchInv /\ [Next]_vars => DispatchInv'
    BY StepDispatch
<1>3. TypeOK /\ DispatchInv /\ [Next]_vars =>
        [ready # <<>> /\ ready' = Tail(ready) =>
            \A i \in 1 .. Len(watchers) :
                Matches(i, Head(ready)) => /\ watchers[i].mode = "PERSISTENT"
                                           /\ "SCHEDULED" \in flags[watchers[i].task]]_vars
    <2> SUFFICES ASSUME TypeOK, DispatchInv, Next, ready # <<>>, ready' = Tail(ready)
                 PROVE  \A i \in 1 .. Len(watchers) :
                            Matches(i, Head(ready)) =>
                                /\ watchers[i].mode = "PERSISTENT"
                                /\ "SCHEDULED" \in flags[watchers[i].task]
        OBVIOUS
    <2>1. ready' # ready
        BY TailDiffers DEF TypeOK
    <2>2. pc = "dispatch"
        BY DEF DispatchInv
    <2>3. Dispatch
        BY <2>1, <2>2
        DEF Next, TickStep, Return, UserOperation, DestroyStep, Gone, vars, UserCode,
            Schedule, SetTimer, WatchFd, CancelTask, UnwatchFd, SetRunning, Run, ReturnDestroy,
            ReturnCancel, UnwatchScan, UnwatchRemove, ReturnRun, RunReturns, PollerWait,
            DispatchDone, FireTimer, TimersDone, RunNext, TickDone, DestroyRuntime,
            DrainQueue, DrainQueueDone, DrainWatchers, DrainWatchersDone, DrainTimers,
            DrainTimersDone, tickVars
    <2>4. {i \in pos .. Len(watchers) : Matches(i, Head(ready))} = {}
        BY <2>1, <2>3 DEF Dispatch
    <2>5. \A i \in 1 .. Len(watchers) : i < pos \/ i \in pos .. Len(watchers)
        BY LenProperties DEF TypeOK
    <2>6. \A i \in 1 .. Len(watchers) : Matches(i, Head(ready)) =>
              watchers[i].mode = "PERSISTENT" /\ "SCHEDULED" \in flags[watchers[i].task]
        BY <2>4, <2>5 DEF DispatchInv
    <2> QED
        BY <2>6
<1>4. Spec => []TypeOK
    BY TypeCorrect
<1> QED
    BY <1>1, <1>2, <1>3, <1>4, PTL DEF Spec, NoWatcherSkipped

-----------------------------------------------------------------------------
(* Memory: the inductive invariant, part by part *)

\* A call that cancels t waits for the cleanup callback of t.
Cancelling(t) ==
    \E i \in 1 .. Len(stack) :
        stack[i].kind \in {"cancel", "unwatch"} /\ stack[i].task = t

\* A call that destroys t waits for the cleanup callback of t.
Destroying(t) ==
    \E i \in 1 .. Len(stack) : stack[i].kind = "destroy" /\ stack[i].task = t

\* Entries that the runtime will still look at: the loops of bb_runtime_destroy
\* leave behind those that they have handled.
LiveWatcher(i) ==
    i \in 1 .. Len(watchers) /\ (pc = "destroyWatchers" => i >= pos)
LiveTimer(timer) ==
    timer \in timers /\ (pc = "destroyTimers" => timer \in due)

Owned(t) ==
    \/ \E i \in 1 .. Len(watchers) : LiveWatcher(i) /\ watchers[i].task = t
    \/ \E timer \in timers : LiveTimer(timer) /\ timer.task = t

DestroyPhase == {"destroyQueue", "destroyWatchers", "destroyTimers"}

\* Calls are in progress only where user code may run, and the shutdown waits
\* for one cleanup at a time.
PhaseShape ==
    /\ pc # "undefined"
    /\ pc \in {"dispatch", "timers", "gone"} => Len(stack) = 0
    /\ pc \in DestroyPhase =>
          /\ Len(stack) <= 1
          /\ \A i \in 1 .. Len(stack) : stack[i].kind = "destroy"
    /\ pc \in {"destroyWatchers", "destroyTimers"} =>
          \A t \in Tasks : "SCHEDULED" \notin flags[t]

\* A run callback is the outermost call; bb_runtime_unwatch_fd, whose cleanups
\* do not use the runtime, is the innermost one and still finds its entry.
FrameShape ==
    \A i \in 1 .. Len(stack) :
        /\ stack[i].kind = "run" =>
              i = 1 /\ pc = "loop" /\ "RUNNING" \in flags[stack[i].task]
        /\ stack[i].kind = "unwatch" => i = Len(stack)
        /\ stack[i].kind = "unwatch" /\ stack[i].task # None =>
              /\ stack[i].at \in 1 .. Len(watchers)
              /\ watchers[stack[i].at].task = stack[i].task

RunningShape ==
    \A t \in Tasks : "RUNNING" \in flags[t] =>
        Len(stack) >= 1 /\ stack[1].kind = "run" /\ stack[1].task = t

\* A task has one owner: one watcher or one timer.
UniqueOwner ==
    /\ \A i, k \in 1 .. Len(watchers) : watchers[i].task = watchers[k].task => i = k
    /\ \A a, b \in timers : a.task = b.task => a = b
    /\ \A i \in 1 .. Len(watchers), timer \in timers : watchers[i].task # timer.task

\* What the owner of a task may rely on.  A persistent owner keeps the task from
\* being reaped, unless a cancellation that is in progress will drop the owner;
\* the task of a one-shot owner is not queued and does not run yet.
KeptFor(t, persistent) ==
    /\ mem[t] = "live"
    /\ persistent => "PERSISTENT" \in flags[t] \/ Cancelling(t)
    /\ ~ persistent => "SCHEDULED" \notin flags[t] /\ "RUNNING" \notin flags[t]

OwnerInv ==
    /\ \A i \in 1 .. Len(watchers) :
          LiveWatcher(i) => KeptFor(watchers[i].task, watchers[i].mode = "PERSISTENT")
    /\ \A timer \in timers :
          LiveTimer(timer) => KeptFor(timer.task, timer.repeating)

\* Nothing but its own frame refers to a task that is being destroyed.
DestroyIsolated ==
    \A i \in 1 .. Len(stack) : stack[i].kind = "destroy" =>
        /\ "SCHEDULED" \notin flags[stack[i].task]
        /\ "FINALIZED" \in flags[stack[i].task]
        /\ ~ Owned(stack[i].task)
        /\ \A k \in 1 .. Len(stack) : k # i => stack[k].task # stack[i].task

FramesLive ==
    \A i \in 1 .. Len(stack) : stack[i].task # None => mem[stack[i].task] = "live"

DueInv == pc \in {"timers", "destroyTimers"} => due \subseteq timers

\* What the bits of a task say of its allocation and its cleanup.
FlagInv ==
    \A t \in Tasks :
        /\ "SCHEDULED" \in flags[t] => mem[t] = "live"
        /\ mem[t] = "none" => flags[t] = {}
        /\ cleanups[t] = IF "FINALIZED" \in flags[t] THEN 1 ELSE 0
        /\ "FINALIZED" \in flags[t] =>
              "CANCELLED" \in flags[t] \/ mem[t] = "freed" \/ Destroying(t)
        /\ "CANCELLED" \in flags[t] => "FINALIZED" \in flags[t]

StackInv == PhaseShape /\ FrameShape /\ RunningShape /\ DestroyIsolated /\ FramesLive
TableInv == UniqueOwner /\ OwnerInv /\ DueInv /\ FlagInv

MemInv == QueueInv /\ StackInv /\ TableInv

-----------------------------------------------------------------------------
(* Facts about the state *)

\* The frames of the stack, its top and its callers.
LEMMA StackFacts ==
    ASSUME TypeOK
    PROVE  /\ Len(stack) \in Nat
           /\ stack = <<>> <=> Len(stack) = 0
           /\ \A i \in 1 .. Len(stack) : stack[i] \in Frame
           /\ stack # <<>> =>
                 /\ Len(stack) \in 1 .. Len(stack)
                 /\ Top = stack[Len(stack)]
                 /\ Caller \in Seq(Frame)
                 /\ Len(Caller) = Len(stack) - 1
                 /\ \A i \in 1 .. (Len(stack) - 1) : Caller[i] = stack[i]
<1>1. /\ Len(stack) \in Nat
      /\ stack = <<>> <=> Len(stack) = 0
    BY EmptySeq, LenProperties DEF TypeOK
<1>2. \A i \in 1 .. Len(stack) : stack[i] \in Frame
    BY ElementOfSeq DEF TypeOK
<1>3. ASSUME stack # <<>>
      PROVE  /\ Len(stack) \in 1 .. Len(stack)
             /\ Top = stack[Len(stack)]
             /\ Caller \in Seq(Frame)
             /\ Len(Caller) = Len(stack) - 1
             /\ \A i \in 1 .. (Len(stack) - 1) : Caller[i] = stack[i]
    <2>1. Len(stack) \in Nat \ {0}
        BY <1>1, <1>3
    <2> QED
        BY <1>3, <2>1, StackProperties DEF TypeOK, Top
<1> QED
    BY <1>1, <1>2, <1>3

\* What the frames name.
LEMMA FrameTypes ==
    ASSUME TypeOK, NEW i \in 1 .. Len(stack)
    PROVE  /\ stack[i].kind \in {"run", "destroy", "cancel", "unwatch"}
           /\ stack[i].task \in Tasks \cup {None}
           /\ stack[i].kind # "unwatch" => stack[i].task \in Tasks
BY StackFacts DEF Frame

\* A call that is pushed on the calls in progress.
LEMMA Pushed ==
    ASSUME NEW callers \in Seq(Frame), NEW frame \in Frame, stack' = Append(callers, frame)
    PROVE  /\ Len(callers) \in Nat
           /\ Len(stack') = Len(callers) + 1
           /\ Len(stack') \in 1 .. Len(stack')
           /\ \A i \in 1 .. Len(callers) : i \in 1 .. Len(stack') /\ stack'[i] = callers[i]
           /\ stack'[Len(callers) + 1] = frame
           /\ \A i \in 1 .. Len(stack') : i \in 1 .. Len(callers) \/ i = Len(callers) + 1
<1>1. /\ Len(callers) \in Nat /\ Len(stack') = Len(callers) + 1
      /\ \A i \in 1 .. Len(callers) : stack'[i] = callers[i]
      /\ stack'[Len(callers) + 1] = frame
    BY AppendProperties, LenProperties
<1> QED
    BY <1>1

\* bb_task_destroy up to the callback.
LEMMA DestroyCall ==
    ASSUME TypeOK, NEW t \in Tasks, NEW fl \in FlagSets, NEW callers \in Seq(Frame),
           TaskDestroy(t, fl, callers)
    PROVE  /\ flags' = [fl EXCEPT ![t] = @ \cup {"FINALIZED"}]
           /\ cleanups' = IF "FINALIZED" \in fl[t] THEN cleanups
                          ELSE [cleanups EXCEPT ![t] = @ + 1]
           /\ \E frame \in Frame : /\ frame.kind = "destroy" /\ frame.task = t
                                   /\ stack' = Append(callers, frame)
<1>1. CleanupFrame("destroy", t, fl, None, 0) \in Frame
    BY RuntimeAssumption DEF CleanupFrame, Frame
<1>2. /\ CleanupFrame("destroy", t, fl, None, 0).kind = "destroy"
      /\ CleanupFrame("destroy", t, fl, None, 0).task = t
    BY DEF CleanupFrame
<1> QED
    BY <1>1, <1>2 DEF TaskDestroy, Finalize

\* bb_task_cancel up to the callback.
LEMMA CancelCall ==
    ASSUME TypeOK, NEW t \in Tasks, NEW fl \in FlagSets, NEW callers \in Seq(Frame),
           NEW kind \in {"cancel", "unwatch"}, NEW fd \in Fds \cup {None}, NEW at \in Nat,
           kind = "unwatch" => at >= 1,
           TaskCancel(kind, t, fl, fd, at, callers)
    PROVE  /\ flags' = [fl EXCEPT ![t] = ((@ \cup {"CANCELLED"}) \ {"PERSISTENT"})
                                             \cup {"FINALIZED"}]
           /\ cleanups' = IF "FINALIZED" \in fl[t] THEN cleanups
                          ELSE [cleanups EXCEPT ![t] = @ + 1]
           /\ \E frame \in Frame :
                 /\ frame.kind = kind /\ frame.task = t /\ frame.fd = fd /\ frame.at = at
                 /\ stack' = Append(callers, frame)
<1> DEFINE cancelled == [fl EXCEPT ![t] = (@ \cup {"CANCELLED"}) \ {"PERSISTENT"}]
           frame == CleanupFrame(kind, t, cancelled, fd, at)
<1>1. /\ cancelled \in FlagSets
      /\ cancelled[t] = (fl[t] \cup {"CANCELLED"}) \ {"PERSISTENT"}
      /\ \A u \in Tasks : u # t => cancelled[u] = fl[u]
    BY DEF FlagSets, TaskFlag
<1>2. Finalize(t, cancelled)
    BY DEF TaskCancel
<1>3. stack' = Append(callers, CleanupFrame(kind, t, fl, fd, at))
    BY DEF TaskCancel
<1>4. CleanupFrame(kind, t, fl, fd, at) \in Frame
    BY RuntimeAssumption DEF CleanupFrame, Frame
<1>5. \E f \in Frame : /\ f.kind = kind /\ f.task = t /\ f.fd = fd /\ f.at = at
                       /\ stack' = Append(callers, f)
    BY <1>3, <1>4 DEF CleanupFrame
<1>6. /\ flags' = [cancelled EXCEPT ![t] = @ \cup {"FINALIZED"}]
      /\ cleanups' = IF "FINALIZED" \in cancelled[t] THEN cleanups
                     ELSE [cleanups EXCEPT ![t] = @ + 1]
    BY <1>2 DEF Finalize
<1>7. "FINALIZED" \in cancelled[t] <=> "FINALIZED" \in fl[t]
    BY <1>1
<1>8. [cancelled EXCEPT ![t] = @ \cup {"FINALIZED"}]
         = [fl EXCEPT ![t] = ((@ \cup {"CANCELLED"}) \ {"PERSISTENT"}) \cup {"FINALIZED"}]
    BY DEF FlagSets
<1> HIDE DEF cancelled
<1> QED
    BY <1>5, <1>6, <1>7, <1>8

\* The call of bb_task_cancel that user code makes waits on top of the others.
LEMMA CancelPushed ==
    ASSUME TypeOK, NEW u \in Tasks, NEW fl \in FlagSets,
           TaskCancel("cancel", u, fl, None, 0, stack)
    PROVE  /\ flags'[u] = ((fl[u] \cup {"CANCELLED"}) \ {"PERSISTENT"}) \cup {"FINALIZED"}
           /\ cleanups'[u] = IF "FINALIZED" \in fl[u] THEN cleanups[u] ELSE cleanups[u] + 1
           /\ \A v \in Tasks : v # u => flags'[v] = fl[v] /\ cleanups'[v] = cleanups[v]
           /\ Len(stack) \in Nat /\ Len(stack') = Len(stack) + 1
           /\ \A i \in 1 .. Len(stack) : i \in 1 .. Len(stack') /\ stack'[i] = stack[i]
           /\ stack'[Len(stack) + 1].kind = "cancel" /\ stack'[Len(stack) + 1].task = u
           /\ Len(stack) + 1 \in 1 .. Len(stack')
           /\ \A i \in 1 .. Len(stack') : i \in 1 .. Len(stack) \/ i = Len(stack) + 1
<1>0. stack \in Seq(Frame) /\ cleanups \in [Tasks -> Nat]
    BY DEF TypeOK
<1>1. flags' = [fl EXCEPT ![u] = ((@ \cup {"CANCELLED"}) \ {"PERSISTENT"})
                                     \cup {"FINALIZED"}]
    BY <1>0, CancelCall
<1>c. cleanups' = IF "FINALIZED" \in fl[u] THEN cleanups
                  ELSE [cleanups EXCEPT ![u] = @ + 1]
    BY <1>0, CancelCall
<1>f. \E frame \in Frame :
          /\ frame.kind = "cancel" /\ frame.task = u /\ frame.fd = None /\ frame.at = 0
          /\ stack' = Append(stack, frame)
    BY <1>0, CancelCall
<1>2. PICK frame \in Frame : /\ frame.kind = "cancel" /\ frame.task = u
                             /\ stack' = Append(stack, frame)
    BY <1>f
<1>3. /\ Len(stack) \in Nat /\ Len(stack') = Len(stack) + 1
      /\ \A i \in 1 .. Len(stack) : i \in 1 .. Len(stack') /\ stack'[i] = stack[i]
      /\ stack'[Len(stack) + 1] = frame
      /\ Len(stack) + 1 \in 1 .. Len(stack')
      /\ \A i \in 1 .. Len(stack') : i \in 1 .. Len(stack) \/ i = Len(stack) + 1
    BY <1>0, <1>2, Pushed
<1>4. /\ flags'[u] = ((fl[u] \cup {"CANCELLED"}) \ {"PERSISTENT"}) \cup {"FINALIZED"}
      /\ cleanups'[u] = IF "FINALIZED" \in fl[u] THEN cleanups[u] ELSE cleanups[u] + 1
      /\ \A v \in Tasks : v # u => flags'[v] = fl[v] /\ cleanups'[v] = cleanups[v]
    BY <1>0, <1>1, <1>c DEF FlagSets
<1> QED
    BY <1>2, <1>3, <1>4

-----------------------------------------------------------------------------
(* Facts about states of the invariant *)

\* User code does not run inside bb_runtime_unwatch_fd.
LEMMA UserFacts ==
    ASSUME MemInv, ~ ReentrantUnwatch, UserCode
    PROVE  /\ pc \in {"out", "loop"}
           /\ \A i \in 1 .. Len(stack) : stack[i].kind # "unwatch"
<1>1. TypeOK /\ FrameShape
    BY DEF MemInv, QueueInv, StackInv
<1>2. CASE stack = <<>>
    BY <1>1, <1>2, StackFacts DEF UserCode
<1>3. CASE stack # <<>>
    <2>1. Top.kind # "unwatch" /\ pc \in {"out", "loop"} /\ Top = stack[Len(stack)]
        BY <1>1, <1>3, StackFacts DEF UserCode
    <2> QED
        BY <1>1, <2>1 DEF FrameShape
<1> QED
    BY <1>2, <1>3

\* Nothing refers to a task that has not been allocated yet.
LEMMA FreshFacts ==
    ASSUME MemInv, NEW t \in Tasks, mem[t] = "none"
    PROVE  /\ flags[t] = {} /\ cleanups[t] = 0
           /\ \A i \in 1 .. Len(stack) : stack[i].task # t
           /\ \A i \in 1 .. Len(watchers) : watchers[i].task # t
           /\ \A timer \in timers : timer.task # t
           /\ ~ Owned(t) /\ ~ Cancelling(t) /\ ~ Destroying(t)
<1>1. flags[t] = {} /\ cleanups[t] = 0
    BY DEF MemInv, TableInv, FlagInv
<1>2. \A i \in 1 .. Len(stack) : stack[i].task # t
    BY RuntimeAssumption DEF MemInv, QueueInv, RefersToAllocated
<1>3. /\ \A i \in 1 .. Len(watchers) : watchers[i].task # t
      /\ \A timer \in timers : timer.task # t
    BY DEF MemInv, QueueInv, RefersToAllocated
<1> QED
    BY <1>1, <1>2, <1>3 DEF Owned, Cancelling, Destroying

\* OwnerInv in the next state, as the proofs below establish it.
LEMMA OwnerNext ==
    ASSUME \A i \in 1 .. Len(watchers') : LiveWatcher(i)' => \A u, b :
              u = watchers'[i].task /\ b = (watchers'[i].mode = "PERSISTENT") => KeptFor(u, b)',
           \A timer \in timers' : LiveTimer(timer)' => \A u, b :
              u = timer.task /\ b = timer.repeating => KeptFor(u, b)'
    PROVE  OwnerInv'
BY DEF OwnerInv

\* DestroyIsolated in the next state.
LEMMA IsolatedNext ==
    ASSUME \A i \in 1 .. Len(stack') : stack'[i].kind = "destroy" => \A u :
              u = stack'[i].task =>
                 /\ "SCHEDULED" \notin flags'[u] /\ "FINALIZED" \in flags'[u] /\ ~ Owned(u)'
                 /\ \A k \in 1 .. Len(stack') : k # i => stack'[k].task # u
    PROVE  DestroyIsolated'
BY DEF DestroyIsolated

\* The frames of the tasks that are being destroyed, after a step that makes no
\* new one and neither gives them an owner nor queues them.
LEMMA IsolatedStays ==
    ASSUME TypeOK, DestroyIsolated, \A v : Owned(v)' => Owned(v),
           \A i \in 1 .. Len(stack') : stack'[i].kind = "destroy" =>
              i \in 1 .. Len(stack) /\ stack'[i] = stack[i],
           \A k \in 1 .. Len(stack') :
              \/ k \in 1 .. Len(stack) /\ stack'[k].task = stack[k].task
              \/ \A v \in Tasks : stack'[k].task = v => ~ Destroying(v),
           \A v \in Tasks : Destroying(v) => flags'[v] = flags[v]
    PROVE  DestroyIsolated'
<1>1. ASSUME NEW i \in 1 .. Len(stack'), stack'[i].kind = "destroy", NEW u,
             u = stack'[i].task
      PROVE  /\ "SCHEDULED" \notin flags'[u] /\ "FINALIZED" \in flags'[u] /\ ~ Owned(u)'
             /\ \A k \in 1 .. Len(stack') : k # i => stack'[k].task # u
    <2>1. i \in 1 .. Len(stack) /\ stack'[i] = stack[i] /\ u \in Tasks /\ Destroying(u)
        BY <1>1, FrameTypes DEF Destroying
    <2>2. /\ "SCHEDULED" \notin flags[u] /\ "FINALIZED" \in flags[u] /\ ~ Owned(u)
          /\ \A k \in 1 .. Len(stack) : k # i => stack[k].task # u
        BY <1>1, <2>1 DEF DestroyIsolated
    <2> QED
        BY <2>1, <2>2
<1> QED
    BY <1>1, IsolatedNext

-----------------------------------------------------------------------------
(* The public operations *)

\* A step that gives a new task to an owner or to the queue, without a call.
LEMMA NewTaskStack ==
    ASSUME MemInv, NEW t \in Tasks, mem[t] = "none",
           mem' = [mem EXCEPT ![t] = "live"],
           flags' \in FlagSets, \A u \in Tasks : u # t => flags'[u] = flags[u],
           flags'[t] \subseteq {"SCHEDULED", "PERSISTENT"},
           \A u \in Tasks : u # t => (Owned(u)' => Owned(u)),
           pc \in {"out", "loop"},
           \A i \in 1 .. Len(stack) : stack[i].kind # "unwatch",
           UNCHANGED <<cleanups, pc, stack>>
    PROVE  StackInv' /\ FlagInv'
<1>0. TypeOK /\ mem \in [Tasks -> {"none", "live", "freed"}]
    BY DEF MemInv, QueueInv, TypeOK
<1>1. /\ \A i \in 1 .. Len(stack) : stack[i].task # t /\ stack[i].task \in Tasks
      /\ flags[t] = {} /\ cleanups[t] = 0
    BY <1>0, FreshFacts, FrameTypes
<1>2. \A u \in Tasks : u # t => mem'[u] = mem[u]
    BY <1>0
<1>3. mem'[t] = "live"
    BY <1>0
<1>4. PhaseShape' /\ FrameShape' /\ RunningShape'
    BY <1>1 DEF MemInv, StackInv, PhaseShape, FrameShape, RunningShape
<1>5. DestroyIsolated'
    BY <1>1 DEF MemInv, StackInv, DestroyIsolated
<1>6. FramesLive'
    BY <1>1, <1>2 DEF MemInv, StackInv, FramesLive
<1>7. FlagInv'
    <2>1. \A u \in Tasks : Destroying(u)' <=> Destroying(u)
        BY DEF Destroying
    <2> QED
        BY <1>1, <1>2, <1>3, <2>1 DEF MemInv, TableInv, FlagInv
<1> QED
    BY <1>4, <1>5, <1>6, <1>7 DEF StackInv

\* What keeps the task of an owner alive, when its bits and the calls that
\* cancel it stay.
LEMMA KeptStays ==
    ASSUME NEW t, NEW persistent, KeptFor(t, persistent), mem'[t] = "live",
           "PERSISTENT" \in flags[t] => "PERSISTENT" \in flags'[t] \/ Cancelling(t)',
           Cancelling(t) => Cancelling(t)',
           ~ persistent => /\ "SCHEDULED" \in flags'[t] => "SCHEDULED" \in flags[t]
                           /\ "RUNNING" \in flags'[t] => "RUNNING" \in flags[t]
    PROVE  KeptFor(t, persistent)'
BY DEF KeptFor

\* A new task that fails to find an owner is destroyed at once.
LEMMA NewTaskFails ==
    ASSUME MemInv, TypeOK', NEW t \in Tasks, mem[t] = "none",
           mem' = [mem EXCEPT ![t] = "live"],
           NEW fl \in FlagSets, \A u \in Tasks : u # t => fl[u] = flags[u],
           fl[t] \subseteq {"PERSISTENT"},
           pc \in {"out", "loop"},
           \A i \in 1 .. Len(stack) : stack[i].kind # "unwatch",
           TaskDestroy(t, fl, stack),
           UNCHANGED <<watchers, timers, pc, pos, due>>
    PROVE  StackInv' /\ TableInv'
<1>0. /\ TypeOK /\ mem \in [Tasks -> {"none", "live", "freed"}]
      /\ stack \in Seq(Frame) /\ cleanups \in [Tasks -> Nat] /\ flags' \in FlagSets
    BY DEF MemInv, QueueInv, TypeOK, FlagSets
<1>1. /\ \A i \in 1 .. Len(stack) : stack[i].task # t /\ stack[i].task \in Tasks
      /\ flags[t] = {} /\ cleanups[t] = 0 /\ ~ Owned(t)
    BY <1>0, FreshFacts, FrameTypes
<1>2. mem'[t] = "live" /\ \A u \in Tasks : u # t => mem'[u] = mem[u]
    BY <1>0
<1>3. /\ flags' = [fl EXCEPT ![t] = @ \cup {"FINALIZED"}]
      /\ cleanups' = IF "FINALIZED" \in fl[t] THEN cleanups
                     ELSE [cleanups EXCEPT ![t] = @ + 1]
    BY <1>0, DestroyCall
<1>4. /\ flags'[t] \subseteq {"PERSISTENT", "FINALIZED"} /\ "FINALIZED" \in flags'[t]
      /\ cleanups'[t] = 1
      /\ \A u \in Tasks : u # t => flags'[u] = flags[u] /\ cleanups'[u] = cleanups[u]
    BY <1>0, <1>1, <1>3 DEF FlagSets
<1>5. PICK frame \in Frame : /\ frame.kind = "destroy" /\ frame.task = t
                             /\ stack' = Append(stack, frame)
    BY <1>0, DestroyCall
<1>6. /\ Len(stack) \in Nat /\ Len(stack') = Len(stack) + 1
      /\ \A i \in 1 .. Len(stack) : i \in 1 .. Len(stack') /\ stack'[i] = stack[i]
      /\ stack'[Len(stack) + 1] = frame
      /\ Len(stack) + 1 \in 1 .. Len(stack')
      /\ \A i \in 1 .. Len(stack') : i \in 1 .. Len(stack) \/ i = Len(stack) + 1
    BY <1>0, <1>5, Pushed
<1>7. /\ \A u : Cancelling(u) => Cancelling(u)'
      /\ \A u : Destroying(u) => Destroying(u)'
      /\ Destroying(t)'
    BY <1>5, <1>6 DEF Cancelling, Destroying
<1>8. \A u : Owned(u)' <=> Owned(u)
    BY DEF Owned, LiveWatcher, LiveTimer
<1>9. PhaseShape'
    BY DEF MemInv, StackInv, PhaseShape, DestroyPhase
<1>10. FrameShape'
    BY <1>1, <1>4, <1>5, <1>6 DEF MemInv, StackInv, FrameShape
<1>11. RunningShape'
    BY <1>4, <1>6 DEF MemInv, StackInv, RunningShape
<1>12. DestroyIsolated'
    BY <1>1, <1>4, <1>5, <1>6, <1>8 DEF MemInv, StackInv, DestroyIsolated
<1>13. FramesLive'
    BY <1>1, <1>2, <1>5, <1>6 DEF MemInv, StackInv, FramesLive
<1>14. UniqueOwner' /\ DueInv'
    BY DEF MemInv, TableInv, UniqueOwner, DueInv
<1>15. OwnerInv'
    <2>1. \A u \in Tasks : u # t => (\A b \in BOOLEAN : KeptFor(u, b) => KeptFor(u, b)')
        BY <1>2, <1>4, <1>7 DEF KeptFor
    <2>2. /\ \A i \in 1 .. Len(watchers) : watchers[i].task \in Tasks \ {t}
          /\ \A timer \in timers : timer.task \in Tasks \ {t} /\ timer.repeating \in BOOLEAN
        BY <1>0, FreshFacts, ReferenceTypes DEF TypeOK, Timer
    <2> QED
        BY <2>1, <2>2 DEF MemInv, TableInv, OwnerInv, LiveWatcher, LiveTimer
<1>16. FlagInv'
    BY <1>2, <1>4, <1>7 DEF MemInv, TableInv, FlagInv
<1> QED
    BY <1>9, <1>10, <1>11, <1>12, <1>13, <1>14, <1>15, <1>16 DEF StackInv, TableInv

\* bb_runtime_schedule_ex keeps the invariant.
LEMMA ScheduleMem ==
    ASSUME MemInv, TypeOK', ~ ReentrantUnwatch, NEW t \in Tasks, Schedule(t)
    PROVE  StackInv' /\ TableInv'
<1> USE DEF runVars, tickVars, tableVars
<1>0. TypeOK /\ flags \in FlagSets /\ flags' \in FlagSets
    BY DEF MemInv, QueueInv, TypeOK, FlagSets
<1>1. /\ pc \in {"out", "loop"} /\ \A i \in 1 .. Len(stack) : stack[i].kind # "unwatch"
      /\ mem[t] = "none" /\ mem' = [mem EXCEPT ![t] = "live"]
      /\ UNCHANGED <<watchers, timers, pc, pos, due>>
    BY UserFacts DEF Schedule
<1>2. CASE Enqueue(t, TRUE) /\ UNCHANGED <<cleanups, stack>>
    <2>1. flags[t] = {} /\ ~ Owned(t)
        BY <1>1, FreshFacts
    <2>2. flags'[t] = {"SCHEDULED"} /\ \A u \in Tasks : u # t => flags'[u] = flags[u]
        BY <1>0, <1>2, <2>1 DEF Enqueue, FlagSets
    <2>3. \A u : Owned(u)' <=> Owned(u)
        BY <1>1 DEF Owned, LiveWatcher, LiveTimer
    <2>4. StackInv' /\ FlagInv'
        BY <1>0, <1>1, <1>2, <2>2, <2>3, NewTaskStack
    <2>5. UniqueOwner' /\ DueInv'
        BY <1>1 DEF MemInv, TableInv, UniqueOwner, DueInv
    <2>6. OwnerInv'
        <3>1. \A u : Cancelling(u)' <=> Cancelling(u)
            BY <1>2 DEF Cancelling
        <3>2. \A u \in Tasks : u # t => (\A b \in BOOLEAN : KeptFor(u, b) => KeptFor(u, b)')
            BY <1>0, <1>1, <2>2, <3>1 DEF KeptFor, TypeOK
        <3>3. /\ \A i \in 1 .. Len(watchers) : watchers[i].task \in Tasks \ {t}
              /\ \A timer \in timers : timer.task \in Tasks \ {t} /\ timer.repeating \in BOOLEAN
            BY <1>0, <1>1, FreshFacts, ReferenceTypes DEF TypeOK, Timer
        <3> QED
            BY <1>1, <3>2, <3>3 DEF MemInv, TableInv, OwnerInv, LiveWatcher, LiveTimer
    <2> QED
        BY <2>4, <2>5, <2>6 DEF TableInv
<1>3. CASE TaskDestroy(t, flags, stack)
    <2>1. flags[t] = {}
        BY <1>1, FreshFacts
    <2> QED
        BY <1>0, <1>1, <1>3, <2>1, NewTaskFails
<1> QED
    BY <1>2, <1>3 DEF Schedule

\* bb_runtime_set_interval_ex and bb_runtime_set_timeout_ex
LEMMA SetTimerMem ==
    ASSUME MemInv, TypeOK', ~ ReentrantUnwatch, NEW t \in Tasks, NEW repeating \in BOOLEAN,
           SetTimer(t, repeating)
    PROVE  StackInv' /\ TableInv'
<1> USE DEF runVars, tickVars, tableVars
<1> DEFINE fl == [flags EXCEPT ![t] = IF repeating THEN {"PERSISTENT"} ELSE {}]
           new == [task |-> t, repeating |-> repeating]
<1>0. TypeOK /\ flags \in FlagSets /\ flags' \in FlagSets
    BY DEF MemInv, QueueInv, TypeOK, FlagSets
<1>1. /\ pc \in {"out", "loop"} /\ \A i \in 1 .. Len(stack) : stack[i].kind # "unwatch"
      /\ mem[t] = "none" /\ mem' = [mem EXCEPT ![t] = "live"]
      /\ UNCHANGED <<watchers, pc, pos, due>>
    BY UserFacts DEF SetTimer
<1>2. /\ fl \in FlagSets /\ fl[t] = (IF repeating THEN {"PERSISTENT"} ELSE {})
      /\ \A u \in Tasks : u # t => fl[u] = flags[u]
    BY <1>0 DEF FlagSets, TaskFlag
<1>3. CASE timers' = timers \cup {new} /\ flags' = fl /\ UNCHANGED <<cleanups, stack>>
    <2>1. /\ \A i \in 1 .. Len(watchers) : watchers[i].task \in Tasks \ {t}
          /\ \A timer \in timers : timer.task \in Tasks \ {t} /\ timer.repeating \in BOOLEAN
        BY <1>0, <1>1, FreshFacts, ReferenceTypes DEF TypeOK, Timer
    <2>2. \A u : u # t => (Owned(u)' <=> Owned(u))
        BY <1>1, <1>3 DEF Owned, LiveWatcher, LiveTimer
    <2>3. StackInv' /\ FlagInv'
        <3>1. /\ flags'[t] \subseteq {"SCHEDULED", "PERSISTENT"}
              /\ \A u \in Tasks : u # t => flags'[u] = flags[u]
            BY <1>2, <1>3
        <3> HIDE DEF fl, new
        <3> QED
            BY <1>0, <1>1, <1>3, <2>2, <3>1, NewTaskStack
    <2>4. UniqueOwner' /\ DueInv'
        BY <1>1, <1>3, <2>1 DEF MemInv, TableInv, UniqueOwner, DueInv
    <2>5. OwnerInv'
        <3>1. \A u : Cancelling(u)' <=> Cancelling(u)
            BY <1>3 DEF Cancelling
        <3>2. \A u \in Tasks : u # t => (\A b \in BOOLEAN : KeptFor(u, b) => KeptFor(u, b)')
            BY <1>0, <1>1, <1>2, <1>3, <3>1 DEF KeptFor, TypeOK
        <3>3. KeptFor(new.task, new.repeating)'
            BY <1>0, <1>1, <1>2, <1>3 DEF KeptFor, TypeOK
        <3> HIDE DEF new
        <3> QED
            BY <1>1, <1>3, <2>1, <3>2, <3>3
            DEF MemInv, TableInv, OwnerInv, LiveWatcher, LiveTimer
    <2> QED
        BY <2>3, <2>4, <2>5 DEF TableInv
<1>4. CASE TaskDestroy(t, fl, stack) /\ UNCHANGED timers
    <2> HIDE DEF fl
    <2> QED
        BY <1>0, <1>1, <1>2, <1>4, NewTaskFails
<1> QED
    BY <1>3, <1>4 DEF SetTimer

\* A task whose cleanup is called because it is cancelled; its frame is pushed.
\* The watchers may change in the same step, as long as the owners of the other
\* tasks stay as they are.
LEMMA CancelStack ==
    ASSUME MemInv, TypeOK', NEW u \in Tasks, mem[u] = "live", ~ Destroying(u),
           NEW fl \in FlagSets, NEW ms \in SUBSET Tasks,
           \A v \in Tasks : v \in ms \/ (fl[v] = flags[v] /\ mem'[v] = mem[v]),
           \A v \in ms : /\ mem[v] = "none" /\ mem'[v] = "live" /\ v # u
                         /\ fl[v] \subseteq {"PERSISTENT"},
           TaskCancel("cancel", u, fl, None, 0, stack),
           \A v \in Tasks : v \notin ms => (Owned(v)' => Owned(v)),
           pc \in {"out", "loop"},
           \A i \in 1 .. Len(stack) : stack[i].kind # "unwatch",
           UNCHANGED pc
    PROVE  /\ StackInv' /\ FlagInv'
           /\ \A v \in Tasks : v \notin ms => (\A b \in BOOLEAN : KeptFor(v, b) => KeptFor(v, b)')
<1>0. TypeOK /\ stack \in Seq(Frame) /\ cleanups \in [Tasks -> Nat] /\ flags \in FlagSets
    BY DEF MemInv, QueueInv, TypeOK, FlagSets
<1>1. \A v \in ms : /\ flags[v] = {} /\ cleanups[v] = 0
                    /\ \A i \in 1 .. Len(stack) : stack[i].task # v
    BY FreshFacts
<1>3. /\ flags'[u] = ((fl[u] \cup {"CANCELLED"}) \ {"PERSISTENT"}) \cup {"FINALIZED"}
      /\ cleanups'[u] = IF "FINALIZED" \in fl[u] THEN cleanups[u] ELSE cleanups[u] + 1
      /\ \A v \in Tasks : v # u => flags'[v] = fl[v] /\ cleanups'[v] = cleanups[v]
      /\ Len(stack) \in Nat /\ Len(stack') = Len(stack) + 1
      /\ \A i \in 1 .. Len(stack) : i \in 1 .. Len(stack') /\ stack'[i] = stack[i]
      /\ stack'[Len(stack) + 1].kind = "cancel" /\ stack'[Len(stack) + 1].task = u
      /\ Len(stack) + 1 \in 1 .. Len(stack')
      /\ \A i \in 1 .. Len(stack') : i \in 1 .. Len(stack) \/ i = Len(stack) + 1
    BY <1>0, CancelPushed
<1>2. fl[u] = flags[u] /\ mem'[u] = "live"
    OBVIOUS
<1>4. /\ \A v : Cancelling(v) => Cancelling(v)'
      /\ \A v : Destroying(v)' <=> Destroying(v)
      /\ Cancelling(u)'
    BY <1>3 DEF Cancelling, Destroying
<1>5. \A i \in 1 .. Len(stack) :
          stack[i].task \in Tasks /\ stack[i].task \notin ms
    BY <1>0, <1>1, FrameTypes
<1>6. \A i \in 1 .. Len(stack) : stack[i].kind = "destroy" => stack[i].task # u
    BY DEF Destroying
<1>7. \A v \in Tasks : "RUNNING" \in flags'[v] <=> "RUNNING" \in flags[v]
    BY <1>3, <1>1, <1>2
<1>8. PhaseShape'
    BY DEF MemInv, StackInv, PhaseShape, DestroyPhase
<1>9. FrameShape' /\ RunningShape'
    BY <1>3, <1>2, <1>5, <1>7 DEF MemInv, StackInv, FrameShape, RunningShape
<1>10. DestroyIsolated'
    BY <1>3, <1>2, <1>5, <1>6 DEF MemInv, StackInv, DestroyIsolated
<1>11. FramesLive'
    BY <1>3, <1>2, <1>5 DEF MemInv, StackInv, FramesLive
<1>12. FlagInv'
    BY <1>3, <1>1, <1>2, <1>4 DEF MemInv, TableInv, FlagInv
<1>13. \A v \in Tasks : v \notin ms => (\A b \in BOOLEAN : KeptFor(v, b) => KeptFor(v, b)')
    BY <1>3, <1>2, <1>4 DEF KeptFor
<1> QED
    BY <1>8, <1>9, <1>10, <1>11, <1>12, <1>13 DEF StackInv

\* bb_runtime_cancel_task
LEMMA CancelTaskMem ==
    ASSUME MemInv, TypeOK', ~ ReentrantUnwatch, NEW t \in Tasks, CancelTask(t)
    PROVE  StackInv' /\ TableInv'
<1> USE DEF runVars, tickVars, tableVars
<1>0. TypeOK /\ flags \in FlagSets /\ stack \in Seq(Frame)
    BY DEF MemInv, QueueInv, TypeOK, FlagSets
<1>1. /\ pc \in {"out", "loop"} /\ \A i \in 1 .. Len(stack) : stack[i].kind # "unwatch"
      /\ mem[t] = "live" /\ ~ Destroying(t)
      /\ TaskCancel("cancel", t, flags, None, 0, stack)
      /\ UNCHANGED <<mem, watchers, timers, pc, pos, due>>
    BY UserFacts DEF CancelTask, Destroying
<1>4. \A u : Owned(u)' <=> Owned(u)
    BY <1>1 DEF Owned, LiveWatcher, LiveTimer
<1>5. /\ StackInv' /\ FlagInv'
      /\ \A v \in Tasks : \A b \in BOOLEAN : KeptFor(v, b) => KeptFor(v, b)'
    <2> DEFINE none == {}
    <2>1. /\ none \in SUBSET Tasks
          /\ \A v \in Tasks : v \in none \/ (flags[v] = flags[v] /\ mem'[v] = mem[v])
          /\ \A v \in none : /\ mem[v] = "none" /\ mem'[v] = "live" /\ v # t
                             /\ flags[v] \subseteq {"PERSISTENT"}
          /\ \A v \in Tasks : v \notin none
        BY <1>1
    <2> HIDE DEF none
    <2> QED
        BY <1>0, <1>1, <1>4, <2>1, CancelStack
<1>6. UniqueOwner' /\ DueInv'
    BY <1>1 DEF MemInv, TableInv, UniqueOwner, DueInv
<1>7. OwnerInv'
    <2>1. /\ \A i \in 1 .. Len(watchers) : watchers[i].task \in Tasks
          /\ \A timer \in timers : timer.task \in Tasks /\ timer.repeating \in BOOLEAN
        BY <1>0, ReferenceTypes DEF TypeOK, Timer
    <2> QED
        BY <1>1, <1>5, <2>1 DEF MemInv, TableInv, OwnerInv, LiveWatcher, LiveTimer
<1> QED
    BY <1>5, <1>6, <1>7 DEF TableInv

\* A fresh entry is appended to the table of watchers.
LEMMA WatchAppendMem ==
    ASSUME MemInv, TypeOK', NEW t \in Tasks, NEW fd \in Fds, NEW events \in Masks,
           NEW mode \in Mode, mem[t] = "none", mem' = [mem EXCEPT ![t] = "live"],
           pc \in {"out", "loop"},
           \A i \in 1 .. Len(stack) : stack[i].kind # "unwatch",
           WatchAppend(t, fd, events, mode), UNCHANGED <<timers, pc, pos, due>>
    PROVE  StackInv' /\ TableInv'
<1> DEFINE entry == [fd |-> fd, events |-> events, mode |-> mode, task |-> t]
           n == Len(watchers)
<1>0. TypeOK /\ flags \in FlagSets /\ flags' \in FlagSets /\ watchers \in Seq(Watcher)
    BY DEF MemInv, QueueInv, TypeOK, FlagSets
<1>1. entry \in Watcher /\ entry.task = t /\ entry.mode = mode
    BY RuntimeAssumption DEF Watcher
<1>2. watchers' = Append(watchers, entry) /\ UNCHANGED <<cleanups, stack>>
    BY DEF WatchAppend
<1>3. /\ flags'[t] = PersistentFlag(mode)
      /\ \A u \in Tasks : u # t => flags'[u] = flags[u]
    BY <1>0 DEF WatchAppend, FlagSets
<1> HIDE DEF entry
<1>4. /\ n \in Nat /\ Len(watchers') = n + 1 /\ watchers'[n + 1] = entry
      /\ \A i \in 1 .. n : i \in 1 .. Len(watchers') /\ watchers'[i] = watchers[i]
      /\ \A i \in 1 .. Len(watchers') : i \in 1 .. n \/ i = n + 1
    <2>1. /\ n \in Nat /\ Len(watchers') = n + 1 /\ watchers'[n + 1] = entry
          /\ \A i \in 1 .. n : watchers'[i] = watchers[i]
        BY <1>0, <1>1, <1>2, AppendProperties, LenProperties
    <2> HIDE DEF n
    <2> QED BY <2>1
<1> HIDE DEF n
<1>5. /\ \A i \in 1 .. n : watchers[i].task \in Tasks \ {t}
      /\ \A timer \in timers : timer.task \in Tasks \ {t} /\ timer.repeating \in BOOLEAN
    BY <1>0, FreshFacts, ReferenceTypes DEF TypeOK, Timer, n
<1>6. \A u : u # t => (Owned(u)' => Owned(u))
    BY <1>1, <1>4 DEF Owned, LiveWatcher, LiveTimer, n
<1>7. StackInv' /\ FlagInv'
    <2>1. flags'[t] \subseteq {"SCHEDULED", "PERSISTENT"}
        BY <1>3 DEF PersistentFlag
    <2> QED
        BY <1>0, <1>2, <1>3, <1>6, <2>1, NewTaskStack
<1>8. UniqueOwner' /\ DueInv'
    BY <1>1, <1>4, <1>5 DEF MemInv, TableInv, UniqueOwner, DueInv, n
<1>9. OwnerInv'
    <2>1. \A u : Cancelling(u)' <=> Cancelling(u)
        BY <1>2 DEF Cancelling
    <2>2. \A u \in Tasks : u # t => (\A b \in BOOLEAN : KeptFor(u, b) => KeptFor(u, b)')
        BY <1>0, <1>3, <2>1 DEF KeptFor, TypeOK
    <2>3. KeptFor(t, mode = "PERSISTENT")'
        BY <1>0, <1>3 DEF KeptFor, TypeOK, PersistentFlag
    <2>4. \A i \in 1 .. n : \A u, b :
              u = watchers[i].task /\ b = (watchers[i].mode = "PERSISTENT") => KeptFor(u, b)'
        BY <1>5, <2>2 DEF MemInv, TableInv, OwnerInv, LiveWatcher, n
    <2>5. \A i \in 1 .. Len(watchers') : \A u, b :
              u = watchers'[i].task /\ b = (watchers'[i].mode = "PERSISTENT") => KeptFor(u, b)'
        BY <1>1, <1>4, <2>3, <2>4
    <2>6. \A timer \in timers : \A u, b :
              u = timer.task /\ b = timer.repeating => KeptFor(u, b)'
        BY <1>5, <2>2 DEF MemInv, TableInv, OwnerInv, LiveTimer
    <2> QED
        BY <2>5, <2>6, OwnerNext
<1> QED
    BY <1>7, <1>8, <1>9 DEF TableInv

\* The exact-match branch of bb_runtime_watch_fd_ex.
LEMMA WatchReplaceMem ==
    ASSUME MemInv, TypeOK', NEW t \in Tasks, NEW fd \in Fds, NEW events \in Masks,
           NEW mode \in Mode, mem[t] = "none", mem' = [mem EXCEPT ![t] = "live"],
           pc \in {"out", "loop"},
           \A i \in 1 .. Len(stack) : stack[i].kind # "unwatch",
           WatchReplace(t, fd, events, mode), UNCHANGED <<timers, pc, pos, due>>
    PROVE  StackInv' /\ TableInv'
<1> DEFINE n == Len(watchers)
<1>0. TypeOK /\ flags \in FlagSets /\ watchers \in Seq(Watcher) /\ stack \in Seq(Frame)
    BY DEF MemInv, QueueInv, TypeOK, FlagSets
<1>1. PICK i \in 1 .. n :
          /\ watchers' = [watchers EXCEPT ![i] = [@ EXCEPT !.mode = mode, !.task = t]]
          /\ TaskCancel("cancel", watchers[i].task,
                        [flags EXCEPT ![t] = PersistentFlag(mode)], None, 0, stack)
    BY DEF WatchReplace, ExactAt
<1>2. /\ n \in Nat /\ Len(watchers') = n
      /\ watchers'[i].task = t /\ watchers'[i].mode = mode
      /\ \A k \in 1 .. n : k # i => watchers'[k] = watchers[k]
    <2>1. n \in Nat /\ watchers \in [1 .. n -> Watcher]
        BY <1>0, LenProperties, ElementOfSeq
    <2>2. Len(watchers') = n
        BY <1>0, <1>1, ExceptSeq, TypeOK' DEF TypeOK
    <2>3. watchers[i] \in Watcher
        BY <2>1
    <2> QED
        BY <1>1, <2>1, <2>2, <2>3 DEF Watcher
<1>3. /\ \A k \in 1 .. n : watchers[k].task \in Tasks \ {t}
      /\ \A timer \in timers : timer.task \in Tasks \ {t} /\ timer.repeating \in BOOLEAN
    BY <1>0, FreshFacts, ReferenceTypes DEF TypeOK, Timer
<1>4. PICK u \in Tasks : u = watchers[i].task /\ u # t
    BY <1>3
<1>5. mem[u] = "live" /\ ~ Destroying(u)
    <2>1. LiveWatcher(i) /\ Owned(u)
        BY <1>1, <1>4 DEF LiveWatcher, Owned, n
    <2> QED
        BY <1>4, <2>1 DEF MemInv, TableInv, OwnerInv, KeptFor, StackInv, DestroyIsolated, Destroying
<1>6. PICK fl \in FlagSets : /\ TaskCancel("cancel", u, fl, None, 0, stack)
                             /\ fl[t] = PersistentFlag(mode)
                             /\ \A v \in Tasks : v # t => fl[v] = flags[v]
    BY <1>0, <1>1, <1>4 DEF FlagSets, TaskFlag, PersistentFlag
<1> HIDE DEF n
<1>9. \A v \in Tasks : v \notin {t} => (Owned(v)' => Owned(v))
    BY <1>2 DEF Owned, LiveWatcher, LiveTimer, n
<1>10. mem'[t] = "live" /\ \A v \in Tasks : v # t => mem'[v] = mem[v]
    BY <1>0 DEF TypeOK
<1>11. /\ StackInv' /\ FlagInv'
       /\ \A v \in Tasks : v \notin {t} => (\A b \in BOOLEAN : KeptFor(v, b) => KeptFor(v, b)')
    <2> DEFINE ms == {t}
    <2>1. /\ ms \in SUBSET Tasks
          /\ \A v \in Tasks : v \in ms \/ (fl[v] = flags[v] /\ mem'[v] = mem[v])
          /\ \A v \in ms : /\ mem[v] = "none" /\ mem'[v] = "live" /\ v # u
                           /\ fl[v] \subseteq {"PERSISTENT"}
          /\ \A v \in Tasks : v \notin ms => (Owned(v)' => Owned(v))
        BY <1>4, <1>6, <1>9, <1>10 DEF PersistentFlag
    <2>2. UNCHANGED pc
        OBVIOUS
    <2> HIDE DEF ms
    <2>3. StackInv' /\ FlagInv'
        BY <1>5, <1>6, <2>1, <2>2, CancelStack
    <2>4. \A v \in Tasks : v \notin ms => (\A b \in BOOLEAN : KeptFor(v, b) => KeptFor(v, b)')
        BY <1>5, <1>6, <2>1, <2>2, CancelStack
    <2> QED
        BY <2>3, <2>4 DEF ms
<1>12. UniqueOwner' /\ DueInv'
    BY <1>2, <1>3 DEF MemInv, TableInv, UniqueOwner, DueInv, n
<1>13. OwnerInv'
    <2>1. KeptFor(t, mode = "PERSISTENT")'
        <3>1. flags'[t] = PersistentFlag(mode)
            BY <1>0, <1>4, <1>6, CancelPushed
        <3> QED
            BY <1>10, <3>1 DEF KeptFor, PersistentFlag
    <2>2. \A k \in 1 .. n : k # i => \A v, b :
              v = watchers[k].task /\ b = (watchers[k].mode = "PERSISTENT") => KeptFor(v, b)'
        BY <1>3, <1>11 DEF MemInv, TableInv, OwnerInv, LiveWatcher, n
    <2>3. \A k \in 1 .. Len(watchers') : \A v, b :
              v = watchers'[k].task /\ b = (watchers'[k].mode = "PERSISTENT") => KeptFor(v, b)'
        BY <1>2, <2>1, <2>2
    <2>4. \A timer \in timers : \A v, b :
              v = timer.task /\ b = timer.repeating => KeptFor(v, b)'
        BY <1>3, <1>11 DEF MemInv, TableInv, OwnerInv, LiveTimer
    <2> QED
        BY <2>3, <2>4, OwnerNext
<1> QED
    BY <1>11, <1>12, <1>13 DEF TableInv

\* bb_runtime_watch_fd_ex
LEMMA WatchFdMem ==
    ASSUME MemInv, TypeOK', ~ ReentrantUnwatch, NEW t \in Tasks, NEW fd \in Fds,
           NEW events \in Masks, NEW mode \in Mode, WatchFd(t, fd, events, mode)
    PROVE  StackInv' /\ TableInv'
<1> USE DEF runVars, tickVars, tableVars
<1>1. /\ pc \in {"out", "loop"} /\ \A i \in 1 .. Len(stack) : stack[i].kind # "unwatch"
      /\ mem[t] = "none" /\ mem' = [mem EXCEPT ![t] = "live"]
      /\ UNCHANGED <<timers, pc, pos, due>>
    BY UserFacts DEF WatchFd
<1>2. CASE WatchReplace(t, fd, events, mode)
    BY <1>1, <1>2, WatchReplaceMem
<1>3. CASE WatchAppend(t, fd, events, mode)
    BY <1>1, <1>3, WatchAppendMem
<1>4. CASE WatchFail(t, fd, events)
    <2>1. TaskDestroy(t, flags, stack) /\ UNCHANGED watchers
        BY <1>4 DEF WatchFail
    <2>2. flags \in FlagSets /\ flags[t] = {}
        BY <1>1, FreshFacts DEF MemInv, QueueInv, TypeOK, FlagSets
    <2> QED
        BY <1>1, <2>1, <2>2, NewTaskFails
<1> QED
    BY <1>2, <1>3, <1>4 DEF WatchFd

\* bb_runtime_unwatch_fd, up to the loop.
LEMMA UnwatchFdMem ==
    ASSUME MemInv, TypeOK', ~ ReentrantUnwatch, NEW fd \in Fds, UnwatchFd(fd)
    PROVE  StackInv' /\ TableInv'
<1> USE DEF runVars, tickVars, tableVars
<1> DEFINE frame == [kind |-> "unwatch", task |-> None, cb |-> FALSE, fd |-> fd, at |-> 1]
<1>0. TypeOK /\ stack \in Seq(Frame)
    BY DEF MemInv, QueueInv, TypeOK
<1>1. /\ pc \in {"out", "loop"} /\ \A i \in 1 .. Len(stack) : stack[i].kind # "unwatch"
      /\ stack' = Append(stack, frame)
      /\ UNCHANGED <<mem, flags, cleanups, queue, watchers, timers, pc, pos, due>>
    BY UserFacts DEF UnwatchFd
<1>2. frame \in Frame /\ frame.kind = "unwatch" /\ frame.task = None
    BY DEF Frame
<1> HIDE DEF frame
<1>3. /\ Len(stack) \in Nat /\ Len(stack') = Len(stack) + 1
      /\ \A i \in 1 .. Len(stack) : i \in 1 .. Len(stack') /\ stack'[i] = stack[i]
      /\ stack'[Len(stack) + 1] = frame
      /\ Len(stack) + 1 \in 1 .. Len(stack')
      /\ \A i \in 1 .. Len(stack') : i \in 1 .. Len(stack) \/ i = Len(stack) + 1
    BY <1>0, <1>1, <1>2, Pushed
<1>4. \A i \in 1 .. Len(stack) : stack[i].task \in Tasks
    BY <1>0, <1>1, FrameTypes
<1>5. /\ \A u \in Tasks : Cancelling(u)' <=> Cancelling(u)
      /\ \A u : Destroying(u)' <=> Destroying(u)
      /\ \A u : Owned(u)' <=> Owned(u)
    BY <1>1, <1>2, <1>3, RuntimeAssumption
    DEF Cancelling, Destroying, Owned, LiveWatcher, LiveTimer
<1>6. PhaseShape' /\ FrameShape' /\ RunningShape' /\ FramesLive'
    BY <1>1, <1>2, <1>3, <1>4
    DEF MemInv, StackInv, PhaseShape, DestroyPhase, FrameShape, RunningShape, FramesLive
<1>7. DestroyIsolated'
    BY <1>1, <1>2, <1>3, <1>4, <1>5, RuntimeAssumption DEF MemInv, StackInv, DestroyIsolated
<1>8. UniqueOwner' /\ DueInv' /\ FlagInv'
    BY <1>1, <1>5 DEF MemInv, TableInv, UniqueOwner, DueInv, FlagInv
<1>9. OwnerInv'
    <2>1. \A u \in Tasks : (\A b \in BOOLEAN : KeptFor(u, b) => KeptFor(u, b)')
        BY <1>1, <1>5 DEF KeptFor
    <2>2. /\ \A i \in 1 .. Len(watchers) : watchers[i].task \in Tasks
          /\ \A timer \in timers : timer.task \in Tasks /\ timer.repeating \in BOOLEAN
        BY <1>0, ReferenceTypes DEF TypeOK, Timer
    <2> QED
        BY <1>1, <2>1, <2>2 DEF MemInv, TableInv, OwnerInv, LiveWatcher, LiveTimer
<1> QED
    BY <1>6, <1>7, <1>8, <1>9 DEF StackInv, TableInv

\* A step that changes neither the tasks nor what refers to them.
LEMMA StutterMem ==
    ASSUME MemInv, UNCHANGED <<mem, flags, cleanups, watchers, timers, pc, pos, due, stack>>
    PROVE  StackInv' /\ TableInv'
<1>1. StackInv'
    BY DEF MemInv, StackInv, PhaseShape, FrameShape, RunningShape, DestroyIsolated,
           FramesLive, Owned, LiveWatcher, LiveTimer
<1>2. TableInv'
    BY DEF MemInv, TableInv, UniqueOwner, OwnerInv, DueInv, FlagInv, KeptFor, Cancelling,
           Destroying, LiveWatcher, LiveTimer
<1> QED
    BY <1>1, <1>2

\* What user code may call keeps the invariant.
LEMMA UserOperationMem ==
    ASSUME MemInv, TypeOK', ~ ReentrantUnwatch, UserOperation
    PROVE  StackInv' /\ TableInv'
<1>1. CASE \E on \in BOOLEAN : SetRunning(on)
    BY <1>1, StutterMem DEF SetRunning, tableVars, tickVars
<1>2. CASE Run
    BY <1>2, StutterMem DEF Run, tableVars, tickVars
<1> QED
    BY <1>1, <1>2, ScheduleMem, SetTimerMem, WatchFdMem, CancelTaskMem, UnwatchFdMem
    DEF UserOperation

-----------------------------------------------------------------------------
(* The returns of callbacks *)

\* The innermost call ends.
LEMMA Popped ==
    ASSUME TypeOK, stack # <<>>, stack' = Caller
    PROVE  /\ Len(stack) \in Nat \ {0} /\ Len(stack') = Len(stack) - 1
           /\ Len(stack) \in 1 .. Len(stack) /\ Top = stack[Len(stack)]
           /\ \A i \in 1 .. Len(stack') : i \in 1 .. Len(stack) /\ stack'[i] = stack[i]
           /\ \A i \in 1 .. Len(stack) : i \in 1 .. Len(stack') \/ i = Len(stack)
<1>1. /\ Len(stack) \in Nat \ {0} /\ Len(stack') = Len(stack) - 1
      /\ \A i \in 1 .. (Len(stack) - 1) : stack'[i] = stack[i]
    BY StackFacts
<1> QED
    BY <1>1 DEF Top

\* The innermost call goes on with another frame.
LEMMA Replaced ==
    ASSUME TypeOK, stack # <<>>, NEW frame \in Frame, stack' = Append(Caller, frame)
    PROVE  /\ Len(stack) \in Nat \ {0} /\ Len(stack') = Len(stack)
           /\ Len(stack) \in 1 .. Len(stack) /\ Top = stack[Len(stack)]
           /\ stack'[Len(stack)] = frame
           /\ \A i \in 1 .. Len(stack) : i # Len(stack) => stack'[i] = stack[i]
<1>1. /\ Len(stack) \in Nat \ {0} /\ Len(Caller) = Len(stack) - 1 /\ Caller \in Seq(Frame)
      /\ \A i \in 1 .. (Len(stack) - 1) : Caller[i] = stack[i]
    BY StackFacts
<1>2. /\ Len(stack') = Len(Caller) + 1 /\ stack'[Len(Caller) + 1] = frame
      /\ \A i \in 1 .. Len(Caller) : stack'[i] = Caller[i]
    BY <1>1, Pushed
<1> QED
    BY <1>1, <1>2 DEF Top

\* bb_scheduler_schedule and the bits of the tasks.
LEMMA EnqueueFlags ==
    ASSUME TypeOK, NEW x \in Tasks, NEW ok \in BOOLEAN, Enqueue(x, ok)
    PROVE  /\ flags'[x] = flags[x] \/ flags'[x] = flags[x] \cup {"SCHEDULED"}
           /\ \A u \in Tasks : u # x => flags'[u] = flags[u]
BY DEF Enqueue, TypeOK

\* The removal of one entry from the table of watchers.
LEMMA RemoveEntry ==
    ASSUME TypeOK, NEW i \in 1 .. Len(watchers), watchers' = SwapRemove(watchers, i)
    PROVE  /\ \A k \in 1 .. Len(watchers') :
                 \E j \in 1 .. Len(watchers) : j # i /\ watchers'[k] = watchers[j]
           /\ \A j \in 1 .. Len(watchers) :
                 j # i => \E k \in 1 .. Len(watchers') : watchers'[k] = watchers[j]
           /\ UniqueOwner /\ timers' \subseteq timers => UniqueOwner'
<1> DEFINE n == Len(watchers)
           old(k) == IF k = i THEN n ELSE k
<1>1. watchers # <<>> /\ n \in Nat \ {0} /\ i \in Nat
    BY EmptySeq, LenProperties DEF TypeOK
<1>2. Len(watchers') = n - 1 /\ \A k \in 1 .. (n - 1) :
          watchers'[k] = IF k = i THEN watchers[n] ELSE watchers[k]
    BY <1>1, SwapRemoveProperties DEF TypeOK
<1>3. \A k \in 1 .. Len(watchers') :
          old(k) \in 1 .. n /\ old(k) # i /\ watchers'[k] = watchers[old(k)]
    BY <1>1, <1>2
<1>4. \A k, l \in 1 .. Len(watchers') : old(k) = old(l) => k = l
    BY <1>1, <1>2
<1>5. ASSUME NEW j \in 1 .. n, j # i
      PROVE  \E k \in 1 .. Len(watchers') : watchers'[k] = watchers[j]
    <2>1. CASE j = n
        <3>1. i \in 1 .. Len(watchers') /\ watchers'[i] = watchers[j]
            BY <1>1, <1>2, <1>5, <2>1
        <3> QED BY <3>1
    <2>2. CASE j # n
        <3>1. j \in 1 .. Len(watchers') /\ watchers'[j] = watchers[j]
            BY <1>1, <1>2, <1>5, <2>2
        <3> QED BY <3>1
    <2> QED BY <2>1, <2>2
<1> HIDE DEF old
<1>6. UniqueOwner /\ timers' \subseteq timers => UniqueOwner'
    BY <1>3, <1>4 DEF UniqueOwner, n
<1> QED
    BY <1>3, <1>5, <1>6 DEF n

\* A step that adds no owner: the owners that are left were there before.
LEMMA OwnersStay ==
    ASSUME TypeOK, OwnerInv,
           \A k \in 1 .. Len(watchers') : LiveWatcher(k)' =>
               \E j \in 1 .. Len(watchers) : LiveWatcher(j) /\ watchers'[k] = watchers[j],
           \A timer \in timers' : LiveTimer(timer)' => LiveTimer(timer)
    PROVE  /\ \A v : Owned(v)' => Owned(v)
           /\ (\A v \in Tasks : Owned(v)' =>
                  \A b \in BOOLEAN : KeptFor(v, b) => KeptFor(v, b)') => OwnerInv'
<1>1. \A v : Owned(v)' => Owned(v)
    BY DEF Owned, LiveTimer
<1>2. ASSUME \A v \in Tasks : Owned(v)' =>
                 \A b \in BOOLEAN : KeptFor(v, b) => KeptFor(v, b)'
      PROVE  OwnerInv'
    <2>1. ASSUME NEW k \in 1 .. Len(watchers'), LiveWatcher(k)', NEW u, NEW b,
                 u = watchers'[k].task, b = (watchers'[k].mode = "PERSISTENT")
          PROVE  KeptFor(u, b)'
        <3>1. PICK j \in 1 .. Len(watchers) : LiveWatcher(j) /\ watchers'[k] = watchers[j]
            BY <2>1
        <3>2. KeptFor(u, b) /\ u \in Tasks /\ b \in BOOLEAN
            BY <2>1, <3>1, ReferenceTypes DEF OwnerInv
        <3>3. Owned(u)'
            BY <2>1 DEF Owned
        <3> QED
            BY <1>2, <3>2, <3>3
    <2>2. ASSUME NEW timer \in timers', LiveTimer(timer)', NEW u, NEW b,
                 u = timer.task, b = timer.repeating
          PROVE  KeptFor(u, b)'
        <3>1. KeptFor(u, b) /\ u \in Tasks /\ b \in BOOLEAN
            BY <2>2 DEF OwnerInv, LiveTimer, TypeOK, Timer
        <3>2. Owned(u)'
            BY <2>2 DEF Owned
        <3> QED
            BY <1>2, <3>1, <3>2
    <2> QED
        BY <2>1, <2>2, OwnerNext
<1> QED
    BY <1>1, <1>2

\* bb_task_destroy after the callback
LEMMA ReturnDestroyMem ==
    ASSUME MemInv, TypeOK', ReturnDestroy
    PROVE  StackInv' /\ TableInv'
<1> USE DEF runVars, tickVars, tableVars
<1> DEFINE n == Len(stack)
<1>0. TypeOK /\ OwnerInv /\ mem \in [Tasks -> {"none", "live", "freed"}]
    BY DEF MemInv, QueueInv, TableInv, TypeOK
<1>1. /\ stack # <<>> /\ Top.kind = "destroy" /\ stack' = Caller
      /\ mem' = [mem EXCEPT ![Top.task] = "freed"]
      /\ UNCHANGED <<flags, cleanups, queue, watchers, timers, pc, pos, due>>
    BY DEF ReturnDestroy
<1>2. /\ n \in Nat \ {0} /\ Len(stack') = n - 1 /\ n \in 1 .. n /\ Top = stack[n]
      /\ \A i \in 1 .. Len(stack') : i \in 1 .. n /\ stack'[i] = stack[i]
      /\ \A i \in 1 .. n : i \in 1 .. Len(stack') \/ i = n
    BY <1>0, <1>1, Popped
<1>3. PICK x \in Tasks : x = Top.task
    BY <1>0, <1>1, <1>2, FrameTypes
<1>4. /\ "SCHEDULED" \notin flags[x] /\ ~ Owned(x)
      /\ \A k \in 1 .. n : k # n => stack[k].task # x
    BY <1>1, <1>2, <1>3 DEF MemInv, StackInv, DestroyIsolated
<1>5. mem'[x] = "freed" /\ \A u \in Tasks : u # x => mem'[u] = mem[u]
    BY <1>0, <1>1, <1>3
<1> HIDE DEF n
<1>6. /\ \A u : Cancelling(u)' <=> Cancelling(u)
      /\ \A u : u # x => (Destroying(u)' <=> Destroying(u))
    BY <1>1, <1>2, <1>3 DEF Cancelling, Destroying, n
<1>7. \A i \in 1 .. Len(stack') : stack[i].task \in Tasks \cup {None} /\ stack[i].task # x
    BY <1>0, <1>2, <1>4, FrameTypes DEF n
<1>8. \A u : Owned(u)' <=> Owned(u)
    BY <1>1 DEF Owned, LiveWatcher, LiveTimer
<1>9. PhaseShape' /\ FrameShape'
    <2>1. \A i \in 1 .. Len(stack') : stack'[i].kind # "unwatch"
        BY <1>2 DEF MemInv, StackInv, FrameShape, n
    <2>2. FrameShape'
        BY <1>1, <1>2, <2>1 DEF MemInv, StackInv, FrameShape, n
    <2>3. PhaseShape'
        BY <1>1, <1>2 DEF MemInv, StackInv, PhaseShape, DestroyPhase, n
    <2> QED
        BY <2>2, <2>3
<1>10. RunningShape'
    BY <1>1, <1>2 DEF MemInv, StackInv, RunningShape, n
<1>11. DestroyIsolated'
    BY <1>0, <1>1, <1>2, <1>8, IsolatedStays DEF MemInv, StackInv, n
<1>12. FramesLive'
    BY <1>2, <1>5, <1>7 DEF MemInv, StackInv, FramesLive, n
<1>13. OwnerInv'
    <2>1. \A v \in Tasks : Owned(v)' => \A b \in BOOLEAN : KeptFor(v, b) => KeptFor(v, b)'
        BY <1>1, <1>4, <1>5, <1>6, <1>8 DEF KeptFor
    <2>2. /\ \A k \in 1 .. Len(watchers') : LiveWatcher(k)' =>
                \E j \in 1 .. Len(watchers) : LiveWatcher(j) /\ watchers'[k] = watchers[j]
          /\ \A timer \in timers' : LiveTimer(timer)' => LiveTimer(timer)
        BY <1>1 DEF LiveWatcher, LiveTimer
    <2> QED
        BY <1>0, <2>1, <2>2, OwnersStay
<1>14. UniqueOwner' /\ DueInv' /\ FlagInv'
    BY <1>1, <1>4, <1>5, <1>6 DEF MemInv, TableInv, UniqueOwner, DueInv, FlagInv
<1> QED
    BY <1>9, <1>10, <1>11, <1>12, <1>13, <1>14 DEF StackInv, TableInv

\* bb_runtime_cancel_task after the callback
LEMMA ReturnCancelMem ==
    ASSUME MemInv, TypeOK', ReturnCancel
    PROVE  StackInv' /\ TableInv'
<1> USE DEF runVars, tickVars, tableVars
<1> DEFINE n == Len(stack)
<1>0. TypeOK /\ OwnerInv /\ UniqueOwner
    BY DEF MemInv, QueueInv, TableInv
<1>1. /\ stack # <<>> /\ Top.kind = "cancel" /\ stack' = Caller
      /\ RemoveWatchersOf(Top.task)
      /\ timers' = {timer \in timers : timer.task # Top.task}
      /\ \E ok \in BOOLEAN : Enqueue(Top.task, ok)
      /\ UNCHANGED <<mem, cleanups, pc, pos, due>>
    BY DEF ReturnCancel, AllocResult
<1>2. /\ n \in Nat \ {0} /\ Len(stack') = n - 1 /\ n \in 1 .. n /\ Top = stack[n]
      /\ \A i \in 1 .. Len(stack') : i \in 1 .. n /\ stack'[i] = stack[i]
      /\ \A i \in 1 .. n : i \in 1 .. Len(stack') \/ i = n
    BY <1>0, <1>1, Popped
<1>3. PICK x \in Tasks : x = Top.task
    BY <1>0, <1>1, <1>2, FrameTypes
<1>4. /\ flags'[x] = flags[x] \/ flags'[x] = flags[x] \cup {"SCHEDULED"}
      /\ \A u \in Tasks : u # x => flags'[u] = flags[u]
    BY <1>0, <1>1, <1>3, EnqueueFlags
<1> HIDE DEF n
<1>5. pc \in {"out", "loop"} /\ pc \notin DestroyPhase
    BY <1>0, <1>1, <1>2 DEF MemInv, StackInv, PhaseShape, DestroyPhase, TypeOK, Phase, n
<1>6. mem[x] = "live" /\ ~ Destroying(x)
    BY <1>1, <1>2, <1>3, RuntimeAssumption
    DEF MemInv, StackInv, FramesLive, DestroyIsolated, Destroying, n
<1>7. /\ \A k \in 1 .. Len(watchers') : /\ watchers'[k].task # x
                                        /\ \E j \in 1 .. Len(watchers) :
                                               watchers'[k] = watchers[j]
      /\ UniqueOwner'
    <2>1. CASE /\ \A i \in 1 .. Len(watchers) : watchers[i].task # x
               /\ watchers' = watchers
        BY <1>0, <1>1, <2>1 DEF UniqueOwner
    <2>2. ASSUME NEW i \in 1 .. Len(watchers), watchers[i].task = x,
                 watchers' = SwapRemove(watchers, i)
          PROVE  /\ \A k \in 1 .. Len(watchers') : /\ watchers'[k].task # x
                                                   /\ \E j \in 1 .. Len(watchers) :
                                                          watchers'[k] = watchers[j]
                 /\ UniqueOwner'
        <3>1. timers' \subseteq timers
            BY <1>1
        <3>2. \A k \in 1 .. Len(watchers') :
                 \E j \in 1 .. Len(watchers) : j # i /\ watchers'[k] = watchers[j]
            BY <1>0, <2>2, RemoveEntry
        <3>3. UniqueOwner'
            BY <1>0, <2>2, <3>1, RemoveEntry
        <3> QED
            BY <1>0, <2>2, <3>2, <3>3 DEF UniqueOwner
    <2> QED
        BY <1>1, <1>3, <2>1, <2>2 DEF RemoveWatchersOf
<1>8. /\ \A k \in 1 .. Len(watchers') : LiveWatcher(k)' =>
            \E j \in 1 .. Len(watchers) : LiveWatcher(j) /\ watchers'[k] = watchers[j]
      /\ \A timer \in timers' : LiveTimer(timer)' => LiveTimer(timer)
    BY <1>1, <1>5, <1>7 DEF LiveWatcher, LiveTimer
<1>9. ~ Owned(x)'
    BY <1>1, <1>3, <1>7 DEF Owned
<1>10. \A u : Owned(u)' => Owned(u)
    BY <1>0, <1>8, OwnersStay
<1>11. /\ \A u : u # x => (Cancelling(u)' <=> Cancelling(u))
       /\ \A u : Destroying(u)' <=> Destroying(u)
    BY <1>1, <1>2, <1>3 DEF Cancelling, Destroying, n
<1>12. PhaseShape'
    BY <1>1, <1>2, <1>5 DEF MemInv, StackInv, PhaseShape, DestroyPhase, n
<1>13. FrameShape' /\ RunningShape' /\ FramesLive'
    <2>1. \A u \in Tasks : "RUNNING" \in flags'[u] <=> "RUNNING" \in flags[u]
        BY <1>4
    <2>2. \A i \in 1 .. Len(stack') : stack[i].kind # "unwatch" /\ stack[i].task \in Tasks
        BY <1>0, <1>2, FrameTypes DEF MemInv, StackInv, FrameShape, n
    <2> QED
        BY <1>1, <1>2, <2>1, <2>2 DEF MemInv, StackInv, FrameShape, RunningShape, FramesLive, n
<1>14. DestroyIsolated'
    <2>1. \A v \in Tasks : Destroying(v) => flags'[v] = flags[v]
        BY <1>4, <1>6
    <2> QED
        BY <1>0, <1>2, <1>10, <2>1, IsolatedStays DEF MemInv, StackInv, n
<1>15. OwnerInv'
    <2>1. \A v \in Tasks : Owned(v)' => \A b \in BOOLEAN : KeptFor(v, b) => KeptFor(v, b)'
        BY <1>1, <1>4, <1>9, <1>11 DEF KeptFor
    <2> QED
        BY <1>0, <1>8, <2>1, OwnersStay
<1>16. DueInv' /\ FlagInv'
    <2>1. DueInv'
        BY <1>1, <1>5 DEF DueInv
    <2> QED
        BY <1>1, <1>4, <1>6, <1>11, <2>1 DEF MemInv, TableInv, FlagInv
<1> QED
    BY <1>7, <1>12, <1>13, <1>14, <1>15, <1>16 DEF StackInv, TableInv

\* bb_task_cancel, called by the loop of bb_runtime_unwatch_fd.
LEMMA UnwatchCalls ==
    ASSUME TypeOK, stack # <<>>, NEW u \in Tasks, NEW fd \in Fds \cup {None},
           NEW at \in Nat, at >= 1, TaskCancel("unwatch", u, flags, fd, at, Caller)
    PROVE  /\ flags'[u] = ((flags[u] \cup {"CANCELLED"}) \ {"PERSISTENT"}) \cup {"FINALIZED"}
           /\ cleanups'[u] = IF "FINALIZED" \in flags[u] THEN cleanups[u] ELSE cleanups[u] + 1
           /\ \A v \in Tasks : v # u => flags'[v] = flags[v] /\ cleanups'[v] = cleanups[v]
           /\ \E frame \in Frame :
                 /\ frame.kind = "unwatch" /\ frame.task = u /\ frame.fd = fd /\ frame.at = at
                 /\ stack' = Append(Caller, frame)
<1>0. Caller \in Seq(Frame) /\ cleanups \in [Tasks -> Nat] /\ flags \in FlagSets
    BY StackFacts DEF TypeOK, FlagSets
<1>1. flags' = [flags EXCEPT ![u] = ((@ \cup {"CANCELLED"}) \ {"PERSISTENT"})
                                        \cup {"FINALIZED"}]
    BY <1>0, CancelCall
<1>2. cleanups' = IF "FINALIZED" \in flags[u] THEN cleanups
                  ELSE [cleanups EXCEPT ![u] = @ + 1]
    BY <1>0, CancelCall
<1>3. \E frame \in Frame :
          /\ frame.kind = "unwatch" /\ frame.task = u /\ frame.fd = fd /\ frame.at = at
          /\ stack' = Append(Caller, frame)
    BY <1>0, CancelCall
<1> QED
    BY <1>0, <1>1, <1>2, <1>3 DEF FlagSets

\* A call in progress: where control may be.
LEMMA CallPhase ==
    ASSUME MemInv, stack # <<>>, Top.kind # "destroy"
    PROVE  pc \in {"out", "loop"} /\ pc \notin DestroyPhase
<1>0. TypeOK
    BY DEF MemInv, QueueInv
<1> QED
    BY <1>0, StackFacts DEF MemInv, StackInv, PhaseShape, DestroyPhase, TypeOK, Phase

\* The loop of bb_runtime_unwatch_fd, up to the cleanup of the next task.
LEMMA UnwatchScanMem ==
    ASSUME MemInv, TypeOK', UnwatchScan
    PROVE  StackInv' /\ TableInv'
<1> USE DEF runVars, tickVars, tableVars
<1> DEFINE n == Len(stack)
<1>0. /\ TypeOK /\ OwnerInv /\ UniqueOwner /\ FlagInv /\ DestroyIsolated /\ FrameShape
      /\ RunningShape /\ FramesLive
    BY DEF MemInv, QueueInv, TableInv, StackInv
<1>1. /\ stack # <<>> /\ Top.kind = "unwatch" /\ Top.task = None
      /\ UNCHANGED <<mem, queue, watchers, timers, pc, pos, due>>
    BY DEF UnwatchScan
<1>2. pc \in {"out", "loop"} /\ pc \notin DestroyPhase
    BY <1>1, CallPhase
<1>3. CASE stack' = Caller /\ UNCHANGED <<flags, cleanups>>
    <2>1. /\ n \in Nat \ {0} /\ Len(stack') = n - 1 /\ n \in 1 .. n /\ Top = stack[n]
          /\ \A i \in 1 .. Len(stack') : i \in 1 .. n /\ stack'[i] = stack[i]
          /\ \A i \in 1 .. n : i \in 1 .. Len(stack') \/ i = n
        BY <1>0, <1>1, <1>3, Popped
    <2> HIDE DEF n
    <2>2. /\ \A u \in Tasks : Cancelling(u)' <=> Cancelling(u)
          /\ \A u \in Tasks : Destroying(u)' <=> Destroying(u)
        BY <1>1, <2>1, RuntimeAssumption DEF Cancelling, Destroying, n
    <2>3. /\ \A k \in 1 .. Len(watchers') : LiveWatcher(k)' =>
                \E j \in 1 .. Len(watchers) : LiveWatcher(j) /\ watchers'[k] = watchers[j]
          /\ \A timer \in timers' : LiveTimer(timer)' => LiveTimer(timer)
        BY <1>1 DEF LiveWatcher, LiveTimer
    <2>4. \A u : Owned(u)' => Owned(u)
        BY <1>0, <2>3, OwnersStay
    <2>5. PhaseShape' /\ FrameShape' /\ RunningShape' /\ FramesLive'
        <3>1. \A i \in 1 .. Len(stack') : stack[i].kind # "unwatch"
            BY <1>0, <2>1 DEF FrameShape, n
        <3>2. PhaseShape' /\ FrameShape'
            BY <1>0, <1>1, <1>2, <1>3, <2>1, <3>1
            DEF PhaseShape, FrameShape, DestroyPhase, n
        <3>3. RunningShape' /\ FramesLive'
            BY <1>0, <1>1, <1>3, <2>1 DEF RunningShape, FramesLive, n
        <3> QED
            BY <3>2, <3>3
    <2>6. DestroyIsolated'
        BY <1>0, <1>3, <2>1, <2>4, IsolatedStays DEF n
    <2>7. OwnerInv'
        <3>1. \A v \in Tasks : Owned(v)' => \A b \in BOOLEAN : KeptFor(v, b) => KeptFor(v, b)'
            BY <1>1, <1>3, <2>2 DEF KeptFor
        <3> QED
            BY <1>0, <2>3, <3>1, OwnersStay
    <2>8. UniqueOwner' /\ DueInv' /\ FlagInv'
        BY <1>0, <1>1, <1>2, <1>3, <2>2 DEF UniqueOwner, DueInv, FlagInv
    <2> QED
        BY <2>5, <2>6, <2>7, <2>8 DEF StackInv, TableInv
<1>4. ASSUME NEW w \in Top.at .. Len(watchers), watchers[w].fd = Top.fd,
             TaskCancel("unwatch", watchers[w].task, flags, Top.fd, w, Caller)
      PROVE  StackInv' /\ TableInv'
    <2>0. Top \in Frame
        BY <1>0, <1>1, StackFacts
    <2>1. /\ w \in 1 .. Len(watchers) /\ w \in Nat /\ w >= 1
          /\ Top.fd \in Fds \cup {None} /\ Len(watchers) \in Nat
        <3>1. Len(watchers) \in Nat
            BY <1>0, LenProperties DEF TypeOK
        <3> QED
            BY <1>1, <1>4, <2>0, <3>1 DEF Frame
    <2>2. PICK u \in Tasks : u = watchers[w].task
        BY <1>0, <2>1, ReferenceTypes
    <2>3. LiveWatcher(w) /\ Owned(u) /\ mem[u] = "live" /\ ~ Destroying(u)
        <3>1. LiveWatcher(w) /\ Owned(u)
            BY <1>2, <2>1, <2>2 DEF LiveWatcher, Owned, DestroyPhase
        <3> QED
            BY <1>0, <2>1, <2>2, <3>1 DEF OwnerInv, KeptFor, DestroyIsolated, Destroying
    <2>a. PICK fd \in Fds \cup {None} : fd = Top.fd
        BY <2>1
    <2>c. TaskCancel("unwatch", u, flags, fd, w, Caller)
        BY <1>4, <2>2, <2>a
    <2>4. flags'[u] = ((flags[u] \cup {"CANCELLED"}) \ {"PERSISTENT"}) \cup {"FINALIZED"}
        BY <1>0, <1>1, <2>1, <2>c, UnwatchCalls
    <2>5. /\ cleanups'[u] = IF "FINALIZED" \in flags[u] THEN cleanups[u] ELSE cleanups[u] + 1
          /\ \A v \in Tasks : v # u => flags'[v] = flags[v] /\ cleanups'[v] = cleanups[v]
        BY <1>0, <1>1, <2>1, <2>c, UnwatchCalls
    <2>6. \E frame \in Frame :
              /\ frame.kind = "unwatch" /\ frame.task = u /\ frame.fd = fd /\ frame.at = w
              /\ stack' = Append(Caller, frame)
        BY <1>0, <1>1, <2>1, <2>c, UnwatchCalls
    <2>7. PICK frame \in Frame :
              /\ frame.kind = "unwatch" /\ frame.task = u /\ frame.at = w
              /\ stack' = Append(Caller, frame)
        BY <2>6
    <2>8. /\ n \in Nat \ {0} /\ Len(stack') = n /\ n \in 1 .. n /\ Top = stack[n]
          /\ stack'[n] = frame
          /\ \A i \in 1 .. n : i # n => stack'[i] = stack[i]
        BY <1>0, <1>1, <2>7, Replaced
    <2> HIDE DEF n
    <2>9. /\ \A v \in Tasks : Cancelling(v) => Cancelling(v)'
          /\ Cancelling(u)'
          /\ \A v \in Tasks : Destroying(v)' <=> Destroying(v)
        BY <1>1, <2>7, <2>8, RuntimeAssumption DEF Cancelling, Destroying, n
    <2>10. /\ \A k \in 1 .. Len(watchers') : LiveWatcher(k)' =>
                 \E j \in 1 .. Len(watchers) : LiveWatcher(j) /\ watchers'[k] = watchers[j]
           /\ \A timer \in timers' : LiveTimer(timer)' => LiveTimer(timer)
        BY <1>1 DEF LiveWatcher, LiveTimer
    <2>11. \A v : Owned(v)' => Owned(v)
        BY <1>0, <2>10, OwnersStay
    <2>12. PhaseShape' /\ FrameShape'
        <3>1. PhaseShape'
            BY <1>1, <1>2 DEF PhaseShape, DestroyPhase
        <3>2. \A v \in Tasks : "RUNNING" \in flags'[v] <=> "RUNNING" \in flags[v]
            BY <2>4, <2>5
        <3>3. \A i \in 1 .. n : i # n => stack[i].kind # "unwatch" /\ stack[i].task \in Tasks
            BY <1>0, FrameTypes DEF FrameShape, n
        <3>4. FrameShape'
            BY <1>0, <1>1, <2>1, <2>2, <2>7, <2>8, <3>2, <3>3 DEF FrameShape, n
        <3> QED
            BY <3>1, <3>4
    <2>13. RunningShape'
        BY <1>0, <1>1, <2>4, <2>5, <2>8 DEF RunningShape, n
    <2>14. FramesLive'
        BY <1>0, <1>1, <2>3, <2>7, <2>8 DEF FramesLive, n
    <2>15. DestroyIsolated'
        <3>1. \A v \in Tasks : Destroying(v) => flags'[v] = flags[v]
            BY <2>3, <2>5
        <3>2. \A i \in 1 .. Len(stack') : stack'[i].kind = "destroy" =>
                 i \in 1 .. Len(stack) /\ stack'[i] = stack[i]
            BY <2>7, <2>8 DEF n
        <3>3. \A k \in 1 .. Len(stack') :
                 \/ k \in 1 .. Len(stack) /\ stack'[k].task = stack[k].task
                 \/ \A v \in Tasks : stack'[k].task = v => ~ Destroying(v)
            BY <2>3, <2>7, <2>8 DEF n
        <3> QED
            BY <1>0, <2>11, <3>1, <3>2, <3>3, IsolatedStays
    <2>16. OwnerInv'
        <3>1. \A v \in Tasks : Owned(v)' => \A b \in BOOLEAN : KeptFor(v, b) => KeptFor(v, b)'
            BY <1>1, <2>4, <2>5, <2>9 DEF KeptFor
        <3> QED
            BY <1>0, <2>10, <3>1, OwnersStay
    <2>17. UniqueOwner' /\ DueInv'
        BY <1>0, <1>1, <1>2 DEF UniqueOwner, DueInv
    <2>18. FlagInv'
        BY <1>0, <1>1, <2>3, <2>4, <2>5, <2>9 DEF FlagInv
    <2> QED
        BY <2>12, <2>13, <2>14, <2>15, <2>16, <2>17, <2>18 DEF StackInv, TableInv
<1> QED
    BY <1>3, <1>4 DEF UnwatchScan

\* The entry of the cancelled task is dropped and the task is queued.
LEMMA UnwatchRemoveMem ==
    ASSUME MemInv, TypeOK', UnwatchRemove
    PROVE  StackInv' /\ TableInv'
<1> USE DEF runVars, tickVars, tableVars
<1> DEFINE n == Len(stack)
           frame == [Top EXCEPT !.task = None, !.cb = FALSE]
<1>0. /\ TypeOK /\ OwnerInv /\ UniqueOwner /\ FlagInv /\ DestroyIsolated /\ FrameShape
      /\ RunningShape /\ FramesLive
    BY DEF MemInv, QueueInv, TableInv, StackInv
<1>1. /\ stack # <<>> /\ Top.kind = "unwatch" /\ Top.task # None
      /\ stack' = Append(Caller, frame)
      /\ \E ok \in BOOLEAN : Enqueue(Top.task, ok)
      /\ UNCHANGED <<mem, cleanups, timers, pos, due>>
    BY DEF UnwatchRemove, AllocResult
<1>2. pc \in {"out", "loop"} /\ pc \notin DestroyPhase
    BY <1>1, CallPhase
<1>3. Top \in Frame /\ n \in 1 .. n /\ Top = stack[n]
    BY <1>0, <1>1, StackFacts
<1>4. frame \in Frame /\ frame.kind = "unwatch" /\ frame.task = None
    BY <1>1, <1>3 DEF Frame
<1> HIDE DEF frame
<1>5. /\ n \in Nat \ {0} /\ Len(stack') = n /\ stack'[n] = frame
      /\ \A i \in 1 .. n : i # n => stack'[i] = stack[i]
    BY <1>0, <1>1, <1>4, Replaced
<1> HIDE DEF n
<1>6. PICK x \in Tasks : x = Top.task
    BY <1>1, <1>3 DEF Frame
<1>7. PICK w \in 1 .. Len(watchers) : w = Top.at /\ watchers[w].task = x
    BY <1>0, <1>1, <1>3, <1>6 DEF FrameShape, n
<1>8. watchers # <<>>
    BY <1>0, <1>7, EmptySeq
<1>9. watchers' = SwapRemove(watchers, w) /\ pc' = pc
    BY <1>7, <1>8 DEF UnwatchRemove
<1>10. /\ flags'[x] = flags[x] \/ flags'[x] = flags[x] \cup {"SCHEDULED"}
       /\ \A u \in Tasks : u # x => flags'[u] = flags[u]
    BY <1>0, <1>1, <1>6, EnqueueFlags
<1>11. mem[x] = "live" /\ ~ Destroying(x)
    BY <1>0, <1>1, <1>3, <1>6 DEF FramesLive, DestroyIsolated, Destroying, n
<1>12. \A k \in 1 .. Len(watchers') :
          \E j \in 1 .. Len(watchers) : j # w /\ watchers'[k] = watchers[j]
    BY <1>0, <1>9, RemoveEntry
<1>13. UniqueOwner'
    <2>1. timers' \subseteq timers
        BY <1>1
    <2> QED
        BY <1>0, <1>9, <2>1, RemoveEntry
<1>14. ~ Owned(x)'
    BY <1>0, <1>1, <1>7, <1>12 DEF Owned, UniqueOwner
<1>15. /\ \A k \in 1 .. Len(watchers') : LiveWatcher(k)' =>
             \E j \in 1 .. Len(watchers) : LiveWatcher(j) /\ watchers'[k] = watchers[j]
       /\ \A timer \in timers' : LiveTimer(timer)' => LiveTimer(timer)
    BY <1>1, <1>2, <1>9, <1>12 DEF LiveWatcher, LiveTimer, DestroyPhase
<1>16. \A v : Owned(v)' => Owned(v)
    BY <1>0, <1>15, OwnersStay
<1>17. /\ \A v \in Tasks : v # x => (Cancelling(v)' <=> Cancelling(v))
       /\ \A v \in Tasks : Destroying(v)' <=> Destroying(v)
    BY <1>1, <1>3, <1>4, <1>5, <1>6, RuntimeAssumption DEF Cancelling, Destroying, n
<1>18. PhaseShape'
    BY <1>2, <1>9 DEF PhaseShape, DestroyPhase
<1>19. FrameShape'
    <2>1. \A v \in Tasks : "RUNNING" \in flags'[v] <=> "RUNNING" \in flags[v]
        BY <1>10
    <2>2. \A i \in 1 .. n : i # n => stack[i].kind # "unwatch" /\ stack[i].task \in Tasks
        BY <1>0, FrameTypes DEF FrameShape, n
    <2> QED
        BY <1>0, <1>4, <1>5, <1>9, <2>1, <2>2 DEF FrameShape, n
<1>20. RunningShape' /\ FramesLive'
    <2>1. RunningShape'
        BY <1>0, <1>1, <1>3, <1>5, <1>10 DEF RunningShape, n
    <2>2. FramesLive'
        BY <1>0, <1>1, <1>4, <1>5 DEF FramesLive, n
    <2> QED
        BY <2>1, <2>2
<1>21. DestroyIsolated'
    <2>1. \A v \in Tasks : Destroying(v) => flags'[v] = flags[v]
        BY <1>10, <1>11
    <2>2. \A i \in 1 .. Len(stack') : stack'[i].kind = "destroy" =>
             i \in 1 .. Len(stack) /\ stack'[i] = stack[i]
        BY <1>4, <1>5 DEF n
    <2>3. \A k \in 1 .. Len(stack') :
             \/ k \in 1 .. Len(stack) /\ stack'[k].task = stack[k].task
             \/ \A v \in Tasks : stack'[k].task = v => ~ Destroying(v)
        BY <1>4, <1>5, RuntimeAssumption DEF n
    <2> QED
        BY <1>0, <1>16, <2>1, <2>2, <2>3, IsolatedStays
<1>22. OwnerInv'
    <2>1. \A v \in Tasks : Owned(v)' => \A b \in BOOLEAN : KeptFor(v, b) => KeptFor(v, b)'
        BY <1>1, <1>10, <1>14, <1>17 DEF KeptFor
    <2> QED
        BY <1>0, <1>15, <2>1, OwnersStay
<1>23. DueInv' /\ FlagInv'
    <2>1. DueInv'
        BY <1>2, <1>9 DEF DueInv
    <2> QED
        BY <1>0, <1>1, <1>10, <1>11, <1>17, <2>1 DEF FlagInv
<1> QED
    BY <1>13, <1>18, <1>19, <1>20, <1>21, <1>22, <1>23 DEF StackInv, TableInv

-----------------------------------------------------------------------------
(* The phases of bb_runtime_tick and of bb_runtime_destroy *)

\* Between two callbacks no task runs and no cleanup is in progress.
LEMMA QuietFacts ==
    ASSUME MemInv, stack = <<>>
    PROVE  \A t \in Tasks : ~ Cancelling(t) /\ ~ Destroying(t) /\ "RUNNING" \notin flags[t]
<1>1. Len(stack) = 0
    BY StackFacts DEF MemInv, QueueInv
<1> QED
    BY <1>1 DEF MemInv, StackInv, RunningShape, Cancelling, Destroying

\* A step to a state in which no call is in progress.
LEMMA QuietMem ==
    ASSUME MemInv, TypeOK', stack' = <<>>, UNCHANGED <<mem, cleanups>>,
           \A t \in Tasks : ~ Destroying(t),
           pc' # "undefined",
           pc' \in {"destroyWatchers", "destroyTimers"} =>
               \A t \in Tasks : "SCHEDULED" \notin flags'[t],
           \A t \in Tasks : "RUNNING" \notin flags'[t],
           \A t \in Tasks : /\ "CANCELLED" \in flags'[t] <=> "CANCELLED" \in flags[t]
                            /\ "FINALIZED" \in flags'[t] <=> "FINALIZED" \in flags[t]
                            /\ "SCHEDULED" \in flags'[t] => mem[t] = "live"
                            /\ flags[t] = {} => flags'[t] \subseteq {"SCHEDULED"}
    PROVE  StackInv' /\ FlagInv'
<1>1. Len(stack') = 0
    BY EmptySeq
<1>2. FlagInv
    BY DEF MemInv, TableInv
<1>3. StackInv'
    BY <1>1 DEF StackInv, PhaseShape, FrameShape, RunningShape, DestroyIsolated, FramesLive
<1>4. \A t \in Tasks : mem[t] = "none" => flags'[t] = {}
    BY <1>2 DEF FlagInv
<1>5. FlagInv'
    BY <1>2, <1>4 DEF FlagInv
<1> QED
    BY <1>3, <1>5

\* bb_task_destroy of a task without an owner, called by the runtime itself.
LEMMA DestroyMem ==
    ASSUME MemInv, TypeOK', NEW x \in Tasks, NEW fl \in FlagSets,
           NEW callers \in Seq(Frame), Len(callers) = 0,
           TaskDestroy(x, fl, callers), UNCHANGED mem, mem[x] = "live",
           "SCHEDULED" \notin fl[x], "RUNNING" \notin fl[x],
           "CANCELLED" \in fl[x] <=> "CANCELLED" \in flags[x],
           "FINALIZED" \in fl[x] <=> "FINALIZED" \in flags[x],
           \A v \in Tasks : v # x => fl[v] = flags[v] /\ "RUNNING" \notin flags[v],
           \A v \in Tasks : ~ Cancelling(v) /\ ~ Destroying(v),
           ~ Owned(x)',
           pc' \in {"loop"} \cup DestroyPhase,
           pc' \in {"destroyWatchers", "destroyTimers"} =>
               \A t \in Tasks : "SCHEDULED" \notin flags[t]
    PROVE  /\ StackInv' /\ FlagInv'
           /\ \A v \in Tasks : Owned(v)' => \A b \in BOOLEAN : KeptFor(v, b) => KeptFor(v, b)'
<1>0. TypeOK /\ FlagInv /\ cleanups \in [Tasks -> Nat]
    BY DEF MemInv, QueueInv, TableInv, TypeOK
<1>1. flags' = [fl EXCEPT ![x] = @ \cup {"FINALIZED"}]
    BY <1>0, DestroyCall
<1>2. cleanups' = IF "FINALIZED" \in fl[x] THEN cleanups
                  ELSE [cleanups EXCEPT ![x] = @ + 1]
    BY <1>0, DestroyCall
<1>3. PICK frame \in Frame : /\ frame.kind = "destroy" /\ frame.task = x
                             /\ stack' = Append(callers, frame)
    BY <1>0, DestroyCall
<1>4. /\ flags'[x] = fl[x] \cup {"FINALIZED"}
      /\ \A v \in Tasks : v # x => flags'[v] = flags[v]
    BY <1>1 DEF FlagSets
<1>5. /\ cleanups'[x] = IF "FINALIZED" \in fl[x] THEN cleanups[x] ELSE cleanups[x] + 1
      /\ \A v \in Tasks : v # x => cleanups'[v] = cleanups[v]
    BY <1>0, <1>2
<1>6. Len(stack') = 1 /\ stack'[1] = frame
    BY <1>3, Pushed
<1>7. PhaseShape' /\ FrameShape' /\ RunningShape' /\ FramesLive'
    BY <1>3, <1>4, <1>6
    DEF PhaseShape, FrameShape, RunningShape, FramesLive, DestroyPhase
<1>8. DestroyIsolated'
    BY <1>3, <1>4, <1>6, IsolatedNext
<1>9. FlagInv'
    <2>1. Destroying(x)'
        BY <1>3, <1>6 DEF Destroying
    <2> QED
        BY <1>0, <1>4, <1>5, <2>1 DEF FlagInv
<1>10. \A v \in Tasks : Owned(v)' => \A b \in BOOLEAN : KeptFor(v, b) => KeptFor(v, b)'
    BY <1>4 DEF KeptFor
<1> QED
    BY <1>7, <1>8, <1>9, <1>10 DEF StackInv

\* The test after execution in bb_runtime_tick.  The task has neither a one-shot
\* owner (it was queued, or it runs) nor a persistent one when it is destroyed.
LEMMA ReapMem ==
    ASSUME MemInv, TypeOK', NEW x \in Tasks, NEW fl \in FlagSets,
           NEW callers \in Seq(Frame), Len(callers) = 0,
           Reap(x, fl, callers), UNCHANGED <<mem, watchers, timers, pc, pos, due>>,
           pc = "loop", mem[x] = "live",
           "RUNNING" \in flags[x] \/ "SCHEDULED" \in flags[x],
           "RUNNING" \notin fl[x], fl[x] \subseteq flags[x],
           "SCHEDULED" \in fl[x] => "SCHEDULED" \in flags[x],
           \A f \in {"CANCELLED", "FINALIZED", "PERSISTENT"} : f \in fl[x] <=> f \in flags[x],
           \A v \in Tasks : v # x => fl[v] = flags[v] /\ "RUNNING" \notin flags[v],
           \A v \in Tasks : ~ Cancelling(v) /\ ~ Destroying(v)
    PROVE  StackInv' /\ TableInv'
<1>0. TypeOK /\ OwnerInv /\ UniqueOwner /\ FlagInv
    BY DEF MemInv, QueueInv, TableInv
<1>1. /\ \A k \in 1 .. Len(watchers') : LiveWatcher(k)' =>
            \E j \in 1 .. Len(watchers) : LiveWatcher(j) /\ watchers'[k] = watchers[j]
      /\ \A timer \in timers' : LiveTimer(timer)' => LiveTimer(timer)
      /\ \A v : Owned(v)' <=> Owned(v)
    BY DEF LiveWatcher, LiveTimer, Owned
<1>2. UniqueOwner' /\ DueInv'
    BY <1>0 DEF UniqueOwner, DueInv
<1>3. \A f \in {"SCHEDULED", "RUNNING"} : f \in TaskFlag
    BY DEF TaskFlag
<1>4. CASE {"SCHEDULED", "PERSISTENT"} \cap fl[x] = {}
    <2>1. TaskDestroy(x, fl, callers) /\ "SCHEDULED" \notin fl[x] /\ "PERSISTENT" \notin flags[x]
        BY <1>4 DEF Reap
    <2>2. ~ KeptFor(x, TRUE) /\ ~ KeptFor(x, FALSE)
        BY <2>1 DEF KeptFor
    <2>3. ~ Owned(x)
        <3>1. ASSUME NEW i \in 1 .. Len(watchers), LiveWatcher(i), watchers[i].task = x
              PROVE  FALSE
            <4>1. KeptFor(x, watchers[i].mode = "PERSISTENT")
                BY <1>0, <3>1 DEF OwnerInv
            <4> QED
                BY <2>1, <4>1 DEF KeptFor
        <3>2. ASSUME NEW timer \in timers, LiveTimer(timer), timer.task = x
              PROVE  FALSE
            <4>1. KeptFor(x, timer.repeating)
                BY <1>0, <3>2 DEF OwnerInv
            <4> QED
                BY <2>1, <4>1 DEF KeptFor
        <3> QED
            BY <3>1, <3>2 DEF Owned
    <2>4. ~ Owned(x)' /\ pc' \in {"loop"} \cup DestroyPhase
          /\ (pc' \in {"destroyWatchers", "destroyTimers"} =>
                 \A t \in Tasks : "SCHEDULED" \notin flags[t])
        BY <1>1, <2>3
    <2>5. StackInv' /\ FlagInv'
        BY <2>1, <2>4, DestroyMem
    <2>6. \A v \in Tasks : Owned(v)' => \A b \in BOOLEAN : KeptFor(v, b) => KeptFor(v, b)'
        BY <2>1, <2>4, DestroyMem
    <2>7. OwnerInv'
        BY <1>0, <1>1, <2>6, OwnersStay
    <2> QED
        BY <1>2, <2>5, <2>7 DEF TableInv
<1>5. CASE ~ ({"SCHEDULED", "PERSISTENT"} \cap fl[x] = {})
    <2>1. flags' = fl /\ stack' = callers /\ UNCHANGED cleanups
        BY <1>5 DEF Reap
    <2>2. stack' = <<>>
        BY <2>1, EmptySeq
    <2>3. \A t \in Tasks : /\ "CANCELLED" \in flags'[t] <=> "CANCELLED" \in flags[t]
                           /\ "FINALIZED" \in flags'[t] <=> "FINALIZED" \in flags[t]
                           /\ "SCHEDULED" \in flags'[t] => mem[t] = "live"
                           /\ flags[t] = {} => flags'[t] \subseteq {"SCHEDULED"}
                           /\ "RUNNING" \notin flags'[t]
        BY <1>0, <2>1 DEF FlagInv
    <2>4. StackInv' /\ FlagInv'
        BY <2>1, <2>2, <2>3, QuietMem
    <2>5. \A v \in Tasks : Owned(v)' => \A b \in BOOLEAN : KeptFor(v, b) => KeptFor(v, b)'
        BY <2>1 DEF KeptFor
    <2>6. OwnerInv'
        BY <1>0, <1>1, <2>5, OwnersStay
    <2> QED
        BY <1>2, <2>4, <2>6 DEF TableInv
<1> QED
    BY <1>4, <1>5

\* bb_task_execute after the callback, then the reaping
LEMMA ReturnRunMem ==
    ASSUME MemInv, TypeOK', ReturnRun
    PROVE  StackInv' /\ TableInv'
<1> USE DEF runVars, tickVars, tableVars
<1>0. TypeOK /\ FrameShape /\ RunningShape /\ FramesLive /\ flags \in FlagSets
    BY DEF MemInv, QueueInv, StackInv, TypeOK, FlagSets
<1>1. /\ stack # <<>> /\ Top.kind = "run"
      /\ UNCHANGED <<mem, watchers, timers, pc, pos, due>>
    BY DEF ReturnRun
<1>2. /\ Len(stack) \in 1 .. Len(stack) /\ Top = stack[Len(stack)] /\ Len(stack) \in Nat
      /\ Caller \in Seq(Frame) /\ Len(Caller) = Len(stack) - 1
    BY <1>0, <1>1, StackFacts
<1>3. Len(stack) = 1 /\ pc = "loop" /\ Len(Caller) = 0 /\ Top = stack[1]
    BY <1>0, <1>1, <1>2 DEF FrameShape
<1>4. PICK x \in Tasks : x = Top.task
    BY <1>0, <1>1, <1>2, FrameTypes
<1>5. "RUNNING" \in flags[x] /\ mem[x] = "live"
    BY <1>0, <1>1, <1>2, <1>4, RuntimeAssumption DEF FrameShape, FramesLive
<1>6. \A v \in Tasks : v # x => "RUNNING" \notin flags[v]
    BY <1>0, <1>3, <1>4 DEF RunningShape
<1>7. \A v \in Tasks : ~ Cancelling(v) /\ ~ Destroying(v)
    BY <1>1, <1>3 DEF Cancelling, Destroying
<1>8. PICK fl \in FlagSets : /\ Reap(x, fl, Caller)
                             /\ fl[x] = flags[x] \ {"RUNNING"}
                             /\ \A v \in Tasks : v # x => fl[v] = flags[v]
    <2> DEFINE f == [flags EXCEPT ![x] = @ \ {"RUNNING"}]
    <2>1. f \in FlagSets /\ f[x] = flags[x] \ {"RUNNING"}
          /\ \A v \in Tasks : v # x => f[v] = flags[v]
        BY <1>0 DEF FlagSets
    <2>2. Reap(x, f, Caller)
        BY <1>4 DEF ReturnRun
    <2> HIDE DEF f
    <2> QED
        BY <2>1, <2>2
<1>9. /\ "RUNNING" \notin fl[x] /\ fl[x] \subseteq flags[x]
      /\ \A f \in {"CANCELLED", "FINALIZED", "PERSISTENT"} : f \in fl[x] <=> f \in flags[x]
    BY <1>8
<1> QED
    BY <1>1, <1>2, <1>3, <1>5, <1>6, <1>7, <1>8, <1>9, ReapMem

\* What goes on after a callback keeps the invariant.
LEMMA ReturnMem ==
    ASSUME MemInv, TypeOK', Return
    PROVE  StackInv' /\ TableInv'
BY ReturnDestroyMem, ReturnCancelMem, UnwatchScanMem, UnwatchRemoveMem, ReturnRunMem DEF Return

\* bb_scheduler_next clears the SCHEDULED bit of the task that it returns.
LEMMA PoppedFlags ==
    ASSUME flags \in FlagSets, NEW x \in Tasks
    PROVE  \E fl \in FlagSets : /\ fl = [flags EXCEPT ![x] = @ \ {"SCHEDULED"}]
                                /\ fl[x] = flags[x] \ {"SCHEDULED"}
                                /\ \A v \in Tasks : v # x => fl[v] = flags[v]
<1> DEFINE fl == [flags EXCEPT ![x] = @ \ {"SCHEDULED"}]
<1>1. /\ fl \in FlagSets /\ fl[x] = flags[x] \ {"SCHEDULED"}
      /\ \A v \in Tasks : v # x => fl[v] = flags[v]
    BY DEF FlagSets
<1> QED
    BY <1>1

\* bb_runtime_tick takes the next task.
LEMMA RunNextMem ==
    ASSUME MemInv, TypeOK', RunNext
    PROVE  StackInv' /\ TableInv'
<1> USE DEF runVars, tickVars, tableVars
<1>0. /\ TypeOK /\ OwnerInv /\ UniqueOwner /\ FlagInv /\ flags \in FlagSets
      /\ stack \in Seq(Frame)
    BY DEF MemInv, QueueInv, TableInv, TypeOK, FlagSets
<1>1. /\ pc = "loop" /\ stack = <<>> /\ queue # <<>>
      /\ UNCHANGED <<mem, watchers, timers, pc, pos, due>>
    BY DEF RunNext
<1>2. Len(stack) = 0 /\ \A v \in Tasks : ~ Cancelling(v) /\ ~ Destroying(v)
                                         /\ "RUNNING" \notin flags[v]
    BY <1>0, <1>1, QuietFacts, StackFacts
<1>3. PICK x \in Tasks : x = Head(queue) /\ "SCHEDULED" \in flags[x]
    <2>1. Head(queue) = queue[1] /\ 1 \in 1 .. Len(queue)
        BY <1>0, <1>1, EmptySeq, LenProperties, HeadTailProperties DEF TypeOK
    <2> QED
        BY <1>0, <2>1, ReferenceTypes DEF MemInv, QueueInv, ScheduledOnce
<1>4. mem[x] = "live"
    BY <1>0, <1>3 DEF FlagInv
<1>5. PICK fl \in FlagSets : /\ fl = [flags EXCEPT ![x] = @ \ {"SCHEDULED"}]
                             /\ fl[x] = flags[x] \ {"SCHEDULED"}
                             /\ \A v \in Tasks : v # x => fl[v] = flags[v]
    BY <1>0, PoppedFlags
<1>6. CASE Reap(x, fl, stack)
    <2>1. /\ "RUNNING" \notin fl[x] /\ fl[x] \subseteq flags[x]
          /\ \A f \in {"CANCELLED", "FINALIZED", "PERSISTENT"} : f \in fl[x] <=> f \in flags[x]
          /\ \A v \in Tasks : v # x => fl[v] = flags[v] /\ "RUNNING" \notin flags[v]
        BY <1>2, <1>5
    <2> QED
        BY <1>0, <1>1, <1>2, <1>3, <1>4, <1>6, <2>1, ReapMem
<1>7. CASE /\ flags' = [fl EXCEPT ![x] = @ \cup {"RUNNING"}]
           /\ stack' = Append(stack, [kind |-> "run", task |-> x, cb |-> TRUE,
                                      fd |-> None, at |-> 0])
           /\ UNCHANGED cleanups
    <2>1. PICK frame \in Frame : /\ frame.kind = "run" /\ frame.task = x
                                 /\ stack' = Append(stack, frame)
        <3> DEFINE f == [kind |-> "run", task |-> x, cb |-> TRUE, fd |-> None, at |-> 0]
        <3>1. f \in Frame /\ f.kind = "run" /\ f.task = x
            BY RuntimeAssumption DEF Frame
        <3> QED
            BY <1>7, <3>1
    <2>2. Len(stack') = 1 /\ stack'[1] = frame
        BY <1>0, <1>2, <2>1, Pushed
    <2>3. /\ flags'[x] = (flags[x] \ {"SCHEDULED"}) \cup {"RUNNING"}
          /\ \A v \in Tasks : v # x => flags'[v] = flags[v]
        BY <1>5, <1>7 DEF FlagSets
    <2>4. StackInv'
        BY <1>1, <1>2, <1>4, <2>1, <2>2, <2>3
        DEF StackInv, PhaseShape, FrameShape, RunningShape, DestroyIsolated, FramesLive,
            DestroyPhase
    <2>5. UniqueOwner' /\ DueInv'
        BY <1>0, <1>1 DEF UniqueOwner, DueInv
    <2>6. FlagInv'
        BY <1>0, <1>1, <1>2, <1>4, <1>7, <2>3 DEF FlagInv
    <2>7. OwnerInv'
        <3>1. \A v \in Tasks : \A b \in BOOLEAN : KeptFor(v, b) => KeptFor(v, b)'
            BY <1>1, <1>2, <1>3, <2>3 DEF KeptFor
        <3>2. /\ \A k \in 1 .. Len(watchers') : LiveWatcher(k)' =>
                    \E j \in 1 .. Len(watchers) : LiveWatcher(j) /\ watchers'[k] = watchers[j]
              /\ \A timer \in timers' : LiveTimer(timer)' => LiveTimer(timer)
            BY <1>1 DEF LiveWatcher, LiveTimer
        <3> QED
            BY <1>0, <3>1, <3>2, OwnersStay
    <2> QED
        BY <2>4, <2>5, <2>6, <2>7 DEF TableInv
<1> QED
    BY <1>3, <1>5, <1>6, <1>7 DEF RunNext

\* A step of the tick that only changes its phase.
LEMMA PhaseMem ==
    ASSUME MemInv, TypeOK', stack = <<>>, pc' \in {"out", "dispatch", "timers", "loop"},
           pc \in {"out", "dispatch", "timers", "loop"},
           pc' = "timers" => due' \subseteq timers,
           UNCHANGED <<mem, flags, cleanups, watchers, timers, stack>>
    PROVE  StackInv' /\ TableInv'
<1>0. TypeOK /\ UniqueOwner /\ OwnerInv /\ FlagInv
    BY DEF MemInv, QueueInv, TableInv
<1>1. \A t \in Tasks : ~ Cancelling(t) /\ ~ Destroying(t) /\ "RUNNING" \notin flags[t]
    BY QuietFacts
<1>2. StackInv' /\ FlagInv'
    BY <1>0, <1>1, QuietMem DEF FlagInv
<1>3. UniqueOwner' /\ DueInv'
    BY <1>0 DEF UniqueOwner, DueInv
<1>4. OwnerInv'
    <2>1. \A v \in Tasks : \A b \in BOOLEAN : KeptFor(v, b) => KeptFor(v, b)'
        BY <1>1 DEF KeptFor
    <2>2. /\ \A k \in 1 .. Len(watchers') : LiveWatcher(k)' =>
                \E j \in 1 .. Len(watchers) : LiveWatcher(j) /\ watchers'[k] = watchers[j]
          /\ \A timer \in timers' : LiveTimer(timer)' => LiveTimer(timer)
        BY DEF LiveWatcher, LiveTimer
    <2> QED
        BY <1>0, <2>1, <2>2, OwnersStay
<1> QED
    BY <1>2, <1>3, <1>4 DEF TableInv

\* A step of the tick that queues the task of an owner: the owner stays if it is
\* persistent and is dropped if it is a one-shot owner.
LEMMA WakeMem ==
    ASSUME MemInv, TypeOK', stack = <<>>, pc \in {"dispatch", "timers"},
           NEW x \in Tasks, NEW ok \in BOOLEAN, Enqueue(x, ok), mem[x] = "live",
           UNCHANGED <<mem, cleanups, pc, stack>>, UniqueOwner',
           pc = "timers" => due' \subseteq timers',
           \A k \in 1 .. Len(watchers') : \E j \in 1 .. Len(watchers) :
               /\ watchers'[k] = watchers[j]
               /\ watchers[j].task = x => watchers[j].mode = "PERSISTENT",
           \A timer \in timers' : timer \in timers /\ (timer.task = x => timer.repeating)
    PROVE  StackInv' /\ TableInv'
<1>0. TypeOK /\ UniqueOwner /\ OwnerInv /\ FlagInv
    BY DEF MemInv, QueueInv, TableInv
<1>1. \A t \in Tasks : ~ Cancelling(t) /\ ~ Destroying(t) /\ "RUNNING" \notin flags[t]
    BY QuietFacts
<1>2. /\ flags'[x] = flags[x] \/ flags'[x] = flags[x] \cup {"SCHEDULED"}
      /\ \A u \in Tasks : u # x => flags'[u] = flags[u]
    BY <1>0, EnqueueFlags
<1>3. StackInv' /\ FlagInv'
    <2>1. \A t \in Tasks : /\ "CANCELLED" \in flags'[t] <=> "CANCELLED" \in flags[t]
                           /\ "FINALIZED" \in flags'[t] <=> "FINALIZED" \in flags[t]
                           /\ "SCHEDULED" \in flags'[t] => mem[t] = "live"
                           /\ flags[t] = {} => flags'[t] \subseteq {"SCHEDULED"}
                           /\ "RUNNING" \notin flags'[t]
        BY <1>0, <1>1, <1>2 DEF FlagInv
    <2> QED
        BY <1>1, <2>1, QuietMem
<1>4. DueInv'
    BY DEF DueInv
<1>5. \A v \in Tasks : KeptFor(v, TRUE) => KeptFor(v, TRUE)'
    BY <1>1, <1>2 DEF KeptFor
<1>6. \A v \in Tasks : v # x => (KeptFor(v, FALSE) => KeptFor(v, FALSE)')
    BY <1>1, <1>2 DEF KeptFor
<1>7. OwnerInv'
    <2>1. ASSUME NEW k \in 1 .. Len(watchers'), NEW u, NEW b,
                 u = watchers'[k].task, b = (watchers'[k].mode = "PERSISTENT")
          PROVE  KeptFor(u, b)'
        <3>1. PICK j \in 1 .. Len(watchers) :
                  /\ watchers'[k] = watchers[j]
                  /\ watchers[j].task = x => watchers[j].mode = "PERSISTENT"
            BY <2>1
        <3>2. KeptFor(u, b) /\ u \in Tasks /\ b \in BOOLEAN
            BY <1>0, <2>1, <3>1, ReferenceTypes DEF OwnerInv, LiveWatcher
        <3>3. u = x => b = TRUE
            BY <2>1, <3>1
        <3> QED
            BY <1>5, <1>6, <3>2, <3>3
    <2>2. ASSUME NEW timer \in timers', NEW u, NEW b, u = timer.task, b = timer.repeating
          PROVE  KeptFor(u, b)'
        <3>1. KeptFor(u, b) /\ u \in Tasks /\ b \in BOOLEAN
            BY <1>0, <2>2 DEF OwnerInv, LiveTimer, TypeOK, Timer
        <3>2. u = x => b = TRUE
            BY <2>2, <3>1
        <3> QED
            BY <1>5, <1>6, <3>1, <3>2
    <2> QED
        BY <2>1, <2>2, OwnerNext
<1> QED
    BY <1>3, <1>4, <1>7 DEF TableInv

\* The dispatch of an event: the one-shot owner that wakes its task is dropped.
LEMMA DispatchMem ==
    ASSUME MemInv, TypeOK', Dispatch
    PROVE  StackInv' /\ TableInv'
<1> USE DEF runVars, tickVars, tableVars
<1>0. TypeOK /\ OwnerInv /\ UniqueOwner
    BY DEF MemInv, QueueInv, TableInv
<1>1. pc = "dispatch" /\ UNCHANGED <<mem, cleanups, timers, pc, due, stack>>
    BY DEF Dispatch
<1>2. stack = <<>>
    BY <1>0, <1>1, StackFacts DEF MemInv, StackInv, PhaseShape
<1>3. CASE UNCHANGED <<flags, queue, watchers, interest>>
    BY <1>1, <1>2, <1>3, PhaseMem
<1>4. ASSUME NEW i \in pos .. Len(watchers), WakeWatcher(i)
      PROVE  StackInv' /\ TableInv'
    <2>1. i \in 1 .. Len(watchers)
        BY <1>0, <1>4, LenProperties DEF TypeOK
    <2>2. /\ watchers[i] \in Watcher
          /\ \A k \in 1 .. Len(watchers) : watchers[k].task = watchers[i].task => k = i
          /\ \A timer \in timers : timer.task # watchers[i].task
        BY <1>0, <2>1, WatcherType DEF UniqueOwner
    <2>3. PICK x \in Tasks : x = watchers[i].task
        BY <2>2 DEF Watcher
    <2>4. mem[x] = "live"
        BY <1>0, <1>1, <2>1, <2>3 DEF OwnerInv, LiveWatcher, KeptFor
    <2>5. PICK ok \in BOOLEAN : Enqueue(x, ok)
        BY <1>4, <2>3 DEF WakeWatcher, AllocResult
    <2>6. CASE watchers[i].mode = "ONESHOT"
        <3>1. watchers' = SwapRemove(watchers, i)
            BY <1>4, <2>6 DEF WakeWatcher
        <3>2. \A k \in 1 .. Len(watchers') :
                 \E j \in 1 .. Len(watchers) : j # i /\ watchers'[k] = watchers[j]
            BY <1>0, <2>1, <3>1, RemoveEntry
        <3>3. UniqueOwner'
            <4>1. timers' \subseteq timers
                BY <1>1
            <4> QED
                BY <1>0, <2>1, <3>1, <4>1, RemoveEntry
        <3>4. \A k \in 1 .. Len(watchers') : \E j \in 1 .. Len(watchers) :
                 /\ watchers'[k] = watchers[j]
                 /\ watchers[j].task = x => watchers[j].mode = "PERSISTENT"
            BY <2>2, <2>3, <3>2
        <3>5. \A timer \in timers' : timer \in timers /\ (timer.task = x => timer.repeating)
            BY <1>1, <2>2, <2>3
        <3> QED
            BY <1>1, <1>2, <2>4, <2>5, <3>3, <3>4, <3>5, WakeMem
    <2>7. CASE watchers[i].mode # "ONESHOT"
        <3>1. watchers' = watchers /\ watchers[i].mode = "PERSISTENT"
            BY <1>4, <2>2, <2>7 DEF WakeWatcher, Watcher, Mode
        <3>2. UniqueOwner'
            BY <1>0, <1>1, <3>1 DEF UniqueOwner
        <3>3. \A k \in 1 .. Len(watchers') : \E j \in 1 .. Len(watchers) :
                 /\ watchers'[k] = watchers[j]
                 /\ watchers[j].task = x => watchers[j].mode = "PERSISTENT"
            BY <2>2, <2>3, <3>1
        <3>4. \A timer \in timers' : timer \in timers /\ (timer.task = x => timer.repeating)
            BY <1>1, <2>2, <2>3
        <3> QED
            BY <1>1, <1>2, <2>4, <2>5, <3>2, <3>3, <3>4, WakeMem
    <2> QED
        BY <2>6, <2>7
<1> QED
    BY <1>3, <1>4 DEF Dispatch

\* A timer that fires queues its task; a timeout is dropped with it.
LEMMA FireTimerMem ==
    ASSUME MemInv, TypeOK', NEW timer \in Timer, FireTimer(timer)
    PROVE  StackInv' /\ TableInv'
<1> USE DEF runVars, tickVars, tableVars
<1>0. TypeOK /\ OwnerInv /\ UniqueOwner /\ DueInv
    BY DEF MemInv, QueueInv, TableInv
<1>1. /\ pc = "timers" /\ timer \in due /\ due' = due \ {timer}
      /\ UNCHANGED <<mem, cleanups, watchers, pc, stack>>
      /\ timers' = IF timer.repeating THEN timers ELSE timers \ {timer}
    BY DEF FireTimer
<1>2. stack = <<>> /\ timer \in timers
    BY <1>0, <1>1, StackFacts DEF MemInv, StackInv, PhaseShape, DueInv
<1>3. PICK x \in Tasks : x = timer.task
    BY DEF Timer
<1>4. PICK ok \in BOOLEAN : Enqueue(x, ok)
    BY <1>3 DEF FireTimer, AllocResult
<1>5. mem[x] = "live"
    BY <1>0, <1>1, <1>2, <1>3 DEF OwnerInv, LiveTimer, KeptFor
<1>6. UniqueOwner'
    BY <1>0, <1>1 DEF UniqueOwner
<1>7. pc = "timers" => due' \subseteq timers'
    BY <1>0, <1>1 DEF DueInv
<1>8. \A k \in 1 .. Len(watchers') : \E j \in 1 .. Len(watchers) :
         /\ watchers'[k] = watchers[j]
         /\ watchers[j].task = x => watchers[j].mode = "PERSISTENT"
    BY <1>0, <1>1, <1>2, <1>3 DEF UniqueOwner
<1>9. \A other \in timers' : other \in timers /\ (other.task = x => other.repeating)
    BY <1>0, <1>1, <1>2, <1>3 DEF UniqueOwner
<1> QED
    BY <1>1, <1>2, <1>4, <1>5, <1>6, <1>7, <1>8, <1>9, WakeMem

\* The phases of bb_runtime_tick keep the invariant.
LEMMA TickMem ==
    ASSUME MemInv, TypeOK', PollerWait \/ TickStep \/ RunReturns
    PROVE  StackInv' /\ TableInv'
<1> USE DEF runVars, tickVars, tableVars
<1>0. TypeOK
    BY DEF MemInv, QueueInv
<1>1. CASE PollerWait
    BY <1>1, PhaseMem DEF PollerWait
<1>2. CASE DispatchDone
    <2>1. stack = <<>>
        BY <1>0, <1>2, StackFacts DEF DispatchDone, MemInv, StackInv, PhaseShape
    <2> QED
        BY <1>2, <2>1, PhaseMem DEF DispatchDone
<1>3. CASE TimersDone
    <2>1. stack = <<>>
        BY <1>0, <1>3, StackFacts DEF TimersDone, MemInv, StackInv, PhaseShape
    <2> QED
        BY <1>3, <2>1, PhaseMem DEF TimersDone
<1>4. CASE TickDone
    BY <1>4, PhaseMem DEF TickDone
<1>5. CASE RunReturns
    BY <1>5, StutterMem DEF RunReturns
<1> QED
    BY <1>1, <1>2, <1>3, <1>4, <1>5, DispatchMem, FireTimerMem, RunNextMem DEF TickStep

\* A step of the shutdown between two cleanups, which drops owners at most.
LEMMA DrainedMem ==
    ASSUME MemInv, TypeOK', stack = <<>>, pc' \in DestroyPhase \cup {"gone"},
           UNCHANGED <<mem, flags, cleanups, stack>>, UniqueOwner', DueInv',
           pc' \in {"destroyWatchers", "destroyTimers"} =>
               \A t \in Tasks : "SCHEDULED" \notin flags[t],
           \A k \in 1 .. Len(watchers') : LiveWatcher(k)' =>
               \E j \in 1 .. Len(watchers) : LiveWatcher(j) /\ watchers'[k] = watchers[j],
           \A timer \in timers' : LiveTimer(timer)' => LiveTimer(timer)
    PROVE  StackInv' /\ TableInv'
<1>0. TypeOK /\ OwnerInv /\ FlagInv
    BY DEF MemInv, QueueInv, TableInv
<1>1. \A t \in Tasks : ~ Cancelling(t) /\ ~ Destroying(t) /\ "RUNNING" \notin flags[t]
    BY QuietFacts
<1>2. pc' # "undefined"
    BY DEF DestroyPhase
<1>3. StackInv' /\ FlagInv'
    BY <1>0, <1>1, <1>2, QuietMem DEF FlagInv
<1>4. \A v \in Tasks : \A b \in BOOLEAN : KeptFor(v, b) => KeptFor(v, b)'
    BY <1>1 DEF KeptFor
<1>5. OwnerInv'
    BY <1>0, <1>4, OwnersStay
<1> QED
    BY <1>3, <1>5 DEF TableInv

\* bb_runtime_destroy begins: no call is in progress.
LEMMA DestroyRuntimeMem ==
    ASSUME MemInv, TypeOK', DestroyRuntime
    PROVE  StackInv' /\ TableInv'
<1> USE DEF runVars, tickVars, tableVars
<1>1. /\ stack = <<>> /\ pc = "out" /\ pc' = "destroyQueue"
      /\ UNCHANGED <<mem, flags, cleanups, watchers, timers, pos, due, stack>>
    BY DEF DestroyRuntime
<1>2. UniqueOwner' /\ DueInv'
    BY <1>1 DEF MemInv, TableInv, UniqueOwner, DueInv
<1>3. /\ \A k \in 1 .. Len(watchers') : LiveWatcher(k)' =>
            \E j \in 1 .. Len(watchers) : LiveWatcher(j) /\ watchers'[k] = watchers[j]
      /\ \A timer \in timers' : LiveTimer(timer)' => LiveTimer(timer)
    BY <1>1 DEF LiveWatcher, LiveTimer
<1>4. pc' \in DestroyPhase \cup {"gone"} /\ pc' \notin {"destroyWatchers", "destroyTimers"}
    BY <1>1 DEF DestroyPhase
<1> QED
    BY <1>1, <1>2, <1>3, <1>4, DrainedMem

\* The first loop of bb_runtime_destroy: a task of the queue has no one-shot owner
\* and, when it is not persistent, no persistent one.
LEMMA DrainQueueMem ==
    ASSUME MemInv, TypeOK', DrainQueue
    PROVE  StackInv' /\ TableInv'
<1> USE DEF runVars, tickVars, tableVars
<1>0. /\ TypeOK /\ OwnerInv /\ UniqueOwner /\ FlagInv /\ flags \in FlagSets
      /\ stack \in Seq(Frame)
    BY DEF MemInv, QueueInv, TableInv, TypeOK, FlagSets
<1>1. /\ pc = "destroyQueue" /\ stack = <<>> /\ queue # <<>>
      /\ UNCHANGED <<mem, watchers, timers, pc, pos, due>>
    BY DEF DrainQueue
<1>2. Len(stack) = 0 /\ \A v \in Tasks : ~ Cancelling(v) /\ ~ Destroying(v)
                                         /\ "RUNNING" \notin flags[v]
    BY <1>0, <1>1, QuietFacts, StackFacts
<1>3. PICK x \in Tasks : x = Head(queue) /\ "SCHEDULED" \in flags[x]
    <2>1. Head(queue) = queue[1] /\ 1 \in 1 .. Len(queue)
        BY <1>0, <1>1, EmptySeq, LenProperties, HeadTailProperties DEF TypeOK
    <2> QED
        BY <1>0, <2>1, ReferenceTypes DEF MemInv, QueueInv, ScheduledOnce
<1>4. mem[x] = "live"
    BY <1>0, <1>3 DEF FlagInv
<1>5. PICK fl \in FlagSets : /\ fl = [flags EXCEPT ![x] = @ \ {"SCHEDULED"}]
                             /\ fl[x] = flags[x] \ {"SCHEDULED"}
                             /\ \A v \in Tasks : v # x => fl[v] = flags[v]
    BY <1>0, PoppedFlags
<1>6. UniqueOwner' /\ DueInv'
    BY <1>0, <1>1 DEF UniqueOwner, DueInv
<1>7. /\ \A k \in 1 .. Len(watchers') : LiveWatcher(k)' =>
            \E j \in 1 .. Len(watchers) : LiveWatcher(j) /\ watchers'[k] = watchers[j]
      /\ \A timer \in timers' : LiveTimer(timer)' => LiveTimer(timer)
      /\ \A v : Owned(v)' <=> Owned(v)
    BY <1>1 DEF LiveWatcher, LiveTimer, Owned
<1>8. CASE "PERSISTENT" \in fl[x] /\ flags' = fl /\ UNCHANGED <<cleanups, stack>>
    <2>1. \A t \in Tasks : /\ "CANCELLED" \in flags'[t] <=> "CANCELLED" \in flags[t]
                           /\ "FINALIZED" \in flags'[t] <=> "FINALIZED" \in flags[t]
                           /\ "SCHEDULED" \in flags'[t] => mem[t] = "live"
                           /\ flags[t] = {} => flags'[t] \subseteq {"SCHEDULED"}
                           /\ "RUNNING" \notin flags'[t]
        BY <1>0, <1>2, <1>5, <1>8 DEF FlagInv
    <2>2. stack' = <<>> /\ UNCHANGED <<mem, cleanups>> /\ pc' # "undefined"
          /\ pc' \notin {"destroyWatchers", "destroyTimers"}
        BY <1>1, <1>8
    <2>3. StackInv' /\ FlagInv'
        BY <1>2, <2>1, <2>2, QuietMem
    <2>4. \A v \in Tasks : \A b \in BOOLEAN : KeptFor(v, b) => KeptFor(v, b)'
        BY <1>1, <1>2, <1>5, <1>8 DEF KeptFor
    <2>5. OwnerInv'
        BY <1>0, <1>7, <2>4, OwnersStay
    <2> QED
        BY <1>6, <2>3, <2>5 DEF TableInv
<1>9. CASE "PERSISTENT" \notin fl[x] /\ TaskDestroy(x, fl, stack)
    <2>1. ~ Owned(x)
        <3>1. ASSUME NEW i \in 1 .. Len(watchers), LiveWatcher(i), watchers[i].task = x
              PROVE  FALSE
            <4>1. KeptFor(x, watchers[i].mode = "PERSISTENT")
                BY <1>0, <3>1 DEF OwnerInv
            <4> QED
                BY <1>2, <1>3, <1>5, <1>9, <4>1 DEF KeptFor
        <3>2. ASSUME NEW timer \in timers, LiveTimer(timer), timer.task = x
              PROVE  FALSE
            <4>1. KeptFor(x, timer.repeating)
                BY <1>0, <3>2 DEF OwnerInv
            <4> QED
                BY <1>2, <1>3, <1>5, <1>9, <4>1 DEF KeptFor
        <3> QED
            BY <3>1, <3>2 DEF Owned
    <2>2. /\ ~ Owned(x)' /\ pc' \in {"loop"} \cup DestroyPhase
          /\ pc' \notin {"destroyWatchers", "destroyTimers"}
          /\ "SCHEDULED" \notin fl[x] /\ "RUNNING" \notin fl[x]
          /\ "CANCELLED" \in fl[x] <=> "CANCELLED" \in flags[x]
          /\ "FINALIZED" \in fl[x] <=> "FINALIZED" \in flags[x]
          /\ \A v \in Tasks : v # x => fl[v] = flags[v] /\ "RUNNING" \notin flags[v]
        BY <1>1, <1>2, <1>5, <1>7, <2>1 DEF DestroyPhase
    <2>3. StackInv' /\ FlagInv'
        BY <1>0, <1>1, <1>2, <1>4, <1>9, <2>2, DestroyMem
    <2>4. \A v \in Tasks : Owned(v)' => \A b \in BOOLEAN : KeptFor(v, b) => KeptFor(v, b)'
        BY <1>0, <1>1, <1>2, <1>4, <1>9, <2>2, DestroyMem
    <2>5. OwnerInv'
        BY <1>0, <1>7, <2>4, OwnersStay
    <2> QED
        BY <1>6, <2>3, <2>5 DEF TableInv
<1> QED
    BY <1>3, <1>5, <1>8, <1>9 DEF DrainQueue

\* The loops over the watchers and the timers: an owner is handled, and its
\* task destroyed.
LEMMA DrainOwnerMem ==
    ASSUME MemInv, TypeOK', stack = <<>>, pc \in {"destroyWatchers", "destroyTimers"},
           NEW x \in Tasks, Owned(x), ~ Owned(x)', TaskDestroy(x, flags, stack),
           UNCHANGED <<mem, pc>>, UniqueOwner', DueInv',
           \A k \in 1 .. Len(watchers') : LiveWatcher(k)' =>
               \E j \in 1 .. Len(watchers) : LiveWatcher(j) /\ watchers'[k] = watchers[j],
           \A timer \in timers' : LiveTimer(timer)' => LiveTimer(timer)
    PROVE  StackInv' /\ TableInv'
<1>0. /\ TypeOK /\ OwnerInv /\ flags \in FlagSets /\ stack \in Seq(Frame)
    BY DEF MemInv, QueueInv, TableInv, TypeOK, FlagSets
<1>1. Len(stack) = 0 /\ \A v \in Tasks : ~ Cancelling(v) /\ ~ Destroying(v)
                                         /\ "RUNNING" \notin flags[v]
    BY <1>0, QuietFacts, StackFacts
<1>2. \A t \in Tasks : "SCHEDULED" \notin flags[t]
    BY DEF MemInv, StackInv, PhaseShape
<1>3. mem[x] = "live"
    BY <1>0 DEF Owned, OwnerInv, KeptFor
<1>4. pc' \in {"loop"} \cup DestroyPhase
    BY DEF DestroyPhase
<1>5. StackInv' /\ FlagInv'
    BY <1>0, <1>1, <1>2, <1>3, <1>4, DestroyMem
<1>6. \A v \in Tasks : Owned(v)' => \A b \in BOOLEAN : KeptFor(v, b) => KeptFor(v, b)'
    BY <1>0, <1>1, <1>2, <1>3, <1>4, DestroyMem
<1>7. OwnerInv'
    BY <1>0, <1>6, OwnersStay
<1> QED
    BY <1>5, <1>7 DEF TableInv

\* The shutdown destroys the task of the watcher it passes.
LEMMA DrainWatchersMem ==
    ASSUME MemInv, TypeOK', DrainWatchers
    PROVE  StackInv' /\ TableInv'
<1> USE DEF runVars, tickVars, tableVars
<1>0. TypeOK /\ UniqueOwner /\ DueInv /\ pos \in Nat \ {0} /\ Len(watchers) \in Nat
    BY LenProperties DEF MemInv, QueueInv, TableInv, TypeOK
<1>1. /\ pc = "destroyWatchers" /\ stack = <<>> /\ pos <= Len(watchers) /\ pos' = pos + 1
      /\ TaskDestroy(watchers[pos].task, flags, stack)
      /\ UNCHANGED <<mem, watchers, timers, pc, due>>
    BY DEF DrainWatchers
<1>2. pos \in 1 .. Len(watchers) /\ LiveWatcher(pos)
    BY <1>0, <1>1 DEF LiveWatcher
<1>3. PICK x \in Tasks : x = watchers[pos].task
    BY <1>0, <1>2, ReferenceTypes
<1>4. /\ \A k \in 1 .. Len(watchers) : LiveWatcher(k)' => LiveWatcher(k) /\ k # pos
      /\ \A timer \in timers' : LiveTimer(timer)' => LiveTimer(timer)
    BY <1>0, <1>1 DEF LiveWatcher, LiveTimer
<1>5. Owned(x) /\ ~ Owned(x)'
    BY <1>0, <1>1, <1>2, <1>3, <1>4 DEF Owned, UniqueOwner
<1>6. UniqueOwner' /\ DueInv'
    BY <1>0, <1>1 DEF UniqueOwner, DueInv
<1>7. \A k \in 1 .. Len(watchers') : LiveWatcher(k)' =>
          \E j \in 1 .. Len(watchers) : LiveWatcher(j) /\ watchers'[k] = watchers[j]
    BY <1>1, <1>4
<1> QED
    BY <1>1, <1>3, <1>4, <1>5, <1>6, <1>7, DrainOwnerMem

\* The shutdown destroys the task of the timer it passes.
LEMMA DrainTimersMem ==
    ASSUME MemInv, TypeOK', NEW timer \in Timer, DrainTimers(timer)
    PROVE  StackInv' /\ TableInv'
<1> USE DEF runVars, tickVars, tableVars
<1>0. TypeOK /\ UniqueOwner /\ DueInv
    BY DEF MemInv, QueueInv, TableInv
<1>1. /\ pc = "destroyTimers" /\ stack = <<>> /\ timer \in due /\ due' = due \ {timer}
      /\ TaskDestroy(timer.task, flags, stack)
      /\ UNCHANGED <<mem, watchers, timers, pc, pos>>
    BY DEF DrainTimers
<1>2. timer \in timers /\ LiveTimer(timer)
    BY <1>0, <1>1 DEF DueInv, LiveTimer
<1>3. PICK x \in Tasks : x = timer.task
    BY DEF Timer
<1>4. /\ \A other \in timers' : LiveTimer(other)' => LiveTimer(other) /\ other # timer
      /\ \A k \in 1 .. Len(watchers') : LiveWatcher(k)' <=> LiveWatcher(k)
    BY <1>0, <1>1 DEF LiveWatcher, LiveTimer
<1>5. Owned(x)
    BY <1>2, <1>3 DEF Owned
<1>6. UniqueOwner' /\ DueInv'
    BY <1>0, <1>1 DEF UniqueOwner, DueInv
<1>7. ~ Owned(x)'
    BY <1>0, <1>1, <1>2, <1>3, <1>4 DEF Owned, UniqueOwner
<1>8. \A k \in 1 .. Len(watchers') : LiveWatcher(k)' =>
          \E j \in 1 .. Len(watchers) : LiveWatcher(j) /\ watchers'[k] = watchers[j]
    BY <1>1, <1>4
<1> QED
    BY <1>1, <1>3, <1>4, <1>5, <1>6, <1>7, <1>8, DrainOwnerMem

\* The loops of bb_runtime_destroy keep the invariant.
LEMMA DestroyStepMem ==
    ASSUME MemInv, TypeOK', DestroyRuntime \/ DestroyStep
    PROVE  StackInv' /\ TableInv'
<1> USE DEF runVars, tickVars, tableVars
<1>0. TypeOK /\ UniqueOwner /\ DueInv /\ pos \in Nat \ {0} /\ Len(watchers) \in Nat
    BY LenProperties DEF MemInv, QueueInv, TableInv, TypeOK
<1>1. CASE DrainQueueDone
    <2>1. /\ pc = "destroyQueue" /\ stack = <<>> /\ queue = <<>> /\ pc' = "destroyWatchers"
          /\ pos' = 1 /\ UNCHANGED <<mem, flags, cleanups, watchers, timers, due, stack>>
        BY <1>1 DEF DrainQueueDone
    <2>2. \A t \in Tasks : "SCHEDULED" \notin flags[t]
        <3>1. Len(queue) = 0
            BY <2>1, EmptySeq
        <3> QED
            BY <3>1 DEF MemInv, QueueInv, ScheduledOnce
    <2>3. UniqueOwner' /\ DueInv'
        BY <1>0, <2>1 DEF UniqueOwner, DueInv
    <2>4. /\ \A k \in 1 .. Len(watchers') : LiveWatcher(k)' =>
                \E j \in 1 .. Len(watchers) : LiveWatcher(j) /\ watchers'[k] = watchers[j]
          /\ \A timer \in timers' : LiveTimer(timer)' => LiveTimer(timer)
        BY <2>1 DEF LiveWatcher, LiveTimer
    <2>5. pc' \in DestroyPhase \cup {"gone"}
        BY <2>1 DEF DestroyPhase
    <2> QED
        BY <2>1, <2>2, <2>3, <2>4, <2>5, DrainedMem
<1>2. CASE DrainWatchersDone
    <2>1. /\ pc = "destroyWatchers" /\ stack = <<>> /\ watchers' = <<>>
          /\ pc' = "destroyTimers" /\ due' = timers
          /\ UNCHANGED <<mem, flags, cleanups, timers, stack>>
        BY <1>2 DEF DrainWatchersDone
    <2>2. \A t \in Tasks : "SCHEDULED" \notin flags[t]
        BY <2>1 DEF MemInv, StackInv, PhaseShape
    <2>3. Len(watchers') = 0
        BY <2>1, EmptySeq
    <2>4. UniqueOwner' /\ DueInv'
        BY <1>0, <2>1, <2>3 DEF UniqueOwner, DueInv
    <2>5. /\ \A k \in 1 .. Len(watchers') : LiveWatcher(k)' =>
                \E j \in 1 .. Len(watchers) : LiveWatcher(j) /\ watchers'[k] = watchers[j]
          /\ \A timer \in timers' : LiveTimer(timer)' => LiveTimer(timer)
        BY <2>1, <2>3 DEF LiveTimer
    <2>6. pc' \in DestroyPhase \cup {"gone"}
        BY <2>1 DEF DestroyPhase
    <2> QED
        BY <2>1, <2>2, <2>4, <2>5, <2>6, DrainedMem
<1>3. CASE DrainTimersDone
    <2>1. /\ pc = "destroyTimers" /\ stack = <<>> /\ timers' = {} /\ pc' = "gone"
          /\ UNCHANGED <<mem, flags, cleanups, watchers, pos, stack>>
        BY <1>3 DEF DrainTimersDone
    <2>2. UniqueOwner' /\ DueInv'
        BY <1>0, <2>1 DEF UniqueOwner, DueInv
    <2>3. /\ \A k \in 1 .. Len(watchers') : LiveWatcher(k)' =>
                \E j \in 1 .. Len(watchers) : LiveWatcher(j) /\ watchers'[k] = watchers[j]
          /\ \A timer \in timers' : LiveTimer(timer)' => LiveTimer(timer)
        BY <2>1 DEF LiveWatcher
    <2>4. pc' \in DestroyPhase \cup {"gone"} /\ pc' \notin {"destroyWatchers", "destroyTimers"}
        BY <2>1 DEF DestroyPhase
    <2> QED
        BY <2>1, <2>2, <2>3, <2>4, DrainedMem
<1> QED
    BY <1>1, <1>2, <1>3, DestroyRuntimeMem, DrainQueueMem, DrainWatchersMem, DrainTimersMem
    DEF DestroyStep

-----------------------------------------------------------------------------
(* The invariant, and what follows from it *)

\* A new runtime refers to no task.
LEMMA InitMem == Init => StackInv /\ TableInv
<1> SUFFICES ASSUME Init
             PROVE  StackInv /\ TableInv
    OBVIOUS
<1>1. Len(stack) = 0 /\ Len(watchers) = 0
    BY EmptySeq DEF Init
<1>2. StackInv
    BY <1>1 DEF Init, StackInv, PhaseShape, DestroyPhase, FrameShape, RunningShape,
                DestroyIsolated, FramesLive
<1>3. TableInv
    BY <1>1 DEF Init, TableInv, UniqueOwner, OwnerInv, DueInv, FlagInv
<1> QED
    BY <1>2, <1>3

\* The invariant is inductive when cleanups of an unwatch leave the runtime alone.
LEMMA NextMem ==
    ASSUME MemInv, TypeOK', ~ ReentrantUnwatch, [Next]_vars
    PROVE  StackInv' /\ TableInv'
<1>1. CASE UNCHANGED vars \/ Gone
    BY <1>1, StutterMem DEF vars, Gone
<1> QED
    BY <1>1, UserOperationMem, ReturnMem, TickMem, DestroyStepMem DEF Next

\* MemInv holds always, when the cleanups that bb_runtime_unwatch_fd calls do
\* not use the runtime.
THEOREM MemoryInvariant ==
    ASSUME ~ ReentrantUnwatch
    PROVE  Spec => []MemInv
<1>1. Init => MemInv
    BY InitQueue, InitMem DEF MemInv
<1>2. MemInv /\ [Next]_vars => MemInv'
    <2> SUFFICES ASSUME MemInv, [Next]_vars
                 PROVE  MemInv'
        OBVIOUS
    <2>1. QueueInv'
        BY NextQueue DEF MemInv
    <2>2. TypeOK'
        BY <2>1 DEF QueueInv
    <2> QED
        BY <2>1, <2>2, NextMem DEF MemInv
<1> QED
    BY <1>1, <1>2, PTL DEF Spec

\* Nothing that the runtime will still look at is freed, whatever the callbacks
\* call and whichever allocation fails.
THEOREM NoUseAfterFreeAlways ==
    ASSUME ~ ReentrantUnwatch
    PROVE  Spec => []NoUseAfterFree
<1>1. MemInv => NoUseAfterFree
    <2> SUFFICES ASSUME MemInv
                 PROVE  NoUseAfterFree
        OBVIOUS
    <2>1. \A i \in 1 .. Len(queue) : mem[queue[i]] = "live"
        BY ReferenceTypes DEF MemInv, QueueInv, ScheduledOnce, TableInv, FlagInv
    <2>2. \A i \in 1 .. Len(watchers) :
             (pc = "destroyWatchers" => i >= pos) => mem[watchers[i].task] = "live"
        BY DEF MemInv, TableInv, OwnerInv, LiveWatcher, KeptFor
    <2>3. \A timer \in timers :
             (pc = "destroyTimers" => timer \in due) => mem[timer.task] = "live"
        BY DEF MemInv, TableInv, OwnerInv, LiveTimer, KeptFor
    <2>4. \A i \in 1 .. Len(stack) : stack[i].task # None => mem[stack[i].task] = "live"
        BY DEF MemInv, StackInv, FramesLive
    <2> QED
        BY <2>1, <2>2, <2>3, <2>4 DEF NoUseAfterFree
<1> QED
    BY <1>1, MemoryInvariant, PTL

-----------------------------------------------------------------------------
(* The life cycle of a task: every step is a step of TaskLifecycle or leaves  *)
(* its variables alone.                                                       *)

\* The RUNNING bits stay.
SameActive == \A t \in Tasks : "RUNNING" \in flags'[t] <=> "RUNNING" \in flags[t]

\* The running tasks are those of the RUNNING bits.
LEMMA ActiveStays ==
    ASSUME SameActive
    PROVE  {t \in Tasks : "RUNNING" \in flags'[t]} = {t \in Tasks : "RUNNING" \in flags[t]}
BY DEF SameActive

\* Steps that neither allocate, free, run nor clean up are stuttering steps.
LEMMA LifeStays ==
    ASSUME SameActive, UNCHANGED <<mem, cleanups>>
    PROVE  UNCHANGED Lifecycle!lifecycleVars
BY ActiveStays DEF Lifecycle!lifecycleVars

\* bb_scheduler_schedule starts no task.
LEMMA EnqueueActive ==
    ASSUME TypeOK, NEW x \in Tasks, NEW ok \in BOOLEAN, Enqueue(x, ok)
    PROVE  SameActive
BY EnqueueFlags DEF SameActive

\* A call of the cleanup callback, unless it was called before.
LEMMA LifeCleanup ==
    ASSUME SameActive, UNCHANGED mem, FlagInv, NEW u \in Tasks, mem[u] = "live",
           cleanups' = IF "FINALIZED" \in flags[u] THEN cleanups
                       ELSE [cleanups EXCEPT ![u] = @ + 1]
    PROVE  [Lifecycle!LifecycleNext]_(Lifecycle!lifecycleVars)
<1>1. CASE "FINALIZED" \in flags[u]
    BY <1>1, LifeStays
<1>2. CASE "FINALIZED" \notin flags[u]
    <2>0. cleanups[u] = 0 /\ cleanups[u] + 1 = 1
        BY <1>2 DEF FlagInv
    <2>1. cleanups[u] = 0 /\ cleanups' = [cleanups EXCEPT ![u] = 1]
        BY <1>2, <2>0
    <2>2. Lifecycle!Cleanup(u)
        BY <2>1, ActiveStays DEF Lifecycle!Cleanup, Lifecycle!Usable
    <2> QED
        BY <2>2 DEF Lifecycle!LifecycleNext
<1> QED
    BY <1>1, <1>2

\* bb_task_destroy cleans a task up at most once.
LEMMA LifeDestroy ==
    ASSUME TypeOK, FlagInv, NEW u \in Tasks, NEW fl \in FlagSets, NEW callers \in Seq(Frame),
           TaskDestroy(u, fl, callers), mem[u] = "live", UNCHANGED mem,
           \A t \in Tasks : "RUNNING" \in fl[t] <=> "RUNNING" \in flags[t],
           "FINALIZED" \in fl[u] <=> "FINALIZED" \in flags[u]
    PROVE  [Lifecycle!LifecycleNext]_(Lifecycle!lifecycleVars)
<1>1. flags' = [fl EXCEPT ![u] = @ \cup {"FINALIZED"}]
    BY DestroyCall
<1>2. cleanups' = IF "FINALIZED" \in fl[u] THEN cleanups
                  ELSE [cleanups EXCEPT ![u] = @ + 1]
    BY DestroyCall
<1>3. SameActive
    BY <1>1 DEF FlagSets, SameActive
<1> QED
    BY <1>2, <1>3, LifeCleanup

\* An allocation that finds an owner, and one that does not.
LEMMA LifeCreate ==
    ASSUME SameActive, NEW t \in Tasks, mem[t] = "none",
           mem' = [mem EXCEPT ![t] = "live"], UNCHANGED cleanups
    PROVE  Lifecycle!LifecycleNext
BY ActiveStays DEF Lifecycle!LifecycleNext, Lifecycle!Create

\* A task whose registration fails is cleaned up at once.
LEMMA LifeCreateFails ==
    ASSUME TypeOK, NEW t \in Tasks, mem[t] = "none", mem' = [mem EXCEPT ![t] = "live"],
           NEW fl \in FlagSets, \A u \in Tasks : u # t => fl[u] = flags[u],
           fl[t] \subseteq {"PERSISTENT"}, flags[t] = {}, TaskDestroy(t, fl, stack)
    PROVE  Lifecycle!LifecycleNext
<1>0. stack \in Seq(Frame)
    BY DEF TypeOK
<1>1. flags' = [fl EXCEPT ![t] = @ \cup {"FINALIZED"}]
    BY <1>0, DestroyCall
<1>2. cleanups' = IF "FINALIZED" \in fl[t] THEN cleanups
                  ELSE [cleanups EXCEPT ![t] = @ + 1]
    BY <1>0, DestroyCall
<1>3. SameActive
    BY <1>1 DEF FlagSets, SameActive
<1>4. Lifecycle!CreateFails(t)
    BY <1>2, <1>3, ActiveStays DEF Lifecycle!CreateFails
<1> QED
    BY <1>4 DEF Lifecycle!LifecycleNext

\* What user code may call implements a step of the life cycle.
LEMMA UserOperationLife ==
    ASSUME MemInv, UserOperation
    PROVE  [Lifecycle!LifecycleNext]_(Lifecycle!lifecycleVars)
<1> USE DEF runVars, tickVars, tableVars
<1>0. /\ TypeOK /\ FlagInv /\ OwnerInv /\ DestroyIsolated /\ flags \in FlagSets
      /\ stack \in Seq(Frame)
    BY DEF MemInv, QueueInv, TableInv, StackInv, TypeOK, FlagSets
<1>1. ASSUME NEW t \in Tasks, Schedule(t) PROVE Lifecycle!LifecycleNext
    <2>1. mem[t] = "none" /\ mem' = [mem EXCEPT ![t] = "live"] /\ flags[t] = {}
        BY <1>0, <1>1 DEF Schedule, FlagInv
    <2>2. CASE Enqueue(t, TRUE) /\ UNCHANGED <<cleanups, stack>>
        <3> PICK ok \in BOOLEAN : Enqueue(t, ok)
            BY <2>2
        <3>1. SameActive
            BY <1>0, EnqueueActive
        <3> QED
            BY <2>1, <2>2, <3>1, LifeCreate
    <2>3. CASE TaskDestroy(t, flags, stack)
        BY <1>0, <2>1, <2>3, LifeCreateFails
    <2> QED
        BY <1>1, <2>2, <2>3 DEF Schedule
<1>2. ASSUME NEW t \in Tasks, NEW repeating \in BOOLEAN, SetTimer(t, repeating)
      PROVE  Lifecycle!LifecycleNext
    <2> DEFINE fl == [flags EXCEPT ![t] = IF repeating THEN {"PERSISTENT"} ELSE {}]
    <2>1. mem[t] = "none" /\ mem' = [mem EXCEPT ![t] = "live"] /\ flags[t] = {}
        BY <1>0, <1>2 DEF SetTimer, FlagInv
    <2>2. /\ fl \in FlagSets /\ fl[t] \subseteq {"PERSISTENT"}
          /\ \A u \in Tasks : u # t => fl[u] = flags[u]
        BY <1>0 DEF FlagSets, TaskFlag
    <2>3. CASE flags' = fl /\ UNCHANGED <<cleanups, stack>>
        <3>1. SameActive
            BY <2>1, <2>2, <2>3 DEF SameActive
        <3> QED
            BY <2>1, <2>3, <3>1, LifeCreate
    <2>4. CASE TaskDestroy(t, fl, stack)
        <3> HIDE DEF fl
        <3> QED
            BY <1>0, <2>1, <2>2, <2>4, LifeCreateFails
    <2> QED
        BY <1>2, <2>3, <2>4 DEF SetTimer
<1>3. ASSUME NEW t \in Tasks, NEW fd \in Fds, NEW events \in Masks, NEW mode \in Mode,
             WatchFd(t, fd, events, mode)
      PROVE  Lifecycle!LifecycleNext
    <2>1. mem[t] = "none" /\ mem' = [mem EXCEPT ![t] = "live"] /\ flags[t] = {}
        BY <1>0, <1>3 DEF WatchFd, FlagInv
    <2>2. PICK fl \in FlagSets : /\ fl = [flags EXCEPT ![t] = PersistentFlag(mode)]
                                 /\ fl[t] \subseteq {"PERSISTENT"}
                                 /\ \A u \in Tasks : u # t => fl[u] = flags[u]
        <3> DEFINE f == [flags EXCEPT ![t] = PersistentFlag(mode)]
        <3>1. /\ f \in FlagSets /\ f[t] \subseteq {"PERSISTENT"}
              /\ \A u \in Tasks : u # t => f[u] = flags[u]
            BY <1>0 DEF FlagSets, TaskFlag, PersistentFlag
        <3> QED
            BY <3>1
    <2>3. ASSUME NEW i \in 1 .. Len(watchers),
                 TaskCancel("cancel", watchers[i].task, fl, None, 0, stack)
          PROVE  Lifecycle!LifecycleNext
        <3>1. PICK u \in Tasks : u = watchers[i].task
            BY <1>0, ReferenceTypes
        <3>2. mem[u] # "none" /\ u # t
            BY <2>1, <3>1 DEF MemInv, QueueInv, RefersToAllocated
        <3>3. pc \in {"out", "loop"}
            BY <1>3 DEF WatchFd, UserCode
        <3>4. mem[u] = "live"
            BY <1>0, <3>1, <3>3 DEF OwnerInv, LiveWatcher, KeptFor
        <3>5. TaskCancel("cancel", u, fl, None, 0, stack)
            BY <2>3, <3>1
        <3>6. flags' = [fl EXCEPT ![u] = ((@ \cup {"CANCELLED"}) \ {"PERSISTENT"})
                                            \cup {"FINALIZED"}]
            BY <1>0, <3>5, CancelCall
        <3>7. cleanups' = IF "FINALIZED" \in fl[u] THEN cleanups
                          ELSE [cleanups EXCEPT ![u] = @ + 1]
            BY <1>0, <3>5, CancelCall
        <3>8. SameActive
            BY <2>1, <2>2, <3>6 DEF FlagSets, SameActive
        <3>9. CASE "FINALIZED" \in flags[u]
            <4>1. UNCHANGED cleanups
                BY <2>2, <3>2, <3>7, <3>9
            <4> QED
                BY <2>1, <3>8, <4>1, LifeCreate
        <3>10. CASE "FINALIZED" \notin flags[u]
            <4>1. cleanups[u] = 0 /\ cleanups' = [cleanups EXCEPT ![u] = @ + 1]
                BY <1>0, <2>2, <3>2, <3>7, <3>10 DEF FlagInv
            <4>2. Lifecycle!CreateReplacing(t, u)
                BY <2>1, <3>4, <3>8, <4>1, ActiveStays
                DEF Lifecycle!CreateReplacing, Lifecycle!Usable
            <4> QED
                BY <4>2 DEF Lifecycle!LifecycleNext
        <3> QED
            BY <3>9, <3>10
    <2>4. CASE WatchReplace(t, fd, events, mode)
        BY <2>2, <2>3, <2>4 DEF WatchReplace, ExactAt
    <2>5. CASE WatchAppend(t, fd, events, mode)
        <3>1. SameActive /\ UNCHANGED cleanups
            BY <2>1, <2>2, <2>5 DEF WatchAppend, SameActive
        <3> QED
            BY <2>1, <3>1, LifeCreate
    <2>6. CASE WatchFail(t, fd, events)
        <3>1. TaskDestroy(t, flags, stack)
            BY <2>6 DEF WatchFail
        <3> QED
            BY <1>0, <2>1, <3>1, LifeCreateFails
    <2> QED
        BY <1>3, <2>4, <2>5, <2>6 DEF WatchFd
<1>4. ASSUME NEW t \in Tasks, CancelTask(t)
      PROVE  [Lifecycle!LifecycleNext]_(Lifecycle!lifecycleVars)
    <2>1. mem[t] = "live" /\ UNCHANGED mem /\ TaskCancel("cancel", t, flags, None, 0, stack)
        BY <1>4 DEF CancelTask
    <2>2. flags' = [flags EXCEPT ![t] = ((@ \cup {"CANCELLED"}) \ {"PERSISTENT"})
                                            \cup {"FINALIZED"}]
        BY <1>0, <2>1, CancelCall
    <2>3. cleanups' = IF "FINALIZED" \in flags[t] THEN cleanups
                      ELSE [cleanups EXCEPT ![t] = @ + 1]
        BY <1>0, <2>1, CancelCall
    <2>4. SameActive
        BY <1>0, <2>2 DEF FlagSets, SameActive
    <2> QED
        BY <1>0, <2>1, <2>3, <2>4, LifeCleanup
<1>5. CASE \/ \E fd \in Fds : UnwatchFd(fd)
           \/ \E on \in BOOLEAN : SetRunning(on)
           \/ Run
    BY <1>5, LifeStays DEF UnwatchFd, SetRunning, Run, SameActive
<1> QED
    BY <1>1, <1>2, <1>3, <1>4, <1>5 DEF UserOperation

\* What goes on after a callback implements a step of the life cycle.
LEMMA ReturnLife ==
    ASSUME MemInv, Return
    PROVE  [Lifecycle!LifecycleNext]_(Lifecycle!lifecycleVars)
<1> USE DEF runVars, tickVars, tableVars
<1>0. /\ TypeOK /\ FlagInv /\ OwnerInv /\ DestroyIsolated /\ flags \in FlagSets
      /\ RunningShape /\ FrameShape /\ FramesLive
    BY DEF MemInv, QueueInv, TableInv, StackInv, TypeOK, FlagSets
<1>1. ASSUME stack # <<>>
      PROVE  /\ Len(stack) \in 1 .. Len(stack) /\ Top = stack[Len(stack)]
             /\ Top \in Frame /\ Caller \in Seq(Frame) /\ Len(Caller) = Len(stack) - 1
    BY <1>0, <1>1, StackFacts
<1>2. CASE ReturnDestroy
    <2>1. /\ stack # <<>> /\ Top.kind = "destroy"
          /\ mem' = [mem EXCEPT ![Top.task] = "freed"] /\ UNCHANGED <<flags, cleanups>>
        BY <1>2 DEF ReturnDestroy
    <2>2. PICK x \in Tasks : x = Top.task
        BY <1>0, <1>1, <2>1, FrameTypes
    <2>3. /\ "FINALIZED" \in flags[x] /\ mem[x] = "live"
          /\ \A k \in 1 .. Len(stack) : k # Len(stack) => stack[k].task # x
        BY <1>0, <1>1, <2>1, <2>2, RuntimeAssumption DEF DestroyIsolated, FramesLive
    <2>4. "RUNNING" \notin flags[x]
        BY <1>0, <1>1, <2>1, <2>3 DEF RunningShape
    <2>5. SameActive
        BY <2>1 DEF SameActive
    <2>6. cleanups[x] = 1
        BY <1>0, <2>3 DEF FlagInv
    <2>7. Lifecycle!Free(x)
        BY <2>1, <2>2, <2>3, <2>4, <2>5, <2>6, ActiveStays DEF Lifecycle!Free
    <2> QED
        BY <2>7 DEF Lifecycle!LifecycleNext
<1>3. CASE ReturnCancel
    <2>1. PICK x \in Tasks : x = Top.task
        BY <1>0, <1>1, <1>3, FrameTypes DEF ReturnCancel
    <2>2. PICK ok \in BOOLEAN : Enqueue(x, ok)
        BY <1>3, <2>1 DEF ReturnCancel, AllocResult
    <2> QED
        BY <1>0, <1>3, <2>2, EnqueueActive, LifeStays DEF ReturnCancel
<1>4. CASE UnwatchScan
    <2>1. stack # <<>> /\ Top.kind = "unwatch" /\ UNCHANGED mem
        BY <1>4 DEF UnwatchScan
    <2>2. CASE UNCHANGED <<flags, cleanups>>
        BY <2>1, <2>2, LifeStays DEF SameActive
    <2>3. ASSUME NEW w \in Top.at .. Len(watchers),
                 TaskCancel("unwatch", watchers[w].task, flags, Top.fd, w, Caller)
          PROVE  [Lifecycle!LifecycleNext]_(Lifecycle!lifecycleVars)
        <3>1. Top.at \in Nat /\ Top.at >= 1 /\ Top.fd \in Fds \cup {None}
            BY <1>1, <2>1 DEF Frame
        <3>2. w \in 1 .. Len(watchers) /\ w \in Nat /\ w >= 1
            BY <1>0, <2>3, <3>1, LenProperties DEF TypeOK
        <3>3. PICK u \in Tasks : u = watchers[w].task
            BY <1>0, <3>2, ReferenceTypes
        <3>4. pc \notin DestroyPhase
            BY <2>1, CallPhase
        <3>5. mem[u] = "live"
            BY <1>0, <3>2, <3>3, <3>4 DEF OwnerInv, LiveWatcher, KeptFor, DestroyPhase
        <3>6. PICK fd \in Fds \cup {None} : TaskCancel("unwatch", u, flags, fd, w, Caller)
            BY <2>3, <3>1, <3>3
        <3>7. flags' = [flags EXCEPT ![u] = ((@ \cup {"CANCELLED"}) \ {"PERSISTENT"})
                                                \cup {"FINALIZED"}]
            BY <1>0, <1>1, <2>1, <3>2, <3>6, CancelCall
        <3>8. cleanups' = IF "FINALIZED" \in flags[u] THEN cleanups
                          ELSE [cleanups EXCEPT ![u] = @ + 1]
            BY <1>0, <1>1, <2>1, <3>2, <3>6, CancelCall
        <3>9. SameActive
            BY <1>0, <3>7 DEF FlagSets, SameActive
        <3> QED
            BY <1>0, <2>1, <3>5, <3>8, <3>9, LifeCleanup
    <2> QED
        BY <1>4, <2>2, <2>3 DEF UnwatchScan
<1>5. CASE UnwatchRemove
    <2>1. PICK x \in Tasks : x = Top.task
        BY <1>0, <1>1, <1>5 DEF UnwatchRemove, Frame
    <2>2. PICK ok \in BOOLEAN : Enqueue(x, ok)
        BY <1>5, <2>1 DEF UnwatchRemove, AllocResult
    <2> QED
        BY <1>0, <1>5, <2>2, EnqueueActive, LifeStays DEF UnwatchRemove
<1>6. CASE ReturnRun
    <2>1. stack # <<>> /\ Top.kind = "run" /\ UNCHANGED mem
        BY <1>6 DEF ReturnRun
    <2>2. PICK x \in Tasks : x = Top.task
        BY <1>0, <1>1, <2>1, FrameTypes
    <2>3. Len(stack) = 1 /\ stack[1].task = x /\ "RUNNING" \in flags[x] /\ mem[x] = "live"
        BY <1>0, <1>1, <2>1, <2>2, RuntimeAssumption DEF FrameShape, FramesLive
    <2>4. PICK fl \in FlagSets : /\ Reap(x, fl, Caller)
                                 /\ fl[x] = flags[x] \ {"RUNNING"}
                                 /\ \A v \in Tasks : v # x => fl[v] = flags[v]
        <3> DEFINE f == [flags EXCEPT ![x] = @ \ {"RUNNING"}]
        <3>1. f \in FlagSets /\ f[x] = flags[x] \ {"RUNNING"}
              /\ \A v \in Tasks : v # x => f[v] = flags[v]
            BY <1>0 DEF FlagSets
        <3>2. Reap(x, f, Caller)
            BY <1>6, <2>2 DEF ReturnRun
        <3> HIDE DEF f
        <3> QED
            BY <3>1, <3>2
    <2>5. \A t \in Tasks : "RUNNING" \notin fl[t]
        BY <1>0, <2>3, <2>4 DEF RunningShape
    <2>6. /\ \A t \in Tasks : "RUNNING" \notin flags'[t]
          /\ \/ UNCHANGED cleanups
             \/ cleanups[x] = 0 /\ cleanups' = [cleanups EXCEPT ![x] = 1]
        <3>1. CASE flags' = fl /\ UNCHANGED cleanups
            BY <2>5, <3>1
        <3>2. CASE TaskDestroy(x, fl, Caller)
            <4>1. flags' = [fl EXCEPT ![x] = @ \cup {"FINALIZED"}]
                BY <1>0, <1>1, <2>1, <3>2, DestroyCall
            <4>2. cleanups' = IF "FINALIZED" \in fl[x] THEN cleanups
                              ELSE [cleanups EXCEPT ![x] = @ + 1]
                BY <1>0, <1>1, <2>1, <3>2, DestroyCall
            <4>3. "FINALIZED" \notin fl[x] => cleanups[x] = 0 /\ cleanups[x] + 1 = 1
                BY <1>0, <2>4 DEF FlagInv
            <4>4. \A t \in Tasks : "RUNNING" \notin flags'[t]
                BY <2>5, <4>1 DEF FlagSets
            <4> QED
                BY <4>2, <4>3, <4>4
        <3> QED
            BY <2>4, <3>1, <3>2 DEF Reap
    <2>7. Lifecycle!Finish(x)
        BY <2>1, <2>3, <2>6 DEF Lifecycle!Finish
    <2> QED
        BY <2>7 DEF Lifecycle!LifecycleNext
<1> QED
    BY <1>2, <1>3, <1>4, <1>5, <1>6 DEF Return

\* The phases of bb_runtime_tick implement steps of the life cycle.
LEMMA TickLife ==
    ASSUME MemInv, PollerWait \/ TickStep \/ RunReturns
    PROVE  [Lifecycle!LifecycleNext]_(Lifecycle!lifecycleVars)
<1> USE DEF runVars, tickVars, tableVars
<1>0. /\ TypeOK /\ FlagInv /\ flags \in FlagSets /\ stack \in Seq(Frame)
    BY DEF MemInv, QueueInv, TableInv, TypeOK, FlagSets
<1>1. CASE PollerWait \/ DispatchDone \/ TimersDone \/ TickDone \/ RunReturns
    BY <1>1, LifeStays
    DEF PollerWait, DispatchDone, TimersDone, TickDone, RunReturns, SameActive
<1>2. CASE Dispatch
    <2>1. UNCHANGED <<mem, cleanups>>
        BY <1>2 DEF Dispatch
    <2>2. CASE UNCHANGED flags
        BY <2>1, <2>2, LifeStays DEF SameActive
    <2>3. ASSUME NEW i \in pos .. Len(watchers), WakeWatcher(i)
          PROVE  [Lifecycle!LifecycleNext]_(Lifecycle!lifecycleVars)
        <3>1. i \in 1 .. Len(watchers)
            BY <1>0, <2>3, LenProperties DEF TypeOK
        <3>2. PICK x \in Tasks : x = watchers[i].task
            BY <1>0, <3>1, ReferenceTypes
        <3>3. PICK ok \in BOOLEAN : Enqueue(x, ok)
            BY <2>3, <3>2 DEF WakeWatcher, AllocResult
        <3> QED
            BY <1>0, <2>1, <3>3, EnqueueActive, LifeStays
    <2> QED
        BY <1>2, <2>2, <2>3 DEF Dispatch
<1>3. ASSUME NEW timer \in Timer, FireTimer(timer)
      PROVE  [Lifecycle!LifecycleNext]_(Lifecycle!lifecycleVars)
    <2>1. PICK x \in Tasks : x = timer.task
        BY DEF Timer
    <2>2. PICK ok \in BOOLEAN : Enqueue(x, ok)
        BY <1>3, <2>1 DEF FireTimer, AllocResult
    <2> QED
        BY <1>0, <1>3, <2>2, EnqueueActive, LifeStays DEF FireTimer
<1>4. CASE RunNext
    <2>1. stack = <<>> /\ queue # <<>> /\ UNCHANGED mem
        BY <1>4 DEF RunNext
    <2>2. \A v \in Tasks : ~ Destroying(v) /\ "RUNNING" \notin flags[v]
        BY <2>1, QuietFacts
    <2>3. PICK x \in Tasks : x = Head(queue) /\ "SCHEDULED" \in flags[x]
        <3>1. Head(queue) = queue[1] /\ 1 \in 1 .. Len(queue)
            BY <1>0, <2>1, EmptySeq, LenProperties, HeadTailProperties DEF TypeOK
        <3> QED
            BY <1>0, <3>1, ReferenceTypes DEF MemInv, QueueInv, ScheduledOnce
    <2>4. mem[x] = "live"
        BY <1>0, <2>3 DEF FlagInv
    <2>5. PICK fl \in FlagSets : /\ fl = [flags EXCEPT ![x] = @ \ {"SCHEDULED"}]
                                 /\ fl[x] = flags[x] \ {"SCHEDULED"}
                                 /\ \A v \in Tasks : v # x => fl[v] = flags[v]
        BY <1>0, PoppedFlags
    <2>6. \A v \in Tasks : "RUNNING" \in fl[v] <=> "RUNNING" \in flags[v]
        BY <2>5
    <2>7. CASE Reap(x, fl, stack)
        <3>1. CASE TaskDestroy(x, fl, stack)
            BY <1>0, <2>1, <2>4, <2>5, <2>6, <3>1, LifeDestroy
        <3>2. CASE flags' = fl /\ UNCHANGED cleanups
            BY <2>1, <2>6, <3>2, LifeStays DEF SameActive
        <3> QED
            BY <2>7, <3>1, <3>2 DEF Reap
    <2>8. CASE /\ "CANCELLED" \notin flags[x]
               /\ flags' = [fl EXCEPT ![x] = @ \cup {"RUNNING"}]
               /\ UNCHANGED cleanups
        <3>1. "RUNNING" \in flags'[x] /\ \A v \in Tasks : v # x => "RUNNING" \notin flags'[v]
            BY <2>2, <2>5, <2>8 DEF FlagSets
        <3>2. cleanups[x] = 0
            BY <1>0, <2>2, <2>4, <2>8 DEF FlagInv
        <3>3. Lifecycle!Start(x)
            BY <2>1, <2>2, <2>4, <2>8, <3>1, <3>2 DEF Lifecycle!Start, Lifecycle!Usable
        <3> QED
            BY <3>3 DEF Lifecycle!LifecycleNext
    <2> QED
        BY <1>4, <2>3, <2>5, <2>7, <2>8 DEF RunNext
<1> QED
    BY <1>1, <1>2, <1>3, <1>4 DEF TickStep

\* The loops of bb_runtime_destroy implement steps of the life cycle.
LEMMA DestroyLife ==
    ASSUME MemInv, DestroyRuntime \/ DestroyStep
    PROVE  [Lifecycle!LifecycleNext]_(Lifecycle!lifecycleVars)
<1> USE DEF runVars, tickVars, tableVars
<1>0. /\ TypeOK /\ FlagInv /\ OwnerInv /\ DueInv /\ flags \in FlagSets
      /\ stack \in Seq(Frame) /\ Len(watchers) \in Nat /\ pos \in Nat \ {0}
    BY LenProperties DEF MemInv, QueueInv, TableInv, TypeOK, FlagSets
<1>1. CASE DestroyRuntime \/ DrainQueueDone \/ DrainWatchersDone \/ DrainTimersDone
    BY <1>1, LifeStays
    DEF DestroyRuntime, DrainQueueDone, DrainWatchersDone, DrainTimersDone, SameActive
<1>2. CASE DrainQueue
    <2>1. stack = <<>> /\ queue # <<>> /\ UNCHANGED mem
        BY <1>2 DEF DrainQueue
    <2>2. PICK x \in Tasks : x = Head(queue) /\ "SCHEDULED" \in flags[x]
        <3>1. Head(queue) = queue[1] /\ 1 \in 1 .. Len(queue)
            BY <1>0, <2>1, EmptySeq, LenProperties, HeadTailProperties DEF TypeOK
        <3> QED
            BY <1>0, <3>1, ReferenceTypes DEF MemInv, QueueInv, ScheduledOnce
    <2>3. mem[x] = "live"
        BY <1>0, <2>2 DEF FlagInv
    <2>4. PICK fl \in FlagSets : /\ fl = [flags EXCEPT ![x] = @ \ {"SCHEDULED"}]
                                 /\ fl[x] = flags[x] \ {"SCHEDULED"}
                                 /\ \A v \in Tasks : v # x => fl[v] = flags[v]
        BY <1>0, PoppedFlags
    <2>5. \A v \in Tasks : "RUNNING" \in fl[v] <=> "RUNNING" \in flags[v]
        BY <2>4
    <2>6. CASE flags' = fl /\ UNCHANGED cleanups
        BY <2>1, <2>5, <2>6, LifeStays DEF SameActive
    <2>7. CASE TaskDestroy(x, fl, stack)
        BY <1>0, <2>1, <2>3, <2>4, <2>5, <2>7, LifeDestroy
    <2> QED
        BY <1>2, <2>2, <2>4, <2>6, <2>7 DEF DrainQueue
<1>3. CASE DrainWatchers
    <2>1. /\ TaskDestroy(watchers[pos].task, flags, stack) /\ UNCHANGED mem
          /\ pos \in 1 .. Len(watchers) /\ pc = "destroyWatchers"
        BY <1>0, <1>3 DEF DrainWatchers
    <2>2. PICK x \in Tasks : x = watchers[pos].task
        BY <1>0, <2>1, ReferenceTypes
    <2>3. mem[x] = "live"
        BY <1>0, <2>1, <2>2 DEF OwnerInv, LiveWatcher, KeptFor
    <2> QED
        BY <1>0, <2>1, <2>2, <2>3, LifeDestroy
<1>4. ASSUME NEW timer \in Timer, DrainTimers(timer)
      PROVE  [Lifecycle!LifecycleNext]_(Lifecycle!lifecycleVars)
    <2>1. /\ TaskDestroy(timer.task, flags, stack) /\ UNCHANGED mem
          /\ timer \in due /\ pc = "destroyTimers"
        BY <1>4 DEF DrainTimers
    <2>2. PICK x \in Tasks : x = timer.task
        BY DEF Timer
    <2>3. mem[x] = "live"
        BY <1>0, <2>1, <2>2 DEF DueInv, OwnerInv, LiveTimer, KeptFor
    <2> QED
        BY <1>0, <2>1, <2>2, <2>3, LifeDestroy
<1> QED
    BY <1>1, <1>2, <1>3, <1>4 DEF DestroyStep

\* The runtime implements TaskLifecycle: cleanup once, no run after it, freed
\* once afterwards and never while running.
THEOREM LifecycleImplemented ==
    ASSUME ~ ReentrantUnwatch
    PROVE  Spec => KeepsLifecycle
<1>1. Init => Lifecycle!LifecycleInit
    BY DEF Init, Lifecycle!LifecycleInit
<1>2. MemInv /\ [Next]_vars => [Lifecycle!LifecycleNext]_(Lifecycle!lifecycleVars)
    <2>1. CASE MemInv /\ (UNCHANGED vars \/ Gone)
        BY <2>1, LifeStays DEF vars, Gone, SameActive
    <2> QED
        BY <2>1, UserOperationLife, ReturnLife, TickLife, DestroyLife DEF Next
<1>3. Spec => []MemInv
    BY MemoryInvariant
<1> QED
    BY <1>1, <1>2, <1>3, PTL DEF Spec, KeepsLifecycle, Lifecycle!LifecycleSpec

-----------------------------------------------------------------------------
(* No leak: every task that is allocated will be found again *)

Watched(t) == \E i \in 1 .. Len(watchers) : watchers[i].task = t
Timed(t) == \E timer \in timers : timer.task = t
InCall(t) == \E i \in 1 .. Len(stack) : stack[i].task = t

\* A persistent watcher or a repeating timer owns t.
KeptAlive(t) ==
    \/ \E i \in 1 .. Len(watchers) : watchers[i].task = t /\ watchers[i].mode = "PERSISTENT"
    \/ \E timer \in timers : timer.task = t /\ timer.repeating

\* A task is found again through the queue, its owner or a call in progress; the
\* reaping leaves it alone only if a persistent owner does keep it, and a call
\* that cancels it has taken that mark away.
FoundAgain(t) ==
    mem[t] = "live" =>
        /\ "SCHEDULED" \in flags[t] \/ Watched(t) \/ Timed(t) \/ InCall(t)
        /\ "PERSISTENT" \in flags[t] => KeptAlive(t)
        /\ Cancelling(t) => "PERSISTENT" \notin flags[t]

\* What the shutdown has behind it: the queue, then the watchers, then the
\* timers.  The entries that a loop has passed have no live task.
ShutdownInv ==
    /\ pc = "destroyWatchers" =>
          \A i \in 1 .. Len(watchers) : i < pos =>
              mem[watchers[i].task] = "freed" \/ Destroying(watchers[i].task)
    /\ pc = "destroyTimers" =>
          \A timer \in timers \ due : mem[timer.task] = "freed" \/ Destroying(timer.task)
    /\ pc \in {"destroyTimers", "gone"} => Len(watchers) = 0
    /\ pc = "gone" => timers = {} /\ \A t \in Tasks : "SCHEDULED" \notin flags[t]

LeakInv == ShutdownInv /\ \A t \in Tasks : FoundAgain(t)

AllFreed == pc = "gone" => \A t \in Tasks : mem[t] # "live"

\* The owners of t stay.
OwnersKept(t) ==
    /\ \A i \in 1 .. Len(watchers) : watchers[i].task = t =>
          \E k \in 1 .. Len(watchers') : watchers'[k] = watchers[i]
    /\ \A timer \in timers : timer.task = t => timer \in timers'

\* A task whose owners stay is watched, timed and kept alive as before.
LEMMA OwnersKeptFacts ==
    ASSUME NEW t, OwnersKept(t)
    PROVE  /\ Watched(t) => Watched(t)'
           /\ Timed(t) => Timed(t)'
           /\ KeptAlive(t) => KeptAlive(t)'
<1>1. Watched(t) => Watched(t)'
    BY DEF OwnersKept, Watched
<1>2. Timed(t) => Timed(t)'
    BY DEF OwnersKept, Timed
<1>3. KeptAlive(t) => KeptAlive(t)'
    BY DEF OwnersKept, KeptAlive
<1> QED
    BY <1>1, <1>2, <1>3

\* A task that a step leaves alone, or that it only queues.
LEMMA FoundStays ==
    ASSUME NEW t, FoundAgain(t), OwnersKept(t), mem'[t] = "live" => mem[t] = "live",
           "SCHEDULED" \in flags[t] => "SCHEDULED" \in flags'[t],
           "PERSISTENT" \in flags'[t] => "PERSISTENT" \in flags[t],
           InCall(t) => InCall(t)', Cancelling(t)' => Cancelling(t)
    PROVE  FoundAgain(t)'
BY OwnersKeptFacts DEF FoundAgain

\* Calls in progress that stay: none is added that would cancel t.
LEMMA CallsStay ==
    ASSUME UNCHANGED stack, NEW t
    PROVE  (InCall(t) => InCall(t)') /\ (Cancelling(t)' => Cancelling(t))
BY DEF InCall, Cancelling

\* Steps that leave the owners alone.
LEMMA OwnersUnchanged ==
    ASSUME UNCHANGED <<watchers, timers>>, NEW t
    PROVE  OwnersKept(t)
BY DEF OwnersKept

\* Outside the loops of the shutdown there is nothing to keep of them.
LEMMA ShutdownElsewhere ==
    ASSUME pc' \notin {"destroyWatchers", "destroyTimers", "gone"}
    PROVE  ShutdownInv'
BY DEF ShutdownInv

\* A new task that is queued or that has its owner.
LEMMA NewTaskLeak ==
    ASSUME MemInv, LeakInv, NEW t \in Tasks, mem[t] = "none",
           mem' = [mem EXCEPT ![t] = "live"],
           \A u \in Tasks : u # t => flags'[u] = flags[u] /\ OwnersKept(u),
           "SCHEDULED" \in flags'[t] \/ Watched(t)' \/ Timed(t)',
           "PERSISTENT" \in flags'[t] => KeptAlive(t)',
           pc \in {"out", "loop"}, UNCHANGED <<pc, stack>>
    PROVE  LeakInv'
<1>1. mem \in [Tasks -> {"none", "live", "freed"}]
    BY DEF MemInv, QueueInv, TypeOK
<1>2. ~ Cancelling(t)
    BY FreshFacts
<1>3. FoundAgain(t)'
    BY <1>2, CallsStay DEF FoundAgain
<1>4. ASSUME NEW u \in Tasks, u # t
      PROVE  FoundAgain(u)'
    BY <1>1, <1>4, CallsStay, FoundStays DEF LeakInv
<1> QED
    BY <1>3, <1>4, ShutdownElsewhere DEF LeakInv

\* bb_runtime_schedule_ex queues the task it allocates.
LEMMA ScheduleLeak ==
    ASSUME MemInv, LeakInv, ~ AllocMayFail, ~ ReentrantUnwatch, NEW t \in Tasks, Schedule(t)
    PROVE  LeakInv'
<1> USE DEF runVars, tickVars, tableVars
<1>1. /\ pc \in {"out", "loop"} /\ mem[t] = "none" /\ mem' = [mem EXCEPT ![t] = "live"]
      /\ Enqueue(t, TRUE) /\ UNCHANGED <<watchers, timers, pc, stack>>
    BY UserFacts DEF Schedule, AllocResult
<1>2. flags[t] = {} /\ flags \in FlagSets
    BY <1>1, FreshFacts DEF MemInv, QueueInv, TypeOK, FlagSets
<1>3. flags'[t] = {"SCHEDULED"} /\ \A u \in Tasks : u # t => flags'[u] = flags[u]
    BY <1>1, <1>2 DEF Enqueue, FlagSets
<1> QED
    BY <1>1, <1>3, OwnersUnchanged, NewTaskLeak

\* A timer owns the task that is allocated for it.
LEMMA SetTimerLeak ==
    ASSUME MemInv, LeakInv, ~ AllocMayFail, ~ ReentrantUnwatch, NEW t \in Tasks,
           NEW repeating \in BOOLEAN, SetTimer(t, repeating)
    PROVE  LeakInv'
<1> USE DEF runVars, tickVars, tableVars
<1>1. /\ pc \in {"out", "loop"} /\ mem[t] = "none" /\ mem' = [mem EXCEPT ![t] = "live"]
      /\ timers' = timers \cup {[task |-> t, repeating |-> repeating]}
      /\ flags' = [flags EXCEPT ![t] = IF repeating THEN {"PERSISTENT"} ELSE {}]
      /\ UNCHANGED <<watchers, pc, stack>>
    BY UserFacts DEF SetTimer, AllocResult
<1>2. flags \in FlagSets
    BY DEF MemInv, QueueInv, TypeOK, FlagSets
<1>3. /\ flags'[t] = (IF repeating THEN {"PERSISTENT"} ELSE {})
      /\ \A u \in Tasks : u # t => flags'[u] = flags[u]
    BY <1>1, <1>2 DEF FlagSets
<1>4. \A u \in Tasks : OwnersKept(u)
    BY <1>1 DEF OwnersKept
<1>5. Timed(t)' /\ ("PERSISTENT" \in flags'[t] => KeptAlive(t)')
    <2> DEFINE new == [task |-> t, repeating |-> repeating]
    <2>1. new \in timers' /\ new.task = t /\ new.repeating = repeating
        BY <1>1
    <2> HIDE DEF new
    <2> QED
        BY <1>3, <2>1 DEF Timed, KeptAlive
<1> QED
    BY <1>1, <1>3, <1>4, <1>5, NewTaskLeak

\* The new watcher owns the task that is allocated for it.
LEMMA WatchAppendLeak ==
    ASSUME MemInv, LeakInv, NEW t \in Tasks, NEW fd \in Fds, NEW events \in Masks,
           NEW mode \in Mode, mem[t] = "none", mem' = [mem EXCEPT ![t] = "live"],
           pc \in {"out", "loop"}, WatchAppend(t, fd, events, mode), UNCHANGED <<timers, pc>>
    PROVE  LeakInv'
<1> DEFINE entry == [fd |-> fd, events |-> events, mode |-> mode, task |-> t]
           n == Len(watchers)
<1>0. flags \in FlagSets /\ watchers \in Seq(Watcher)
    BY DEF MemInv, QueueInv, TypeOK, FlagSets
<1>1. entry \in Watcher /\ entry.task = t /\ entry.mode = mode
    BY RuntimeAssumption DEF Watcher
<1>2. watchers' = Append(watchers, entry) /\ UNCHANGED stack
    BY DEF WatchAppend
<1>3. /\ flags'[t] = PersistentFlag(mode)
      /\ \A u \in Tasks : u # t => flags'[u] = flags[u]
    BY <1>0 DEF WatchAppend, FlagSets
<1> HIDE DEF entry
<1>4. /\ n \in Nat /\ n + 1 \in 1 .. Len(watchers') /\ watchers'[n + 1] = entry
      /\ \A i \in 1 .. n : i \in 1 .. Len(watchers') /\ watchers'[i] = watchers[i]
    <2>1. /\ n \in Nat /\ Len(watchers') = n + 1 /\ watchers'[n + 1] = entry
          /\ \A i \in 1 .. n : watchers'[i] = watchers[i]
        BY <1>0, <1>1, <1>2, AppendProperties, LenProperties
    <2> HIDE DEF n
    <2> QED BY <2>1
<1>5. \A u \in Tasks : OwnersKept(u)
    BY <1>4 DEF OwnersKept
<1>6. Watched(t)' /\ ("PERSISTENT" \in flags'[t] => KeptAlive(t)')
    BY <1>1, <1>3, <1>4 DEF Watched, KeptAlive, PersistentFlag
<1> QED
    BY <1>2, <1>3, <1>5, <1>6, NewTaskLeak

\* The cancelled task is in the call that cancels it; the others are as before.
LEMMA CancelLeak ==
    ASSUME MemInv, LeakInv, NEW u \in Tasks, NEW fl \in FlagSets,
           TaskCancel("cancel", u, fl, None, 0, stack)
    PROVE  /\ FoundAgain(u)'
           /\ \A v \in Tasks : v # u => flags'[v] = fl[v] /\ (Cancelling(v)' => Cancelling(v))
           /\ \A v \in Tasks : v # u /\ fl[v] = flags[v] /\ OwnersKept(v) /\ mem'[v] = mem[v]
                                   => FoundAgain(v)'
<1>0. TypeOK
    BY DEF MemInv, QueueInv
<1>1. /\ flags'[u] = ((fl[u] \cup {"CANCELLED"}) \ {"PERSISTENT"}) \cup {"FINALIZED"}
      /\ \A v \in Tasks : v # u => flags'[v] = fl[v]
    BY <1>0, CancelPushed
<1>2. /\ \A i \in 1 .. Len(stack) : i \in 1 .. Len(stack') /\ stack'[i] = stack[i]
      /\ stack'[Len(stack) + 1].task = u /\ Len(stack) + 1 \in 1 .. Len(stack')
      /\ \A i \in 1 .. Len(stack') : i \in 1 .. Len(stack) \/ i = Len(stack) + 1
    BY <1>0, CancelPushed
<1>3. FoundAgain(u)'
    BY <1>1, <1>2 DEF FoundAgain, InCall
<1>4. \A v : (InCall(v) => InCall(v)') /\ (v # u => (Cancelling(v)' => Cancelling(v)))
    BY <1>2 DEF InCall, Cancelling
<1>5. ASSUME NEW v \in Tasks, v # u, fl[v] = flags[v], OwnersKept(v), mem'[v] = mem[v]
      PROVE  FoundAgain(v)'
    BY <1>1, <1>4, <1>5, FoundStays DEF LeakInv
<1> QED
    BY <1>1, <1>3, <1>4, <1>5

\* bb_runtime_cancel_task takes the PERSISTENT mark away.
LEMMA CancelTaskLeak ==
    ASSUME MemInv, LeakInv, ~ ReentrantUnwatch, NEW t \in Tasks, CancelTask(t)
    PROVE  LeakInv'
<1> USE DEF runVars, tickVars, tableVars
<1>1. /\ pc \in {"out", "loop"} /\ TaskCancel("cancel", t, flags, None, 0, stack)
      /\ UNCHANGED <<mem, watchers, timers, pc>>
    BY UserFacts DEF CancelTask
<1>2. flags \in FlagSets
    BY DEF MemInv, QueueInv, TypeOK, FlagSets
<1>3. \A v \in Tasks : FoundAgain(v)'
    BY <1>1, <1>2, CancelLeak, OwnersUnchanged
<1> QED
    BY <1>1, <1>3, ShutdownElsewhere DEF LeakInv

\* The task that loses its watcher waits for its cleanup in the cancelling call.
LEMMA WatchReplaceLeak ==
    ASSUME MemInv, TypeOK', LeakInv, NEW t \in Tasks, NEW fd \in Fds, NEW events \in Masks,
           NEW mode \in Mode, mem[t] = "none", mem' = [mem EXCEPT ![t] = "live"],
           pc \in {"out", "loop"}, WatchReplace(t, fd, events, mode), UNCHANGED <<timers, pc>>
    PROVE  LeakInv'
<1> DEFINE n == Len(watchers)
<1>0. TypeOK /\ flags \in FlagSets /\ watchers \in Seq(Watcher)
      /\ mem \in [Tasks -> {"none", "live", "freed"}]
    BY DEF MemInv, QueueInv, TypeOK, FlagSets
<1>1. PICK i \in 1 .. n :
          /\ watchers' = [watchers EXCEPT ![i] = [@ EXCEPT !.mode = mode, !.task = t]]
          /\ TaskCancel("cancel", watchers[i].task,
                        [flags EXCEPT ![t] = PersistentFlag(mode)], None, 0, stack)
    BY DEF WatchReplace, ExactAt
<1>2. /\ i \in 1 .. Len(watchers') /\ watchers'[i].task = t /\ watchers'[i].mode = mode
      /\ \A k \in 1 .. n : k # i => k \in 1 .. Len(watchers') /\ watchers'[k] = watchers[k]
    <2>1. n \in Nat /\ watchers \in [1 .. n -> Watcher]
        BY <1>0, LenProperties, ElementOfSeq
    <2>2. Len(watchers') = n
        BY <1>0, <1>1, ExceptSeq, TypeOK' DEF TypeOK
    <2>3. watchers[i] \in Watcher
        BY <2>1
    <2> QED
        BY <1>1, <2>1, <2>2, <2>3 DEF Watcher
<1>3. PICK u \in Tasks : u = watchers[i].task /\ u # t
    BY <1>0, FreshFacts, ReferenceTypes
<1>4. PICK fl \in FlagSets : /\ TaskCancel("cancel", u, fl, None, 0, stack)
                             /\ fl[t] = PersistentFlag(mode)
                             /\ \A v \in Tasks : v # t => fl[v] = flags[v]
    BY <1>0, <1>1, <1>3 DEF FlagSets, TaskFlag, PersistentFlag
<1>5. mem'[t] = "live" /\ \A v \in Tasks : v # t => mem'[v] = mem[v]
    BY <1>0
<1>6. \A v \in Tasks : v # u => OwnersKept(v)
    BY <1>2, <1>3 DEF OwnersKept
<1>7. FoundAgain(u)' /\ \A v \in Tasks : v # u /\ v # t => FoundAgain(v)'
    BY <1>4, <1>5, <1>6, CancelLeak
<1>8. FoundAgain(t)'
    <2>1. flags'[t] = PersistentFlag(mode) /\ ~ Cancelling(t)'
        BY <1>3, <1>4, FreshFacts, CancelLeak
    <2>2. Watched(t)' /\ (mode = "PERSISTENT" => KeptAlive(t)')
        BY <1>2 DEF Watched, KeptAlive
    <2> QED
        BY <2>1, <2>2 DEF FoundAgain, PersistentFlag
<1> QED
    BY <1>7, <1>8, ShutdownElsewhere DEF LeakInv

\* bb_runtime_unwatch_fd begins.
LEMMA UnwatchFdLeak ==
    ASSUME MemInv, LeakInv, ~ ReentrantUnwatch, NEW fd \in Fds, UnwatchFd(fd)
    PROVE  LeakInv'
<1> USE DEF runVars, tickVars, tableVars
<1> DEFINE frame == [kind |-> "unwatch", task |-> None, cb |-> FALSE, fd |-> fd, at |-> 1]
<1>0. stack \in Seq(Frame)
    BY DEF MemInv, QueueInv, TypeOK
<1>1. /\ pc \in {"out", "loop"} /\ stack' = Append(stack, frame)
      /\ UNCHANGED <<mem, flags, watchers, timers, pc>>
    BY UserFacts DEF UnwatchFd
<1>2. frame \in Frame /\ frame.task = None
    BY DEF Frame
<1> HIDE DEF frame
<1>3. /\ \A i \in 1 .. Len(stack) : i \in 1 .. Len(stack') /\ stack'[i] = stack[i]
      /\ stack'[Len(stack) + 1].task = None
      /\ \A i \in 1 .. Len(stack') : i \in 1 .. Len(stack) \/ i = Len(stack) + 1
    BY <1>0, <1>1, <1>2, Pushed
<1>4. \A v \in Tasks : (InCall(v) => InCall(v)') /\ (Cancelling(v)' => Cancelling(v))
    BY <1>3, RuntimeAssumption DEF InCall, Cancelling
<1>5. \A v \in Tasks : FoundAgain(v)'
    BY <1>1, <1>4, OwnersUnchanged, FoundStays DEF LeakInv
<1> QED
    BY <1>1, <1>5, ShutdownElsewhere DEF LeakInv

\* A step that changes neither the tasks nor what refers to them.
LEMMA StutterLeak ==
    ASSUME LeakInv, UNCHANGED <<mem, flags, watchers, timers, pc, pos, due, stack>>
    PROVE  LeakInv'
<1>1. ShutdownInv'
    BY DEF LeakInv, ShutdownInv, Destroying
<1>2. \A v \in Tasks : FoundAgain(v)'
    BY OwnersUnchanged, CallsStay, FoundStays DEF LeakInv
<1> QED
    BY <1>1, <1>2 DEF LeakInv

\* What user code may call loses no task.
LEMMA UserOperationLeak ==
    ASSUME MemInv, TypeOK', LeakInv, ~ AllocMayFail, ~ ReentrantUnwatch, UserOperation
    PROVE  LeakInv'
<1> USE DEF runVars, tickVars, tableVars
<1>1. CASE (\E on \in BOOLEAN : SetRunning(on)) \/ Run
    BY <1>1, StutterLeak DEF SetRunning, Run
<1>2. ASSUME NEW t \in Tasks, NEW fd \in Fds, NEW events \in Masks, NEW mode \in Mode,
             WatchFd(t, fd, events, mode)
      PROVE  LeakInv'
    <2>1. /\ pc \in {"out", "loop"} /\ mem[t] = "none" /\ mem' = [mem EXCEPT ![t] = "live"]
          /\ UNCHANGED <<timers, pc>>
        BY <1>2, UserFacts DEF WatchFd
    <2> QED
        BY <1>2, <2>1, WatchReplaceLeak, WatchAppendLeak DEF WatchFd, WatchFail
<1> QED
    BY <1>1, <1>2, ScheduleLeak, SetTimerLeak, CancelTaskLeak, UnwatchFdLeak
    DEF UserOperation

-----------------------------------------------------------------------------
(* No leak: the returns of callbacks *)

\* The innermost call ends and was about no task but x.
LEMMA PoppedCalls ==
    ASSUME TypeOK, stack # <<>>, stack' = Caller, NEW v, v # Top.task
    PROVE  /\ InCall(v) => InCall(v)'
           /\ Cancelling(v)' => Cancelling(v)
           /\ Destroying(v) => Destroying(v)'
<1>1. /\ Len(stack) \in 1 .. Len(stack) /\ Top = stack[Len(stack)]
      /\ \A i \in 1 .. Len(stack') : i \in 1 .. Len(stack) /\ stack'[i] = stack[i]
      /\ \A i \in 1 .. Len(stack) : i \in 1 .. Len(stack') \/ i = Len(stack)
    BY Popped
<1> QED
    BY <1>1 DEF InCall, Cancelling, Destroying

\* The innermost call goes on with another frame.
LEMMA ReplacedCalls ==
    ASSUME TypeOK, stack # <<>>, NEW frame \in Frame, stack' = Append(Caller, frame), NEW v,
           v # Top.task, v # frame.task
    PROVE  (InCall(v) => InCall(v)') /\ (Cancelling(v)' => Cancelling(v))
<1>1. /\ Len(stack) \in Nat \ {0} /\ Len(stack') = Len(stack)
      /\ Len(stack) \in 1 .. Len(stack) /\ Top = stack[Len(stack)]
      /\ stack'[Len(stack)] = frame
      /\ \A i \in 1 .. Len(stack) : i # Len(stack) => stack'[i] = stack[i]
    BY Replaced
<1> QED
    BY <1>1 DEF InCall, Cancelling

\* The other entries survive the removal of one.
LEMMA OthersKept ==
    ASSUME TypeOK, NEW i \in 1 .. Len(watchers), watchers' = SwapRemove(watchers, i),
           NEW v, v # watchers[i].task, \A timer \in timers : timer.task = v => timer \in timers'
    PROVE  OwnersKept(v)
<1>1. \A j \in 1 .. Len(watchers) :
          j # i => \E k \in 1 .. Len(watchers') : watchers'[k] = watchers[j]
    BY RemoveEntry
<1> QED
    BY <1>1 DEF OwnersKept

\* The task that an operation queues is found again in the queue.
LEMMA QueuedFound ==
    ASSUME TypeOK, NEW x \in Tasks, Enqueue(x, TRUE), "PERSISTENT" \notin flags[x]
    PROVE  FoundAgain(x)'
<1>1. "SCHEDULED" \in flags'[x] /\ "PERSISTENT" \notin flags'[x]
    BY DEF Enqueue, TypeOK
<1> QED
    BY <1>1 DEF FoundAgain

\* The task of the call that ends is freed, every other is found as before.
LEMMA ReturnDestroyLeak ==
    ASSUME MemInv, LeakInv, ReturnDestroy
    PROVE  LeakInv'
<1> USE DEF runVars, tickVars, tableVars
<1>0. TypeOK /\ mem \in [Tasks -> {"none", "live", "freed"}]
    BY DEF MemInv, QueueInv, TypeOK
<1>1. /\ stack # <<>> /\ Top.kind = "destroy" /\ stack' = Caller
      /\ mem' = [mem EXCEPT ![Top.task] = "freed"]
      /\ UNCHANGED <<flags, queue, watchers, timers, pc, pos, due>>
    BY DEF ReturnDestroy
<1>2. PICK x \in Tasks : x = Top.task
    BY <1>0, <1>1, StackFacts, FrameTypes
<1>3. mem'[x] = "freed" /\ \A v \in Tasks : v # x => mem'[v] = mem[v]
    BY <1>0, <1>1, <1>2
<1>4. FoundAgain(x)'
    BY <1>3 DEF FoundAgain
<1>5. ASSUME NEW v \in Tasks, v # x
      PROVE  FoundAgain(v)'
    <2>1. (InCall(v) => InCall(v)') /\ (Cancelling(v)' => Cancelling(v))
        BY <1>0, <1>1, <1>2, <1>5, PoppedCalls
    <2> QED
        BY <1>1, <1>3, <1>5, <2>1, OwnersUnchanged, FoundStays DEF LeakInv
<1>6. \A v \in Tasks : mem[v] = "freed" \/ Destroying(v) => mem'[v] = "freed" \/ Destroying(v)'
    BY <1>0, <1>1, <1>2, <1>3, PoppedCalls
<1>7. ShutdownInv'
    <2>1. /\ \A i \in 1 .. Len(watchers) : watchers[i].task \in Tasks
          /\ \A timer \in timers : timer.task \in Tasks
        BY <1>0, ReferenceTypes DEF TypeOK, Timer
    <2> QED
        BY <1>1, <1>6, <2>1 DEF LeakInv, ShutdownInv
<1> QED
    BY <1>4, <1>5, <1>7 DEF LeakInv

\* A cancelled task loses its owners and is queued.
LEMMA ReturnCancelLeak ==
    ASSUME MemInv, LeakInv, ~ AllocMayFail, ReturnCancel
    PROVE  LeakInv'
<1> USE DEF runVars, tickVars, tableVars
<1>0. TypeOK
    BY DEF MemInv, QueueInv
<1>1. /\ stack # <<>> /\ Top.kind = "cancel" /\ stack' = Caller
      /\ RemoveWatchersOf(Top.task)
      /\ timers' = {timer \in timers : timer.task # Top.task}
      /\ Enqueue(Top.task, TRUE)
      /\ UNCHANGED <<mem, pc>>
    BY DEF ReturnCancel, AllocResult
<1>2. PICK x \in Tasks : x = Top.task /\ Cancelling(x)
    BY <1>0, <1>1, StackFacts, FrameTypes DEF Cancelling
<1>3. mem[x] = "live"
    BY <1>1, <1>2, <1>0, StackFacts, RuntimeAssumption DEF MemInv, StackInv, FramesLive
<1>4. "PERSISTENT" \notin flags[x]
    BY <1>2, <1>3 DEF LeakInv, FoundAgain
<1>5. FoundAgain(x)'
    BY <1>0, <1>1, <1>2, <1>4, QueuedFound
<1>6. ASSUME NEW v \in Tasks, v # x
      PROVE  FoundAgain(v)'
    <2>1. flags'[v] = flags[v]
        BY <1>0, <1>1, <1>2, <1>6, EnqueueFlags
    <2>2. \A timer \in timers : timer.task = v => timer \in timers'
        BY <1>1, <1>2, <1>6
    <2>3. OwnersKept(v)
        <3>1. CASE watchers' = watchers
            BY <2>2, <3>1 DEF OwnersKept
        <3>2. ASSUME NEW i \in 1 .. Len(watchers), watchers[i].task = x,
                     watchers' = SwapRemove(watchers, i)
              PROVE  OwnersKept(v)
            BY <1>0, <1>6, <2>2, <3>2, OthersKept
        <3> QED
            BY <1>1, <1>2, <3>1, <3>2 DEF RemoveWatchersOf
    <2>4. (InCall(v) => InCall(v)') /\ (Cancelling(v)' => Cancelling(v))
        BY <1>0, <1>1, <1>2, <1>6, PoppedCalls
    <2> QED
        BY <1>1, <2>1, <2>3, <2>4, FoundStays DEF LeakInv
<1>7. pc' \notin {"destroyWatchers", "destroyTimers", "gone"}
    BY <1>1, CallPhase
<1> QED
    BY <1>5, <1>6, <1>7, ShutdownElsewhere DEF LeakInv

\* The task that the loop cancels waits for its cleanup in the unwatching call.
LEMMA UnwatchScanLeak ==
    ASSUME MemInv, LeakInv, UnwatchScan
    PROVE  LeakInv'
<1> USE DEF runVars, tickVars, tableVars
<1>0. TypeOK
    BY DEF MemInv, QueueInv
<1>1. /\ stack # <<>> /\ Top.kind = "unwatch" /\ Top.task = None
      /\ UNCHANGED <<mem, queue, watchers, timers, pc>>
    BY DEF UnwatchScan
<1>2. pc' \notin {"destroyWatchers", "destroyTimers", "gone"}
    BY <1>1, CallPhase
<1>3. CASE stack' = Caller /\ UNCHANGED flags
    <2>1. \A v \in Tasks : (InCall(v) => InCall(v)') /\ (Cancelling(v)' => Cancelling(v))
        BY <1>0, <1>1, <1>3, RuntimeAssumption, PoppedCalls
    <2>2. \A v \in Tasks : FoundAgain(v)'
        BY <1>1, <1>3, <2>1, OwnersUnchanged, FoundStays DEF LeakInv
    <2> QED
        BY <1>2, <2>2, ShutdownElsewhere DEF LeakInv
<1>4. ASSUME NEW i \in Top.at .. Len(watchers),
             TaskCancel("unwatch", watchers[i].task, flags, Top.fd, i, Caller)
      PROVE  LeakInv'
    <2>1. Top \in Frame
        BY <1>0, <1>1, StackFacts
    <2>2. i \in 1 .. Len(watchers) /\ i \in Nat /\ i >= 1 /\ Top.fd \in Fds \cup {None}
        BY <1>0, <1>1, <2>1, LenProperties DEF Frame, TypeOK
    <2>3. PICK u \in Tasks : u = watchers[i].task
        BY <1>0, <2>2, ReferenceTypes
    <2>4. TaskCancel("unwatch", u, flags, Top.fd, i, Caller)
        BY <1>4, <2>3
    <2>5. /\ flags'[u] = ((flags[u] \cup {"CANCELLED"}) \ {"PERSISTENT"}) \cup {"FINALIZED"}
          /\ \A v \in Tasks : v # u => flags'[v] = flags[v]
        BY <1>0, <1>1, <2>2, <2>4, UnwatchCalls
    <2>6. \E frame \in Frame :
             /\ frame.kind = "unwatch" /\ frame.task = u /\ frame.fd = Top.fd /\ frame.at = i
             /\ stack' = Append(Caller, frame)
        BY <1>0, <1>1, <2>2, <2>4, UnwatchCalls
    <2>7. PICK frame \in Frame : frame.task = u /\ stack' = Append(Caller, frame)
        BY <2>6
    <2>8. FoundAgain(u)'
        <3>1. Len(stack) \in 1 .. Len(stack') /\ stack'[Len(stack)].task = u
            BY <1>0, <1>1, <2>7, Replaced
        <3> QED
            BY <2>5, <3>1 DEF FoundAgain, InCall
    <2>9. \A v \in Tasks : v # u => FoundAgain(v)'
        <3>1. \A v \in Tasks :
                 v # u => (InCall(v) => InCall(v)') /\ (Cancelling(v)' => Cancelling(v))
            BY <1>0, <1>1, <2>7, RuntimeAssumption, ReplacedCalls
        <3> QED
            BY <1>1, <2>5, <3>1, OwnersUnchanged, FoundStays DEF LeakInv
    <2> QED
        BY <1>2, <2>8, <2>9, ShutdownElsewhere DEF LeakInv
<1> QED
    BY <1>3, <1>4 DEF UnwatchScan

\* The cancelled task loses its watcher and is queued.
LEMMA UnwatchRemoveLeak ==
    ASSUME MemInv, LeakInv, ~ AllocMayFail, UnwatchRemove
    PROVE  LeakInv'
<1> USE DEF runVars, tickVars, tableVars
<1> DEFINE frame == [Top EXCEPT !.task = None, !.cb = FALSE]
<1>0. TypeOK /\ FrameShape /\ FramesLive
    BY DEF MemInv, QueueInv, StackInv
<1>1. /\ stack # <<>> /\ Top.kind = "unwatch" /\ Top.task # None
      /\ stack' = Append(Caller, frame)
      /\ Enqueue(Top.task, TRUE)
      /\ UNCHANGED <<mem, timers>>
    BY DEF UnwatchRemove, AllocResult
<1>2. Top \in Frame /\ Len(stack) \in 1 .. Len(stack) /\ Top = stack[Len(stack)]
    BY <1>0, <1>1, StackFacts
<1>3. frame \in Frame /\ frame.task = None
    BY <1>1, <1>2 DEF Frame
<1> HIDE DEF frame
<1>4. PICK x \in Tasks : x = Top.task /\ Cancelling(x)
    BY <1>1, <1>2 DEF Frame, Cancelling
<1>5. PICK w \in 1 .. Len(watchers) : w = Top.at /\ watchers[w].task = x
    BY <1>0, <1>1, <1>2, <1>4 DEF FrameShape
<1>6. watchers # <<>>
    BY <1>0, <1>5, EmptySeq
<1>7. watchers' = SwapRemove(watchers, w) /\ pc' = pc
    BY <1>5, <1>6 DEF UnwatchRemove
<1>8. mem[x] = "live" /\ "PERSISTENT" \notin flags[x]
    BY <1>0, <1>1, <1>2, <1>4 DEF FramesLive, LeakInv, FoundAgain
<1>9. FoundAgain(x)'
    BY <1>0, <1>1, <1>4, <1>8, QueuedFound
<1>10. ASSUME NEW v \in Tasks, v # x
       PROVE  FoundAgain(v)'
    <2>1. flags'[v] = flags[v]
        BY <1>0, <1>1, <1>4, <1>10, EnqueueFlags
    <2>2. OwnersKept(v)
        BY <1>0, <1>1, <1>5, <1>7, <1>10, OthersKept
    <2>3. (InCall(v) => InCall(v)') /\ (Cancelling(v)' => Cancelling(v))
        BY <1>0, <1>1, <1>3, <1>4, <1>10, RuntimeAssumption, ReplacedCalls
    <2> QED
        BY <1>1, <2>1, <2>2, <2>3, FoundStays DEF LeakInv
<1>11. pc' \notin {"destroyWatchers", "destroyTimers", "gone"}
    BY <1>1, <1>7, CallPhase
<1> QED
    BY <1>9, <1>10, <1>11, ShutdownElsewhere DEF LeakInv

-----------------------------------------------------------------------------
(* No leak: the tick *)

\* bb_task_destroy: the task waits for its cleanup in the only call in progress.
LEMMA DestroyLeak ==
    ASSUME MemInv, LeakInv, NEW x \in Tasks, NEW fl \in FlagSets, NEW callers \in Seq(Frame),
           Len(callers) = 0, TaskDestroy(x, fl, callers), UNCHANGED <<mem, watchers, timers>>,
           "PERSISTENT" \in fl[x] => "PERSISTENT" \in flags[x],
           \A v \in Tasks : v # x => fl[v] = flags[v] /\ ~ InCall(v)
    PROVE  Destroying(x)' /\ \A v \in Tasks : FoundAgain(v)'
<1>0. TypeOK
    BY DEF MemInv, QueueInv
<1>1. flags' = [fl EXCEPT ![x] = @ \cup {"FINALIZED"}]
    BY <1>0, DestroyCall
<1>2. \E frame \in Frame : /\ frame.kind = "destroy" /\ frame.task = x
                           /\ stack' = Append(callers, frame)
    BY ONLY <1>0, x \in Tasks, fl \in FlagSets, callers \in Seq(Frame),
       TaskDestroy(x, fl, callers), DestroyCall
<1>3. PICK frame \in Frame : /\ frame.kind = "destroy" /\ frame.task = x
                             /\ stack' = Append(callers, frame)
    BY <1>2
<1>4. Len(stack') = 1 /\ stack'[1] = frame
    BY <1>3, Pushed
<1>5. Destroying(x)' /\ InCall(x)' /\ \A v : ~ Cancelling(v)'
    BY <1>3, <1>4 DEF Destroying, InCall, Cancelling
<1>6. /\ flags'[x] = fl[x] \cup {"FINALIZED"}
      /\ \A v \in Tasks : v # x => flags'[v] = flags[v]
    BY <1>1 DEF FlagSets
<1>7. FoundAgain(x)'
    BY <1>5, <1>6, OwnersUnchanged, OwnersKeptFacts DEF LeakInv, FoundAgain
<1>8. \A v \in Tasks : v # x => FoundAgain(v)'
    BY <1>5, <1>6, OwnersUnchanged, FoundStays DEF LeakInv
<1> QED
    BY <1>5, <1>7, <1>8

\* The test after execution keeps a task only if it is queued or has an owner.
LEMMA ReapLeak ==
    ASSUME MemInv, LeakInv, pc = "loop", NEW x \in Tasks, NEW fl \in FlagSets,
           NEW callers \in Seq(Frame), Len(callers) = 0, Reap(x, fl, callers),
           UNCHANGED <<mem, watchers, timers, pc>>, mem[x] = "live",
           "PERSISTENT" \in fl[x] => "PERSISTENT" \in flags[x],
           \A v \in Tasks : v # x => fl[v] = flags[v] /\ ~ InCall(v)
    PROVE  LeakInv'
<1>1. CASE TaskDestroy(x, fl, callers)
    BY <1>1, DestroyLeak, ShutdownElsewhere DEF LeakInv
<1>2. CASE /\ "SCHEDULED" \in fl[x] \/ "PERSISTENT" \in fl[x]
           /\ flags' = fl /\ stack' = callers
    <2>1. \A v : ~ Cancelling(v)'
        BY <1>2 DEF Cancelling
    <2>2. FoundAgain(x)'
        <3>1. "PERSISTENT" \in fl[x] => KeptAlive(x)'
            BY OwnersUnchanged, OwnersKeptFacts DEF LeakInv, FoundAgain
        <3>2. KeptAlive(x)' => Watched(x)' \/ Timed(x)'
            BY DEF KeptAlive, Watched, Timed
        <3> QED
            BY <1>2, <2>1, <3>1, <3>2 DEF FoundAgain
    <2>3. \A v \in Tasks : v # x => FoundAgain(v)'
        BY <1>2, <2>1, OwnersUnchanged, FoundStays DEF LeakInv
    <2> QED
        BY <2>2, <2>3, ShutdownElsewhere DEF LeakInv
<1> QED
    BY <1>1, <1>2 DEF Reap

\* A task that has run is destroyed, or it is queued or owned.
LEMMA ReturnRunLeak ==
    ASSUME MemInv, LeakInv, ReturnRun
    PROVE  LeakInv'
<1> USE DEF runVars, tickVars, tableVars
<1>0. TypeOK /\ FrameShape /\ FramesLive /\ flags \in FlagSets
    BY DEF MemInv, QueueInv, StackInv, TypeOK, FlagSets
<1>1. /\ stack # <<>> /\ Top.kind = "run" /\ UNCHANGED <<mem, watchers, timers, pc>>
    BY DEF ReturnRun
<1>2. /\ Len(stack) \in 1 .. Len(stack) /\ Top = stack[Len(stack)] /\ Len(stack) \in Nat
      /\ Caller \in Seq(Frame) /\ Len(Caller) = Len(stack) - 1
    BY <1>0, <1>1, StackFacts
<1>3. Len(stack) = 1 /\ pc = "loop" /\ Len(Caller) = 0 /\ Top = stack[1]
    BY <1>0, <1>1, <1>2 DEF FrameShape
<1>4. PICK x \in Tasks : x = Top.task
    BY <1>0, <1>1, <1>2, FrameTypes
<1>5. mem[x] = "live"
    BY <1>0, <1>2, <1>4, RuntimeAssumption DEF FramesLive
<1>6. \A v \in Tasks : v # x => ~ InCall(v)
    BY <1>3, <1>4 DEF InCall
<1>7. PICK fl \in FlagSets : /\ Reap(x, fl, Caller)
                             /\ fl[x] = flags[x] \ {"RUNNING"}
                             /\ \A v \in Tasks : v # x => fl[v] = flags[v]
    <2> DEFINE f == [flags EXCEPT ![x] = @ \ {"RUNNING"}]
    <2>1. f \in FlagSets /\ f[x] = flags[x] \ {"RUNNING"}
          /\ \A v \in Tasks : v # x => f[v] = flags[v]
        BY <1>0 DEF FlagSets
    <2>2. Reap(x, f, Caller)
        BY <1>4 DEF ReturnRun
    <2> HIDE DEF f
    <2> QED
        BY <2>1, <2>2
<1>8. "PERSISTENT" \in fl[x] => "PERSISTENT" \in flags[x]
    BY <1>7
<1> QED
    BY <1>1, <1>2, <1>3, <1>5, <1>6, <1>7, <1>8, ReapLeak

\* The head of the queue.
LEMMA HeadFacts ==
    ASSUME MemInv, queue # <<>>
    PROVE  Head(queue) \in Tasks /\ "SCHEDULED" \in flags[Head(queue)] /\ mem[Head(queue)] = "live"
<1>0. TypeOK
    BY DEF MemInv, QueueInv
<1>1. Head(queue) = queue[1] /\ 1 \in 1 .. Len(queue)
    BY <1>0, EmptySeq, LenProperties, HeadTailProperties DEF TypeOK
<1> QED
    BY <1>0, <1>1, ReferenceTypes DEF MemInv, QueueInv, ScheduledOnce, TableInv, FlagInv

\* The task that leaves the queue runs or is reaped.
LEMMA RunNextLeak ==
    ASSUME MemInv, LeakInv, RunNext
    PROVE  LeakInv'
<1> USE DEF runVars, tickVars, tableVars
<1>0. TypeOK /\ flags \in FlagSets /\ stack \in Seq(Frame)
    BY DEF MemInv, QueueInv, TypeOK, FlagSets
<1>1. /\ pc = "loop" /\ stack = <<>> /\ queue # <<>> /\ UNCHANGED <<mem, watchers, timers, pc>>
    BY DEF RunNext
<1>2. Len(stack) = 0 /\ \A v : ~ InCall(v)
    BY <1>0, <1>1, StackFacts DEF InCall
<1>3. PICK x \in Tasks : x = Head(queue) /\ mem[x] = "live"
    BY <1>1, HeadFacts
<1>4. PICK fl \in FlagSets : /\ fl = [flags EXCEPT ![x] = @ \ {"SCHEDULED"}]
                             /\ fl[x] = flags[x] \ {"SCHEDULED"}
                             /\ \A v \in Tasks : v # x => fl[v] = flags[v]
    BY <1>0, PoppedFlags
<1>5. CASE Reap(x, fl, stack)
    BY <1>0, <1>1, <1>2, <1>3, <1>4, <1>5, ReapLeak
<1>6. CASE /\ flags' = [fl EXCEPT ![x] = @ \cup {"RUNNING"}]
           /\ stack' = Append(stack, [kind |-> "run", task |-> x, cb |-> TRUE,
                                      fd |-> None, at |-> 0])
    <2>1. PICK frame \in Frame : /\ frame.kind = "run" /\ frame.task = x
                                 /\ stack' = Append(stack, frame)
        <3> DEFINE f == [kind |-> "run", task |-> x, cb |-> TRUE, fd |-> None, at |-> 0]
        <3>1. f \in Frame /\ f.kind = "run" /\ f.task = x
            BY RuntimeAssumption DEF Frame
        <3> QED
            BY <1>6, <3>1
    <2>2. Len(stack') = 1 /\ stack'[1] = frame
        BY <1>0, <1>2, <2>1, Pushed
    <2>3. /\ flags'[x] = (flags[x] \ {"SCHEDULED"}) \cup {"RUNNING"}
          /\ \A v \in Tasks : v # x => flags'[v] = flags[v]
        BY <1>4, <1>6 DEF FlagSets
    <2>4. InCall(x)' /\ \A v : ~ Cancelling(v)'
        BY <2>1, <2>2 DEF InCall, Cancelling
    <2>5. FoundAgain(x)'
        BY <1>1, <2>3, <2>4, OwnersUnchanged, OwnersKeptFacts DEF LeakInv, FoundAgain
    <2>6. \A v \in Tasks : v # x => FoundAgain(v)'
        BY <1>1, <1>2, <2>3, <2>4, OwnersUnchanged, FoundStays DEF LeakInv
    <2> QED
        BY <1>1, <2>5, <2>6, ShutdownElsewhere DEF LeakInv
<1> QED
    BY <1>3, <1>4, <1>5, <1>6 DEF RunNext

\* An owner wakes its task, and is dropped if it is a one-shot owner.
LEMMA WakeLeak ==
    ASSUME MemInv, LeakInv, pc \in {"dispatch", "timers"}, NEW x \in Tasks, Enqueue(x, TRUE),
           UNCHANGED <<mem, pc, stack>>, \A v \in Tasks : v # x => OwnersKept(v),
           OwnersKept(x) \/ ~ KeptAlive(x), mem[x] = "live"
    PROVE  LeakInv'
<1>0. TypeOK
    BY DEF MemInv, QueueInv
<1>1. "PERSISTENT" \in flags'[x] <=> "PERSISTENT" \in flags[x]
    <2>1. flags'[x] = flags[x] \/ flags'[x] = flags[x] \cup {"SCHEDULED"}
        BY <1>0, EnqueueFlags
    <2> QED
        BY <2>1
<1>2. "SCHEDULED" \in flags'[x] /\ \A v \in Tasks : v # x => flags'[v] = flags[v]
    BY <1>0 DEF Enqueue, TypeOK
<1>3. FoundAgain(x)'
    BY <1>1, <1>2, CallsStay, OwnersKeptFacts DEF LeakInv, FoundAgain
<1>4. \A v \in Tasks : v # x => FoundAgain(v)'
    BY <1>2, CallsStay, FoundStays DEF LeakInv
<1> QED
    BY <1>3, <1>4, ShutdownElsewhere DEF LeakInv

\* A one-shot watcher is dropped when its task is queued.
LEMMA DispatchLeak ==
    ASSUME MemInv, LeakInv, ~ AllocMayFail, Dispatch
    PROVE  LeakInv'
<1> USE DEF runVars, tickVars, tableVars
<1>0. TypeOK /\ OwnerInv /\ UniqueOwner
    BY DEF MemInv, QueueInv, TableInv
<1>1. pc = "dispatch" /\ UNCHANGED <<mem, timers, pc, due, stack>>
    BY DEF Dispatch
<1>2. CASE UNCHANGED <<flags, watchers>>
    <2>1. \A v \in Tasks : FoundAgain(v)'
        BY <1>1, <1>2, OwnersUnchanged, CallsStay, FoundStays DEF LeakInv
    <2> QED
        BY <1>1, <2>1, ShutdownElsewhere DEF LeakInv
<1>3. ASSUME NEW i \in pos .. Len(watchers), WakeWatcher(i)
      PROVE  LeakInv'
    <2>1. i \in 1 .. Len(watchers)
        BY <1>0, <1>3, LenProperties DEF TypeOK
    <2>2. /\ watchers[i] \in Watcher
          /\ \A k \in 1 .. Len(watchers) : watchers[k].task = watchers[i].task => k = i
          /\ \A timer \in timers : timer.task # watchers[i].task
        BY <1>0, <2>1, WatcherType DEF UniqueOwner
    <2>3. PICK x \in Tasks : x = watchers[i].task
        BY <2>2 DEF Watcher
    <2>4. mem[x] = "live"
        BY <1>0, <1>1, <2>1, <2>3 DEF OwnerInv, LiveWatcher, KeptFor
    <2>5. Enqueue(x, TRUE)
        BY <1>3, <2>3 DEF WakeWatcher, AllocResult
    <2>6. CASE watchers[i].mode = "ONESHOT"
        <3>1. watchers' = SwapRemove(watchers, i)
            BY <1>3, <2>6 DEF WakeWatcher
        <3>2. ~ KeptAlive(x)
            BY <2>2, <2>3, <2>6 DEF KeptAlive
        <3>3. \A v \in Tasks : v # x => OwnersKept(v)
            BY <1>0, <1>1, <2>1, <2>3, <3>1, OthersKept
        <3> QED
            BY <1>1, <2>4, <2>5, <3>2, <3>3, WakeLeak
    <2>7. CASE watchers[i].mode # "ONESHOT"
        <3>1. \A v \in Tasks : OwnersKept(v)
            BY <1>1, <1>3, <2>7, OwnersUnchanged DEF WakeWatcher
        <3> QED
            BY <1>1, <2>4, <2>5, <3>1, WakeLeak
    <2> QED
        BY <2>6, <2>7
<1> QED
    BY <1>2, <1>3 DEF Dispatch

\* A timeout is dropped when its task is queued.
LEMMA FireTimerLeak ==
    ASSUME MemInv, LeakInv, ~ AllocMayFail, NEW timer \in Timer, FireTimer(timer)
    PROVE  LeakInv'
<1> USE DEF runVars, tickVars, tableVars
<1>0. TypeOK /\ OwnerInv /\ UniqueOwner /\ DueInv
    BY DEF MemInv, QueueInv, TableInv
<1>1. /\ pc = "timers" /\ timer \in due /\ UNCHANGED <<mem, watchers, pc, stack>>
      /\ timers' = IF timer.repeating THEN timers ELSE timers \ {timer}
    BY DEF FireTimer
<1>2. timer \in timers
    BY <1>0, <1>1 DEF DueInv
<1>3. PICK x \in Tasks : x = timer.task
    BY DEF Timer
<1>4. Enqueue(x, TRUE)
    BY <1>3 DEF FireTimer, AllocResult
<1>5. mem[x] = "live"
    BY <1>0, <1>1, <1>2, <1>3 DEF OwnerInv, LiveTimer, KeptFor
<1>6. \A v \in Tasks : v # x => OwnersKept(v)
    BY <1>1, <1>3 DEF OwnersKept
<1>7. OwnersKept(x) \/ ~ KeptAlive(x)
    BY <1>0, <1>1, <1>2, <1>3 DEF OwnersKept, KeptAlive, UniqueOwner
<1> QED
    BY <1>1, <1>4, <1>5, <1>6, <1>7, WakeLeak

-----------------------------------------------------------------------------
(* No leak: the shutdown *)

\* A step that only changes the phase.
LEMMA PhaseLeak ==
    ASSUME LeakInv, UNCHANGED <<mem, flags, watchers, timers, stack>>
    PROVE  \A v \in Tasks : FoundAgain(v)'
BY OwnersUnchanged, CallsStay, FoundStays DEF LeakInv

\* The shutdown leaves to the owners only tasks that they keep.
LEMMA DrainQueueLeak ==
    ASSUME MemInv, LeakInv, DrainQueue
    PROVE  LeakInv'
<1> USE DEF runVars, tickVars, tableVars
<1>0. TypeOK /\ flags \in FlagSets /\ stack \in Seq(Frame)
    BY DEF MemInv, QueueInv, TypeOK, FlagSets
<1>1. /\ pc = "destroyQueue" /\ stack = <<>> /\ queue # <<>>
      /\ UNCHANGED <<mem, watchers, timers, pc>>
    BY DEF DrainQueue
<1>2. Len(stack) = 0 /\ \A v : ~ InCall(v)
    BY <1>0, <1>1, StackFacts DEF InCall
<1>3. PICK x \in Tasks : x = Head(queue) /\ mem[x] = "live"
    BY <1>1, HeadFacts
<1>4. PICK fl \in FlagSets : /\ fl = [flags EXCEPT ![x] = @ \ {"SCHEDULED"}]
                             /\ fl[x] = flags[x] \ {"SCHEDULED"}
                             /\ \A v \in Tasks : v # x => fl[v] = flags[v]
    BY <1>0, PoppedFlags
<1>5. CASE "PERSISTENT" \in fl[x] /\ flags' = fl /\ UNCHANGED stack
    <2>1. FoundAgain(x)'
        <3>1. "PERSISTENT" \in flags[x] /\ flags'[x] = fl[x]
            BY <1>4, <1>5
        <3>2. KeptAlive(x)'
            BY <1>1, <1>3, <3>1, OwnersUnchanged, OwnersKeptFacts DEF LeakInv, FoundAgain
        <3>3. KeptAlive(x)' => Watched(x)' \/ Timed(x)'
            BY DEF KeptAlive, Watched, Timed
        <3>4. ~ Cancelling(x)'
            BY <1>2, <1>5 DEF InCall, Cancelling
        <3> QED
            BY <3>2, <3>3, <3>4 DEF FoundAgain
    <2>2. \A v \in Tasks : v # x => FoundAgain(v)'
        BY <1>1, <1>4, <1>5, OwnersUnchanged, CallsStay, FoundStays DEF LeakInv
    <2> QED
        BY <1>1, <2>1, <2>2, ShutdownElsewhere DEF LeakInv
<1>6. CASE TaskDestroy(x, fl, stack)
    <2>1. "PERSISTENT" \in fl[x] => "PERSISTENT" \in flags[x]
        BY <1>4
    <2>2. \A v \in Tasks : FoundAgain(v)'
        BY <1>0, <1>1, <1>2, <1>4, <1>6, <2>1, DestroyLeak
    <2> QED
        BY <1>1, <2>2, ShutdownElsewhere DEF LeakInv
<1> QED
    BY <1>3, <1>4, <1>5, <1>6 DEF DrainQueue

\* The loops over the watchers and the timers pass one owner.
LEMMA DrainOwnerLeak ==
    ASSUME MemInv, LeakInv, \/ DrainWatchers
                            \/ \E timer \in Timer : DrainTimers(timer)
    PROVE  LeakInv'
<1> USE DEF runVars, tickVars, tableVars
<1>0. /\ TypeOK /\ flags \in FlagSets /\ stack \in Seq(Frame)
      /\ pos \in Nat \ {0} /\ Len(watchers) \in Nat
    BY LenProperties DEF MemInv, QueueInv, TypeOK, FlagSets
<1>1. stack = <<>> /\ UNCHANGED <<mem, watchers, timers, pc>>
    BY DEF DrainWatchers, DrainTimers
<1>2. Len(stack) = 0 /\ \A v : ~ InCall(v) /\ ~ Destroying(v)
    BY <1>0, <1>1, StackFacts DEF InCall, Destroying
<1>3. ASSUME NEW x \in Tasks, TaskDestroy(x, flags, stack)
      PROVE  Destroying(x)' /\ \A v \in Tasks : FoundAgain(v)'
    BY <1>0, <1>1, <1>2, <1>3, DestroyLeak
<1>4. CASE DrainWatchers
    <2>1. /\ pc = "destroyWatchers" /\ pos <= Len(watchers) /\ pos' = pos + 1
          /\ TaskDestroy(watchers[pos].task, flags, stack)
        BY <1>4 DEF DrainWatchers
    <2>2. PICK x \in Tasks : x = watchers[pos].task
        BY <1>0, <2>1, ReferenceTypes
    <2>3. Destroying(x)' /\ \A v \in Tasks : FoundAgain(v)'
        BY <1>3, <2>1, <2>2
    <2>4. ASSUME NEW i \in 1 .. Len(watchers), i < pos + 1
          PROVE  mem[watchers[i].task] = "freed" \/ Destroying(watchers[i].task)'
        <3>1. i < pos \/ i = pos
            BY <1>0, <2>4
        <3>2. i < pos => mem[watchers[i].task] = "freed"
            BY <1>2, <2>1 DEF LeakInv, ShutdownInv
        <3> QED
            BY <1>1, <2>2, <2>3, <3>1, <3>2
    <2>5. ShutdownInv'
        BY <1>1, <2>1, <2>4 DEF ShutdownInv
    <2> QED
        BY <2>3, <2>5 DEF LeakInv
<1>5. ASSUME NEW timer \in Timer, DrainTimers(timer)
      PROVE  LeakInv'
    <2>1. /\ pc = "destroyTimers" /\ timer \in due /\ due' = due \ {timer}
          /\ TaskDestroy(timer.task, flags, stack)
        BY <1>5 DEF DrainTimers
    <2>2. timer.task \in Tasks
        BY DEF Timer
    <2>3. Destroying(timer.task)' /\ \A v \in Tasks : FoundAgain(v)'
        BY <1>3, <2>1, <2>2
    <2>4. ASSUME NEW other \in timers \ due'
          PROVE  mem[other.task] = "freed" \/ Destroying(other.task)'
        <3>1. other \in timers \ due \/ other = timer
            BY <2>1
        <3>2. other \in timers \ due => mem[other.task] = "freed"
            BY <1>2, <2>1 DEF LeakInv, ShutdownInv
        <3> QED
            BY <2>3, <3>1, <3>2
    <2>5. ShutdownInv'
        BY <1>1, <2>1, <2>4 DEF LeakInv, ShutdownInv
    <2> QED
        BY <2>3, <2>5 DEF LeakInv
<1> QED
    BY <1>4, <1>5

\* A table is dropped only after the loop over it has passed all its entries.
LEMMA DrainedLeak ==
    ASSUME MemInv, LeakInv, DrainQueueDone \/ DrainWatchersDone \/ DrainTimersDone
    PROVE  LeakInv'
<1> USE DEF runVars, tickVars, tableVars
<1>0. TypeOK /\ DueInv /\ pos \in Nat \ {0} /\ Len(watchers) \in Nat
    BY LenProperties DEF MemInv, QueueInv, TableInv, TypeOK
<1>1. stack = <<>> /\ UNCHANGED <<mem, flags, stack>>
    BY DEF DrainQueueDone, DrainWatchersDone, DrainTimersDone
<1>2. \A v : ~ InCall(v) /\ ~ Destroying(v)
    BY <1>0, <1>1, StackFacts DEF InCall, Destroying
<1>3. CASE DrainQueueDone
    <2>1. pc' = "destroyWatchers" /\ pos' = 1 /\ UNCHANGED <<watchers, timers>>
        BY <1>3 DEF DrainQueueDone
    <2>2. ShutdownInv'
        BY <2>1 DEF ShutdownInv
    <2> QED
        BY <1>1, <2>1, <2>2, PhaseLeak DEF LeakInv
<1>4. CASE DrainWatchersDone
    <2>1. /\ pc = "destroyWatchers" /\ pos > Len(watchers) /\ watchers' = <<>>
          /\ pc' = "destroyTimers" /\ due' = timers /\ UNCHANGED timers
        BY <1>4 DEF DrainWatchersDone
    <2>2. Len(watchers') = 0
        BY <2>1, EmptySeq
    <2>3. \A i \in 1 .. Len(watchers) : mem[watchers[i].task] = "freed"
        <3>1. \A i \in 1 .. Len(watchers) : i < pos
            BY <1>0, <2>1
        <3> QED
            BY <1>2, <2>1, <3>1 DEF LeakInv, ShutdownInv
    <2>4. ShutdownInv'
        BY <2>1, <2>2 DEF ShutdownInv
    <2>5. ASSUME NEW v \in Tasks
          PROVE  FoundAgain(v)'
        <3>1. CASE mem[v] = "live"
            <4>1. OwnersKept(v)
                BY <2>1, <2>3, <3>1 DEF OwnersKept
            <4> QED
                BY <1>1, <4>1, CallsStay, FoundStays DEF LeakInv
        <3> QED
            BY <1>1, <3>1 DEF FoundAgain
    <2> QED
        BY <2>4, <2>5 DEF LeakInv
<1>5. CASE DrainTimersDone
    <2>1. /\ pc = "destroyTimers" /\ due = {} /\ timers' = {} /\ pc' = "gone"
          /\ UNCHANGED watchers
        BY <1>5 DEF DrainTimersDone
    <2>2. \A timer \in timers : mem[timer.task] = "freed"
        BY <1>2, <2>1 DEF LeakInv, ShutdownInv
    <2>3. \A t \in Tasks : "SCHEDULED" \notin flags[t]
        BY <2>1 DEF MemInv, StackInv, PhaseShape
    <2>4. ShutdownInv'
        BY <1>1, <2>1, <2>3 DEF LeakInv, ShutdownInv
    <2>5. ASSUME NEW v \in Tasks
          PROVE  FoundAgain(v)'
        <3>1. CASE mem[v] = "live"
            <4>1. OwnersKept(v)
                BY <2>1, <2>2, <3>1 DEF OwnersKept
            <4> QED
                BY <1>1, <4>1, CallsStay, FoundStays DEF LeakInv
        <3> QED
            BY <1>1, <3>1 DEF FoundAgain
    <2> QED
        BY <2>4, <2>5 DEF LeakInv
<1> QED
    BY <1>3, <1>4, <1>5

\* The other steps of the tick and of the shutdown change no more than the phase.
LEMMA QuietLeak ==
    ASSUME MemInv, LeakInv, \/ RunReturns \/ PollerWait \/ DispatchDone \/ TimersDone
                            \/ TickDone \/ DestroyRuntime
    PROVE  LeakInv'
<1> USE DEF runVars, tickVars, tableVars
<1>1. /\ UNCHANGED <<mem, flags, watchers, timers, stack>>
      /\ pc' \notin {"destroyWatchers", "destroyTimers", "gone"}
    BY DEF RunReturns, PollerWait, DispatchDone, TimersDone, TickDone, DestroyRuntime
<1> QED
    BY <1>1, PhaseLeak, ShutdownElsewhere DEF LeakInv

\* The invariant is inductive when no allocation fails.
LEMMA NextLeak ==
    ASSUME MemInv, TypeOK', LeakInv, ~ AllocMayFail, ~ ReentrantUnwatch, [Next]_vars
    PROVE  LeakInv'
<1>1. CASE UNCHANGED vars \/ Gone
    BY <1>1, StutterLeak DEF vars, Gone
<1>2. CASE Return
    BY <1>2, ReturnDestroyLeak, ReturnCancelLeak, UnwatchScanLeak, UnwatchRemoveLeak,
       ReturnRunLeak DEF Return
<1>3. CASE TickStep
    BY <1>3, DispatchLeak, FireTimerLeak, RunNextLeak, QuietLeak DEF TickStep
<1>4. CASE DestroyStep
    BY <1>4, DrainQueueLeak, DrainOwnerLeak, DrainedLeak DEF DestroyStep
<1> QED
    BY <1>1, <1>2, <1>3, <1>4, UserOperationLeak, QuietLeak DEF Next

\* The invariant under NoLeak: every live task is queued, owned or waits in a call,
\* and a task with the PERSISTENT mark has a persistent owner (runtime.c).
THEOREM LeakInvariant ==
    ASSUME ~ AllocMayFail, ~ ReentrantUnwatch
    PROVE  Spec => [](MemInv /\ LeakInv)
<1>1. Init => LeakInv
    <2> SUFFICES ASSUME Init
                 PROVE  LeakInv
        OBVIOUS
    <2>1. ShutdownInv
        BY DEF Init, ShutdownInv
    <2>2. \A t \in Tasks : FoundAgain(t)
        BY DEF Init, FoundAgain
    <2> QED
        BY <2>1, <2>2 DEF LeakInv
<1>2. MemInv /\ MemInv' /\ LeakInv /\ [Next]_vars => LeakInv'
    BY NextLeak DEF MemInv, QueueInv
<1>3. Spec => []MemInv
    BY MemoryInvariant
<1> QED
    BY <1>1, <1>2, <1>3, PTL DEF Spec

\* Every task that is allocated is found again through the queue, its owner or a
\* call in progress, and the shutdown leaves none.
THEOREM NoLeakAlways ==
    ASSUME ~ AllocMayFail, ~ ReentrantUnwatch
    PROVE  Spec => [](NoLeak /\ AllFreed)
<1>1. LeakInv => NoLeak
    BY DEF LeakInv, FoundAgain, NoLeak, Watched, Timed, InCall
<1>2. MemInv /\ LeakInv => AllFreed
    <2> SUFFICES ASSUME MemInv, LeakInv, pc = "gone", NEW t \in Tasks, mem[t] = "live"
                 PROVE  FALSE
        BY DEF AllFreed
    <2>1. Len(stack) = 0 /\ Len(watchers) = 0 /\ timers = {} /\ "SCHEDULED" \notin flags[t]
        BY DEF MemInv, StackInv, PhaseShape, LeakInv, ShutdownInv
    <2>2. ~ Watched(t) /\ ~ Timed(t) /\ ~ InCall(t)
        BY <2>1 DEF Watched, Timed, InCall
    <2> QED
        BY <2>1, <2>2 DEF LeakInv, FoundAgain
<1> QED
    BY <1>1, <1>2, LeakInvariant, PTL

-----------------------------------------------------------------------------
(* The poller asks for what the watchers wait for *)

\* Two masks are the same or have no event in common, as the masks of the async
\* connections: reading, or writing.
MasksApart == \A a, b \in Masks : a = b \/ a \cap b = {}

\* Some watcher of fd that is not dropped yet waits for the event.
Wants(fd, event) ==
    \E i \in 1 .. Len(watchers) :
        LiveWatcher(i) /\ watchers[i].fd = fd /\ event \in watchers[i].events

Agrees(fd) == \A event \in Event : event \in interest[fd] <=> Wants(fd, event)

\* Two watchers of a descriptor wait for different events: what one of them
\* gives up is not needed by the other.
WatchersApart ==
    \A i, k \in 1 .. Len(watchers) :
        i # k /\ watchers[i].fd = watchers[k].fd =>
            watchers[i].events \cap watchers[k].events = {}

Unwatching(fd) == \E i \in 1 .. Len(stack) : stack[i].kind = "unwatch" /\ stack[i].fd = fd
NoUnwatch == \A i \in 1 .. Len(stack) : stack[i].kind # "unwatch"

\* bb_runtime_unwatch_fd has unregistered its descriptor, has no watcher of it
\* behind its loop index and drops one of its own.
UnwatchInv ==
    \A i \in 1 .. Len(stack) : stack[i].kind = "unwatch" =>
        /\ stack[i].fd \in Fds
        /\ interest[stack[i].fd] = {}
        /\ \A k \in 1 .. Len(watchers) : k < stack[i].at => watchers[k].fd # stack[i].fd
        /\ stack[i].task # None => watchers[stack[i].at].fd = stack[i].fd

PollInv ==
    /\ WatchersApart
    /\ UnwatchInv
    /\ \A fd \in Fds : Unwatching(fd) \/ Agrees(fd)

\* While no call of bb_runtime_unwatch_fd is in progress, every descriptor agrees.
LEMMA NoCallAgrees ==
    ASSUME PollInv, NoUnwatch
    PROVE  \A fd \in Fds : Agrees(fd)
BY DEF PollInv, NoUnwatch, Unwatching

\* The invariant of a state in which no such call is in progress.
LEMMA PollFrom ==
    ASSUME WatchersApart', NoUnwatch', \A fd \in Fds : Agrees(fd)'
    PROVE  PollInv'
BY DEF PollInv, NoUnwatch, UnwatchInv

\* Steps that leave the descriptors and the masks of the entries as they are.
LEMMA SameEntries ==
    ASSUME Len(watchers') = Len(watchers), UNCHANGED interest,
           \A k \in 1 .. Len(watchers) : /\ watchers'[k].fd = watchers[k].fd
                                         /\ watchers'[k].events = watchers[k].events,
           \A k \in 1 .. Len(watchers) : LiveWatcher(k)' <=> LiveWatcher(k)
    PROVE  /\ WatchersApart => WatchersApart'
           /\ \A fd : Agrees(fd) => Agrees(fd)'
<1>1. WatchersApart => WatchersApart'
    BY DEF WatchersApart
<1>2. \A fd, event : Wants(fd, event)' <=> Wants(fd, event)
    BY DEF Wants
<1> QED
    BY <1>1, <1>2 DEF Agrees

\* Steps that leave both tables alone and neither begin nor end such a call.
LEMMA QuietPoll ==
    ASSUME PollInv, UNCHANGED <<watchers, interest>>, NoUnwatch, NoUnwatch',
           \A k \in 1 .. Len(watchers) : LiveWatcher(k)' <=> LiveWatcher(k)
    PROVE  PollInv'
BY NoCallAgrees, SameEntries, PollFrom DEF PollInv

\* Steps that leave tables, loops and calls alone.
LEMMA StutterPoll ==
    ASSUME PollInv, UNCHANGED <<watchers, interest, pc, pos, stack>>
    PROVE  PollInv'
BY DEF PollInv, WatchersApart, UnwatchInv, Unwatching, Agrees, Wants, LiveWatcher

\* Calls that are no calls of bb_runtime_unwatch_fd.
LEMMA TopNoUnwatch ==
    ASSUME MemInv, stack = <<>> \/ Top.kind # "unwatch"
    PROVE  NoUnwatch
<1>0. TypeOK /\ FrameShape
    BY DEF MemInv, QueueInv, StackInv
<1> QED
    BY <1>0, StackFacts DEF FrameShape, NoUnwatch

\* A call that ends.
LEMMA PoppedNoUnwatch ==
    ASSUME TypeOK, NoUnwatch, stack # <<>>, stack' = Caller
    PROVE  NoUnwatch'
BY Popped DEF NoUnwatch

\* A call that begins.
LEMMA PushedNoUnwatch ==
    ASSUME NoUnwatch, TypeOK, NEW callers \in Seq(Frame), NEW frame \in Frame,
           callers = stack \/ (stack # <<>> /\ callers = Caller),
           frame.kind # "unwatch", stack' = Append(callers, frame)
    PROVE  NoUnwatch'
<1>1. \A i \in 1 .. Len(callers) : callers[i].kind # "unwatch"
    BY StackFacts DEF NoUnwatch
<1> QED
    BY <1>1, Pushed DEF NoUnwatch

\* bb_task_destroy is no call of bb_runtime_unwatch_fd.
LEMMA DestroyNoUnwatch ==
    ASSUME NoUnwatch, TypeOK, NEW x \in Tasks, NEW fl \in FlagSets, NEW callers \in Seq(Frame),
           callers = stack \/ (stack # <<>> /\ callers = Caller), TaskDestroy(x, fl, callers)
    PROVE  NoUnwatch'
<1>1. \E frame \in Frame : /\ frame.kind = "destroy" /\ frame.task = x
                           /\ stack' = Append(callers, frame)
    BY DestroyCall
<1> QED
    BY <1>1, PushedNoUnwatch

\* bb_task_cancel from bb_runtime_cancel_task or bb_runtime_watch_fd is none either.
LEMMA CancelNoUnwatch ==
    ASSUME NoUnwatch, TypeOK, NEW x \in Tasks, NEW fl \in FlagSets,
           TaskCancel("cancel", x, fl, None, 0, stack)
    PROVE  NoUnwatch'
BY CancelPushed DEF NoUnwatch

\* Some other watcher of fd than that of entry i waits for the event.
OthersWant(i, fd, event) ==
    \E j \in 1 .. Len(watchers) :
        j # i /\ LiveWatcher(j) /\ watchers[j].fd = fd /\ event \in watchers[j].events

\* What is left of the interest when an entry is dropped.
LEMMA DropEntry ==
    ASSUME TypeOK, WatchersApart, NEW i \in 1 .. Len(watchers), LiveWatcher(i),
           \A fd \in Fds : Agrees(fd),
           interest' = [interest EXCEPT ![watchers[i].fd] = @ \ watchers[i].events],
           \A fd \in Fds, event \in Event : Wants(fd, event)' <=> OthersWant(i, fd, event)
    PROVE  \A fd \in Fds : Agrees(fd)'
<1>0. PICK f \in Fds : f = watchers[i].fd
    BY WatcherType
<1>1. /\ interest'[f] = interest[f] \ watchers[i].events
      /\ \A fd \in Fds : fd # f => interest'[fd] = interest[fd]
    BY <1>0 DEF TypeOK
<1>2. ASSUME NEW fd \in Fds, NEW event \in Event
      PROVE  event \in interest'[fd] <=> Wants(fd, event)'
    <2>1. event \in interest[fd] <=> Wants(fd, event)
        BY DEF Agrees
    <2>2. Wants(fd, event)' <=> OthersWant(i, fd, event)
        OBVIOUS
    <2>3. CASE fd # f
        <3>1. OthersWant(i, fd, event) <=> Wants(fd, event)
            BY <1>0, <2>3 DEF Wants, OthersWant
        <3> QED
            BY <1>1, <2>1, <2>2, <2>3, <3>1
    <2>4. CASE fd = f
        <3>1. OthersWant(i, fd, event) => Wants(fd, event) /\ event \notin watchers[i].events
            <4>1. ASSUME NEW j \in 1 .. Len(watchers), j # i, watchers[j].fd = fd,
                         event \in watchers[j].events
                  PROVE  event \notin watchers[i].events
                BY <1>0, <2>4, <4>1 DEF WatchersApart
            <4> QED
                BY <4>1 DEF Wants, OthersWant
        <3>2. Wants(fd, event) /\ event \notin watchers[i].events => OthersWant(i, fd, event)
            BY DEF Wants, OthersWant
        <3> QED
            BY <1>1, <2>1, <2>2, <2>4, <3>1, <3>2
    <2> QED
        BY <2>3, <2>4
<1> QED
    BY <1>2 DEF Agrees

\* The swap-removal of an entry, outside the shutdown.
LEMMA SwapDrop ==
    ASSUME TypeOK, UniqueOwner, WatchersApart, NEW i \in 1 .. Len(watchers),
           watchers' = SwapRemove(watchers, i), timers' \subseteq timers,
           pc # "destroyWatchers", pc' # "destroyWatchers"
    PROVE  /\ WatchersApart'
           /\ \A fd \in Fds, event \in Event :
                 Wants(fd, event)' <=> OthersWant(i, fd, event)
<1>1. /\ \A k \in 1 .. Len(watchers') :
            \E j \in 1 .. Len(watchers) : j # i /\ watchers'[k] = watchers[j]
      /\ \A j \in 1 .. Len(watchers) :
            j # i => \E k \in 1 .. Len(watchers') : watchers'[k] = watchers[j]
    BY RemoveEntry
<1>2. UniqueOwner'
    BY RemoveEntry
<1>3. WatchersApart'
    <2> SUFFICES ASSUME NEW k \in 1 .. Len(watchers'), NEW l \in 1 .. Len(watchers'), k # l,
                        watchers'[k].fd = watchers'[l].fd
                 PROVE  watchers'[k].events \cap watchers'[l].events = {}
        BY DEF WatchersApart
    <2>1. PICK a \in 1 .. Len(watchers) : watchers'[k] = watchers[a]
        BY <1>1
    <2>2. PICK b \in 1 .. Len(watchers) : watchers'[l] = watchers[b]
        BY <1>1
    <2>3. a # b
        BY <1>2, <2>1, <2>2 DEF UniqueOwner
    <2> QED
        BY <2>1, <2>2, <2>3 DEF WatchersApart
<1>4. ASSUME NEW fd \in Fds, NEW event \in Event
      PROVE  Wants(fd, event)' <=> OthersWant(i, fd, event)
    <2>1. ASSUME Wants(fd, event)'
          PROVE  OthersWant(i, fd, event)
        <3>1. PICK k \in 1 .. Len(watchers') :
                  watchers'[k].fd = fd /\ event \in watchers'[k].events
            BY <2>1 DEF Wants
        <3>2. PICK j \in 1 .. Len(watchers) : j # i /\ watchers'[k] = watchers[j]
            BY <1>1
        <3> QED
            BY <3>1, <3>2 DEF OthersWant, LiveWatcher
    <2>2. ASSUME OthersWant(i, fd, event)
          PROVE  Wants(fd, event)'
        <3>1. PICK j \in 1 .. Len(watchers) :
                  j # i /\ watchers[j].fd = fd /\ event \in watchers[j].events
            BY <2>2 DEF OthersWant
        <3>2. PICK k \in 1 .. Len(watchers') : watchers'[k] = watchers[j]
            BY <1>1, <3>1
        <3> QED
            BY <3>1, <3>2 DEF Wants, LiveWatcher
    <2> QED
        BY <2>1, <2>2
<1> QED
    BY <1>3, <1>4

-----------------------------------------------------------------------------
(* The poller and the watchers: operations of the public interface *)

\* Queue and timers have no part in the poller's table.
LEMMA ScheduleTimerPoll ==
    ASSUME MemInv, PollInv, ~ AllocMayFail, ~ ReentrantUnwatch,
           \/ \E t \in Tasks : Schedule(t)
           \/ \E t \in Tasks, repeating \in BOOLEAN : SetTimer(t, repeating)
    PROVE  PollInv'
BY StutterPoll DEF Schedule, SetTimer, AllocResult, runVars, tickVars, tableVars

\* bb_runtime_cancel_task up to the callback leaves both tables alone.
LEMMA CancelTaskPoll ==
    ASSUME MemInv, PollInv, ~ ReentrantUnwatch, NEW t \in Tasks, CancelTask(t)
    PROVE  PollInv'
<1> USE DEF runVars, tickVars, tableVars
<1>0. TypeOK /\ flags \in FlagSets
    BY DEF MemInv, QueueInv, TypeOK, FlagSets
<1>1. NoUnwatch /\ TaskCancel("cancel", t, flags, None, 0, stack)
      /\ UNCHANGED <<watchers, interest, pc, pos>>
    BY UserFacts DEF CancelTask, NoUnwatch
<1>2. NoUnwatch'
    BY <1>0, <1>1, CancelNoUnwatch
<1> QED
    BY <1>1, <1>2, QuietPoll DEF LiveWatcher

\* A watcher that is replaced keeps its descriptor and its events.
LEMMA WatchReplacePoll ==
    ASSUME MemInv, TypeOK', PollInv, NoUnwatch, NEW t \in Tasks, NEW fd \in Fds,
           NEW events \in Masks, NEW mode \in Mode, mem[t] = "none",
           WatchReplace(t, fd, events, mode), UNCHANGED <<pc, pos>>
    PROVE  PollInv'
<1> DEFINE n == Len(watchers)
<1>0. TypeOK /\ flags \in FlagSets /\ watchers \in Seq(Watcher)
    BY DEF MemInv, QueueInv, TypeOK, FlagSets
<1>1. PICK i \in 1 .. n :
          /\ watchers' = [watchers EXCEPT ![i] = [@ EXCEPT !.mode = mode, !.task = t]]
          /\ TaskCancel("cancel", watchers[i].task,
                        [flags EXCEPT ![t] = PersistentFlag(mode)], None, 0, stack)
          /\ UNCHANGED interest
    BY DEF WatchReplace, ExactAt
<1>2. /\ Len(watchers') = n
      /\ \A k \in 1 .. n : /\ watchers'[k].fd = watchers[k].fd
                           /\ watchers'[k].events = watchers[k].events
    <2>1. n \in Nat /\ watchers \in [1 .. n -> Watcher]
        BY <1>0, LenProperties, ElementOfSeq
    <2>2. Len(watchers') = n
        BY <1>0, <1>1, ExceptSeq, TypeOK' DEF TypeOK
    <2>3. watchers[i] \in Watcher
        BY <2>1
    <2> QED
        BY <1>1, <2>1, <2>2, <2>3 DEF Watcher
<1>3. PICK u \in Tasks : u = watchers[i].task
    BY <1>0, ReferenceTypes
<1>4. PICK fl \in FlagSets : TaskCancel("cancel", u, fl, None, 0, stack)
    BY <1>0, <1>1, <1>3 DEF FlagSets, TaskFlag, PersistentFlag
<1>5. NoUnwatch'
    BY <1>0, <1>4, CancelNoUnwatch
<1>6. \A k \in 1 .. n : LiveWatcher(k)' <=> LiveWatcher(k)
    BY <1>2 DEF LiveWatcher
<1>7. WatchersApart' /\ \A f \in Fds : Agrees(f)'
    BY <1>1, <1>2, <1>6, SameEntries, NoCallAgrees DEF PollInv
<1> QED
    BY <1>5, <1>7, PollFrom

\* A new watcher adds its events, which no other watcher of the descriptor has.
LEMMA WatchAppendPoll ==
    ASSUME MemInv, PollInv, MasksApart, NoUnwatch, NEW t \in Tasks, NEW fd \in Fds,
           NEW events \in Masks, NEW mode \in Mode, pc \in {"out", "loop"},
           WatchAppend(t, fd, events, mode), UNCHANGED pc
    PROVE  PollInv'
<1> DEFINE entry == [fd |-> fd, events |-> events, mode |-> mode, task |-> t]
           n == Len(watchers)
<1>0. TypeOK /\ watchers \in Seq(Watcher) /\ interest \in [Fds -> SUBSET Event]
    BY DEF MemInv, QueueInv, TypeOK
<1>1. entry \in Watcher /\ entry.fd = fd /\ entry.events = events
    BY RuntimeAssumption DEF Watcher
<1>2. watchers' = Append(watchers, entry) /\ UNCHANGED stack
    BY DEF WatchAppend
<1> HIDE DEF entry
<1>3. /\ n \in Nat /\ n + 1 \in 1 .. Len(watchers') /\ watchers'[n + 1] = entry
      /\ \A i \in 1 .. n : i \in 1 .. Len(watchers') /\ watchers'[i] = watchers[i]
      /\ \A i \in 1 .. Len(watchers') : i \in 1 .. n \/ i = n + 1
    <2>1. /\ n \in Nat /\ Len(watchers') = n + 1 /\ watchers'[n + 1] = entry
          /\ \A i \in 1 .. n : watchers'[i] = watchers[i]
        BY <1>0, <1>1, <1>2, AppendProperties, LenProperties
    <2> HIDE DEF n
    <2> QED BY <2>1
<1>4. \A i \in 1 .. n : watchers[i].fd = fd => watchers[i].events \cap events = {}
    <2> SUFFICES ASSUME NEW i \in 1 .. n, watchers[i].fd = fd
                 PROVE  watchers[i].events \cap events = {}
        OBVIOUS
    <2>1. watchers[i].events # events
        BY DEF WatchAppend, ExactAt
    <2>2. watchers[i].events \in Masks
        BY <1>0, WatcherType DEF Watcher
    <2> QED
        BY <2>1, <2>2 DEF MasksApart
<1>5. /\ \A i \in 1 .. n : LiveWatcher(i)
      /\ \A i \in 1 .. Len(watchers') : LiveWatcher(i)'
    BY DEF LiveWatcher
<1> HIDE DEF n
<1>6. WatchersApart'
    BY <1>1, <1>3, <1>4 DEF PollInv, WatchersApart, n
<1>7. \A f \in Fds, event \in Event :
          Wants(f, event)' <=> Wants(f, event) \/ (f = fd /\ event \in events)
    <2> SUFFICES ASSUME NEW f \in Fds, NEW event \in Event
                 PROVE  Wants(f, event)' <=> Wants(f, event) \/ (f = fd /\ event \in events)
        OBVIOUS
    <2>1. Wants(f, event) <=> \E i \in 1 .. n : watchers[i].fd = f /\ event \in watchers[i].events
        BY <1>5 DEF Wants, n
    <2>2. Wants(f, event)' <=> \E i \in 1 .. Len(watchers') :
                                  watchers'[i].fd = f /\ event \in watchers'[i].events
        BY <1>5 DEF Wants
    <2> QED
        BY <1>1, <1>3, <2>1, <2>2
<1>8. RegisteredMask(fd) = interest[fd]
    <2>1. \A event \in Event : event \in RegisteredMask(fd) <=> Wants(fd, event)
        BY <1>5 DEF RegisteredMask, Wants, n
    <2> QED
        BY <1>0, <2>1, NoCallAgrees DEF Agrees, RegisteredMask
<1>9. /\ interest'[fd] = interest[fd] \cup events
      /\ \A f \in Fds : f # fd => interest'[f] = interest[f]
    BY <1>0, <1>8 DEF WatchAppend
<1>10. \A f \in Fds : Agrees(f)'
    <2> SUFFICES ASSUME NEW f \in Fds, NEW event \in Event
                 PROVE  event \in interest'[f] <=> Wants(f, event)'
        BY DEF Agrees
    <2>1. event \in interest[f] <=> Wants(f, event)
        BY NoCallAgrees DEF Agrees
    <2> QED
        BY <1>7, <1>9, <2>1
<1> QED
    BY <1>2, <1>6, <1>10, PollFrom DEF NoUnwatch

\* bb_runtime_unwatch_fd unregisters the descriptor before it drops the watchers.
LEMMA UnwatchFdPoll ==
    ASSUME MemInv, PollInv, ~ ReentrantUnwatch, NEW fd \in Fds, UnwatchFd(fd)
    PROVE  PollInv'
<1> USE DEF runVars, tickVars, tableVars
<1> DEFINE frame == [kind |-> "unwatch", task |-> None, cb |-> FALSE, fd |-> fd, at |-> 1]
<1>0. stack \in Seq(Frame) /\ interest \in [Fds -> SUBSET Event]
    BY DEF MemInv, QueueInv, TypeOK
<1>1. NoUnwatch /\ stack' = Append(stack, frame) /\ interest' = [interest EXCEPT ![fd] = {}]
      /\ UNCHANGED <<watchers, pc, pos>>
    BY UserFacts DEF UnwatchFd, NoUnwatch
<1>2. frame \in Frame /\ frame.kind = "unwatch" /\ frame.task = None /\ frame.fd = fd
      /\ frame.at = 1
    BY DEF Frame
<1> HIDE DEF frame
<1>3. /\ \A i \in 1 .. Len(stack) : i \in 1 .. Len(stack') /\ stack'[i] = stack[i]
      /\ stack'[Len(stack) + 1] = frame /\ Len(stack) + 1 \in 1 .. Len(stack')
      /\ \A i \in 1 .. Len(stack') : i \in 1 .. Len(stack) \/ i = Len(stack) + 1
    BY <1>0, <1>1, <1>2, Pushed
<1>4. interest'[fd] = {} /\ \A f \in Fds : f # fd => interest'[f] = interest[f]
    BY <1>0, <1>1
<1>5. WatchersApart'
    BY <1>1 DEF PollInv, WatchersApart
<1>6. UnwatchInv'
    BY <1>1, <1>2, <1>3, <1>4 DEF NoUnwatch, UnwatchInv
<1>7. \A f \in Fds : Unwatching(f)' \/ Agrees(f)'
    <2>1. Unwatching(fd)'
        BY <1>2, <1>3 DEF Unwatching
    <2>2. \A f \in Fds : Agrees(f)
        BY <1>1, NoCallAgrees
    <2>3. \A f, event : Wants(f, event)' <=> Wants(f, event)
        BY <1>1 DEF Wants, LiveWatcher
    <2> QED
        BY <1>4, <2>1, <2>2, <2>3 DEF Agrees
<1> QED
    BY <1>5, <1>6, <1>7 DEF PollInv

\* What user code may call keeps the tables in agreement.
LEMMA UserOperationPoll ==
    ASSUME MemInv, TypeOK', PollInv, MasksApart, ~ AllocMayFail, ~ ReentrantUnwatch,
           UserOperation
    PROVE  PollInv'
<1> USE DEF runVars, tickVars, tableVars
<1>1. CASE (\E on \in BOOLEAN : SetRunning(on)) \/ Run
    BY <1>1, StutterPoll DEF SetRunning, Run
<1>2. ASSUME NEW t \in Tasks, NEW fd \in Fds, NEW events \in Masks, NEW mode \in Mode,
             WatchFd(t, fd, events, mode)
      PROVE  PollInv'
    <2>1. /\ pc \in {"out", "loop"} /\ mem[t] = "none" /\ NoUnwatch /\ UNCHANGED <<pc, pos>>
        BY <1>2, UserFacts DEF WatchFd, NoUnwatch
    <2> QED
        BY <1>2, <2>1, WatchReplacePoll, WatchAppendPoll DEF WatchFd, WatchFail
<1> QED
    BY <1>1, <1>2, ScheduleTimerPoll, CancelTaskPoll, UnwatchFdPoll DEF UserOperation

-----------------------------------------------------------------------------
(* The poller and the watchers: a callback returns *)

\* bb_task_destroy after the callback leaves both tables alone.
LEMMA ReturnDestroyPoll ==
    ASSUME MemInv, PollInv, ReturnDestroy
    PROVE  PollInv'
<1> USE DEF runVars, tickVars, tableVars
<1>1. TypeOK /\ NoUnwatch /\ stack # <<>> /\ stack' = Caller
      /\ UNCHANGED <<watchers, interest, pc, pos>>
    BY TopNoUnwatch DEF MemInv, QueueInv, ReturnDestroy
<1>2. NoUnwatch'
    BY <1>1, PoppedNoUnwatch
<1> QED
    BY <1>1, <1>2, QuietPoll DEF LiveWatcher

\* The entry of a cancelled task is unregistered and dropped.
LEMMA ReturnCancelPoll ==
    ASSUME MemInv, PollInv, ReturnCancel
    PROVE  PollInv'
<1> USE DEF runVars, tickVars, tableVars
<1>0. TypeOK /\ UniqueOwner
    BY DEF MemInv, QueueInv, TableInv
<1>1. /\ stack # <<>> /\ Top.kind = "cancel" /\ stack' = Caller /\ NoUnwatch
      /\ timers' \subseteq timers /\ UNCHANGED <<pc, pos>>
    BY TopNoUnwatch DEF ReturnCancel
<1>2. pc # "destroyWatchers" /\ pc' # "destroyWatchers"
    BY <1>1, CallPhase
<1>3. NoUnwatch'
    BY <1>0, <1>1, PoppedNoUnwatch
<1>4. CASE UNCHANGED <<watchers, interest>>
    BY <1>1, <1>3, <1>4, QuietPoll DEF LiveWatcher
<1>5. ASSUME NEW i \in 1 .. Len(watchers),
             interest' = [interest EXCEPT ![watchers[i].fd] = @ \ watchers[i].events],
             watchers' = SwapRemove(watchers, i)
      PROVE  PollInv'
    <2>1. WatchersApart' /\ \A fd \in Fds, event \in Event :
                               Wants(fd, event)' <=> OthersWant(i, fd, event)
        BY <1>0, <1>1, <1>2, <1>5, SwapDrop DEF PollInv
    <2>2. LiveWatcher(i)
        BY <1>2 DEF LiveWatcher
    <2>3. \A fd \in Fds : Agrees(fd)'
        BY <1>0, <1>1, <1>5, <2>1, <2>2, NoCallAgrees, DropEntry DEF PollInv
    <2> QED
        BY <1>3, <2>1, <2>3, PollFrom
<1> QED
    BY <1>4, <1>5 DEF ReturnCancel, RemoveWatchersOf

\* The reaping is no call of bb_runtime_unwatch_fd.
LEMMA ReapNoUnwatch ==
    ASSUME NoUnwatch, TypeOK, NEW x \in Tasks, NEW fl \in FlagSets, NEW callers \in Seq(Frame),
           callers = stack \/ (stack # <<>> /\ callers = Caller), Reap(x, fl, callers)
    PROVE  NoUnwatch'
<1>1. CASE TaskDestroy(x, fl, callers)
    BY <1>1, DestroyNoUnwatch
<1>2. CASE stack' = callers
    BY <1>2, PoppedNoUnwatch DEF NoUnwatch
<1> QED
    BY <1>1, <1>2 DEF Reap

\* The reaping leaves both tables alone.
LEMMA ReturnRunPoll ==
    ASSUME MemInv, PollInv, ReturnRun
    PROVE  PollInv'
<1> USE DEF runVars, tickVars, tableVars
<1>0. TypeOK /\ flags \in FlagSets
    BY DEF MemInv, QueueInv, TypeOK, FlagSets
<1>1. /\ stack # <<>> /\ Top.kind = "run" /\ NoUnwatch
      /\ UNCHANGED <<watchers, interest, pc, pos>>
    BY TopNoUnwatch DEF ReturnRun
<1>2. PICK x \in Tasks : x = Top.task
    BY <1>0, <1>1, TopTask
<1>3. PICK fl \in FlagSets : Reap(x, fl, Caller)
    <2>1. [flags EXCEPT ![x] = @ \ {"RUNNING"}] \in FlagSets
        BY <1>0 DEF FlagSets
    <2> QED
        BY <1>2, <2>1 DEF ReturnRun
<1>4. NoUnwatch'
    BY <1>0, <1>1, <1>3, StackFacts, ReapNoUnwatch
<1> QED
    BY <1>1, <1>4, QuietPoll DEF LiveWatcher

\* The loop of bb_runtime_unwatch_fd: when it ends, no watcher of the unregistered
\* descriptor is left.
LEMMA UnwatchScanPoll ==
    ASSUME MemInv, PollInv, UnwatchScan
    PROVE  PollInv'
<1> USE DEF runVars, tickVars, tableVars
<1> DEFINE n == Len(stack)
<1>0. TypeOK /\ FrameShape /\ WatchersApart /\ UnwatchInv
    BY DEF MemInv, QueueInv, StackInv, PollInv
<1>1. /\ stack # <<>> /\ Top.kind = "unwatch" /\ Top.task = None
      /\ UNCHANGED <<watchers, interest, pc, pos>>
    BY DEF UnwatchScan
<1>2. Top \in Frame /\ n \in 1 .. n /\ Top = stack[n] /\ n \in Nat
    BY <1>0, <1>1, StackFacts
<1>3. PICK fd \in Fds : fd = Top.fd
    BY <1>0, <1>1, <1>2 DEF UnwatchInv
<1>4. /\ Top.at \in Nat /\ Top.at >= 1 /\ interest[fd] = {}
      /\ \A k \in 1 .. Len(watchers) : k < Top.at => watchers[k].fd # fd
    BY <1>0, <1>1, <1>2, <1>3 DEF UnwatchInv, Frame
<1>5. WatchersApart' /\ \A f : (Agrees(f)' <=> Agrees(f))
    BY <1>0, <1>1 DEF WatchersApart, Agrees, Wants, LiveWatcher
<1>6. \A i \in 1 .. n : i # n => stack[i].kind # "unwatch"
    BY <1>0 DEF FrameShape
<1>7. \A f \in Fds : f # fd => Agrees(f)
    BY <1>2, <1>3, <1>6 DEF PollInv, Unwatching
<1>8. CASE /\ \A i \in Top.at .. Len(watchers) : watchers[i].fd # fd
           /\ stack' = Caller
    <2>1. Len(watchers) \in Nat
        BY <1>0, LenProperties DEF TypeOK
    <2>2. \A k \in 1 .. Len(watchers) : watchers[k].fd # fd
        BY <1>4, <1>8, <2>1
    <2>3. Agrees(fd)
        BY <1>4, <2>2 DEF Agrees, Wants
    <2>4. NoUnwatch'
        <3>1. \A i \in 1 .. Len(stack') : i \in 1 .. n /\ i # n /\ stack'[i] = stack[i]
            BY <1>0, <1>1, <1>8, Popped
        <3> QED
            BY <1>6, <3>1 DEF NoUnwatch
    <2> QED
        BY <1>5, <1>7, <2>3, <2>4, PollFrom
<1>9. ASSUME NEW i \in Top.at .. Len(watchers), watchers[i].fd = fd,
             \A k \in Top.at .. Len(watchers) : watchers[k].fd = fd => i <= k,
             TaskCancel("unwatch", watchers[i].task, flags, Top.fd, i, Caller)
      PROVE  PollInv'
    <2>1. i \in 1 .. Len(watchers) /\ i \in Nat /\ i >= 1 /\ Len(watchers) \in Nat
        BY <1>0, <1>4, <1>9, LenProperties DEF TypeOK
    <2>2. PICK u \in Tasks : u = watchers[i].task
        BY <1>0, <2>1, ReferenceTypes
    <2>3. TaskCancel("unwatch", u, flags, fd, i, Caller)
        BY <1>3, <1>9, <2>2
    <2>4. \E frame \in Frame :
             /\ frame.kind = "unwatch" /\ frame.task = u /\ frame.fd = fd /\ frame.at = i
             /\ stack' = Append(Caller, frame)
        BY <1>0, <1>1, <2>1, <2>3, UnwatchCalls
    <2>5. PICK frame \in Frame :
             /\ frame.kind = "unwatch" /\ frame.fd = fd /\ frame.at = i
             /\ stack' = Append(Caller, frame)
        BY <2>4
    <2>6. /\ Len(stack') = n /\ stack'[n] = frame
          /\ \A k \in 1 .. n : k # n => stack'[k] = stack[k]
        BY <1>0, <1>1, <2>5, Replaced
    <2>7. \A k \in 1 .. Len(watchers) : k < i => watchers[k].fd # fd
        BY <1>4, <1>9, <2>1
    <2> HIDE DEF n
    <2>8. UnwatchInv'
        BY <1>1, <1>4, <1>6, <1>9, <2>5, <2>6, <2>7 DEF UnwatchInv
    <2>9. Unwatching(fd)'
        BY <1>2, <2>5, <2>6 DEF Unwatching
    <2> QED
        BY <1>5, <1>7, <2>8, <2>9 DEF PollInv
<1> QED
    BY <1>3, <1>8, <1>9 DEF UnwatchScan

\* The entry of the unregistered descriptor is dropped; the entry that takes its
\* place is looked at by the next iteration.
LEMMA UnwatchRemovePoll ==
    ASSUME MemInv, PollInv, UnwatchRemove
    PROVE  PollInv'
<1> USE DEF runVars, tickVars, tableVars
<1> DEFINE frame == [Top EXCEPT !.task = None, !.cb = FALSE]
           n == Len(stack)
<1>0. TypeOK /\ UniqueOwner /\ FrameShape /\ WatchersApart /\ UnwatchInv
    BY DEF MemInv, QueueInv, StackInv, TableInv, PollInv
<1>1. /\ stack # <<>> /\ Top.kind = "unwatch" /\ Top.task # None
      /\ stack' = Append(Caller, frame) /\ UNCHANGED <<interest, timers>>
    BY DEF UnwatchRemove
<1>2. Top \in Frame /\ n \in 1 .. n /\ Top = stack[n]
    BY <1>0, <1>1, StackFacts
<1>3. /\ frame \in Frame /\ frame.kind = "unwatch" /\ frame.task = None
      /\ frame.fd = Top.fd /\ frame.at = Top.at
    BY <1>1, <1>2 DEF Frame
<1> HIDE DEF frame
<1>4. PICK w \in 1 .. Len(watchers) : w = Top.at
    BY <1>0, <1>1, <1>2 DEF FrameShape
<1>5. PICK fd \in Fds : fd = Top.fd
    BY <1>0, <1>1, <1>2 DEF UnwatchInv
<1>6. /\ watchers[w].fd = fd /\ interest[fd] = {}
      /\ \A k \in 1 .. Len(watchers) : k < w => watchers[k].fd # fd
    BY <1>0, <1>1, <1>2, <1>4, <1>5 DEF UnwatchInv
<1>7. watchers # <<>>
    BY <1>0, <1>4, EmptySeq
<1>8. watchers' = SwapRemove(watchers, w) /\ pc' = pc
    BY <1>4, <1>7 DEF UnwatchRemove
<1>9. pc # "destroyWatchers" /\ pc' # "destroyWatchers"
    BY <1>1, <1>8, CallPhase
<1>10. WatchersApart' /\ \A f \in Fds, event \in Event :
                             Wants(f, event)' <=> OthersWant(w, f, event)
    BY <1>0, <1>1, <1>8, <1>9, SwapDrop
<1>11. \A k \in 1 .. Len(watchers') : k < w => watchers'[k].fd # fd
    <2>1. Len(watchers) \in Nat \ {0} /\ w \in Nat
        BY <1>0, <1>7, EmptySeq, LenProperties DEF TypeOK
    <2>2. /\ Len(watchers') = Len(watchers) - 1
          /\ \A k \in 1 .. (Len(watchers) - 1) :
                watchers'[k] = IF k = w THEN watchers[Len(watchers)] ELSE watchers[k]
        BY <1>0, <1>7, <1>8, <2>1, SwapRemoveProperties DEF TypeOK
    <2> QED
        BY <1>6, <2>1, <2>2
<1>12. /\ Len(stack') = n /\ stack'[n] = frame
       /\ \A k \in 1 .. n : k # n => stack'[k] = stack[k]
    BY <1>0, <1>1, <1>3, Replaced
<1>13. \A i \in 1 .. n : i # n => stack[i].kind # "unwatch"
    BY <1>0 DEF FrameShape
<1> HIDE DEF n
<1>14. UnwatchInv'
    BY <1>1, <1>3, <1>4, <1>5, <1>6, <1>11, <1>12, <1>13 DEF UnwatchInv
<1>15. Unwatching(fd)'
    BY <1>2, <1>3, <1>5, <1>12 DEF Unwatching
<1>16. ASSUME NEW f \in Fds, f # fd
       PROVE  Agrees(f)'
    <2>1. Agrees(f)
        BY <1>2, <1>5, <1>13, <1>16 DEF PollInv, Unwatching, n
    <2>2. \A event \in Event : OthersWant(w, f, event) <=> Wants(f, event)
        BY <1>6, <1>16 DEF OthersWant, Wants
    <2> QED
        BY <1>1, <1>10, <2>1, <2>2 DEF Agrees
<1> QED
    BY <1>10, <1>14, <1>15, <1>16 DEF PollInv

\* What goes on after a callback keeps the tables in agreement.
LEMMA ReturnPoll ==
    ASSUME MemInv, PollInv, Return
    PROVE  PollInv'
BY ReturnDestroyPoll, ReturnCancelPoll, UnwatchScanPoll, UnwatchRemovePoll, ReturnRunPoll
DEF Return

-----------------------------------------------------------------------------
(* The poller and the watchers: the tick and the shutdown *)

\* Between two callbacks no call is in progress.
LEMMA EmptyNoUnwatch ==
    ASSUME stack = <<>>
    PROVE  NoUnwatch
BY EmptySeq DEF NoUnwatch

\* A one-shot watcher is unregistered with its own events.
LEMMA DispatchPoll ==
    ASSUME MemInv, PollInv, Dispatch
    PROVE  PollInv'
<1>0. TypeOK /\ UniqueOwner /\ Len(stack) = 0
    BY DEF MemInv, QueueInv, TableInv, StackInv, PhaseShape, Dispatch
<1>1. NoUnwatch /\ NoUnwatch' /\ UNCHANGED <<timers, pc>> /\ pc = "dispatch"
    BY <1>0 DEF NoUnwatch, Dispatch
<1>2. CASE UNCHANGED <<watchers, interest>>
    BY <1>1, <1>2, QuietPoll DEF LiveWatcher
<1>3. ASSUME NEW i \in 1 .. Len(watchers),
             interest' = [interest EXCEPT ![watchers[i].fd] = @ \ watchers[i].events],
             watchers' = SwapRemove(watchers, i)
      PROVE  PollInv'
    <2>1. WatchersApart' /\ \A fd \in Fds, event \in Event :
                               Wants(fd, event)' <=> OthersWant(i, fd, event)
        BY <1>0, <1>1, <1>3, SwapDrop DEF PollInv
    <2>2. LiveWatcher(i)
        BY <1>1 DEF LiveWatcher
    <2>3. \A fd \in Fds : Agrees(fd)'
        BY <1>0, <1>1, <1>3, <2>1, <2>2, NoCallAgrees, DropEntry DEF PollInv
    <2> QED
        BY <1>1, <2>1, <2>3, PollFrom
<1>4. \A i \in pos .. Len(watchers) : i \in 1 .. Len(watchers)
    BY <1>0, LenProperties DEF TypeOK
<1> QED
    BY <1>2, <1>3, <1>4 DEF Dispatch, WakeWatcher

\* Running or reaping the next task leaves both tables alone.
LEMMA RunNextPoll ==
    ASSUME MemInv, PollInv, RunNext
    PROVE  PollInv'
<1> USE DEF runVars, tickVars, tableVars
<1>0. TypeOK /\ flags \in FlagSets /\ stack \in Seq(Frame)
    BY DEF MemInv, QueueInv, TypeOK, FlagSets
<1>1. stack = <<>> /\ NoUnwatch /\ queue # <<>> /\ UNCHANGED <<watchers, interest, pc, pos>>
    BY EmptyNoUnwatch DEF RunNext
<1>2. PICK x \in Tasks : x = Head(queue)
    BY <1>1, HeadFacts
<1>3. PICK fl \in FlagSets : fl = [flags EXCEPT ![x] = @ \ {"SCHEDULED"}]
    BY <1>0, PoppedFlags
<1>4. NoUnwatch'
    <2>1. CASE Reap(x, fl, stack)
        BY <1>0, <1>1, <2>1, ReapNoUnwatch
    <2>2. CASE stack' = Append(stack, [kind |-> "run", task |-> x, cb |-> TRUE,
                                       fd |-> None, at |-> 0])
        <3> DEFINE frame == [kind |-> "run", task |-> x, cb |-> TRUE, fd |-> None, at |-> 0]
        <3>1. frame \in Frame /\ frame.kind # "unwatch"
            BY RuntimeAssumption DEF Frame
        <3> HIDE DEF frame
        <3>2. stack' = Append(stack, frame)
            BY <2>2 DEF frame
        <3> QED
            BY <1>0, <1>1, <3>1, <3>2, PushedNoUnwatch
    <2> QED
        BY <1>2, <1>3, <2>1, <2>2 DEF RunNext
<1> QED
    BY <1>1, <1>4, QuietPoll DEF LiveWatcher

\* The other phases leave both tables as they are.
LEMMA PhasePoll ==
    ASSUME MemInv, PollInv,
           \/ RunReturns \/ PollerWait \/ DispatchDone \/ TimersDone \/ TickDone
           \/ DestroyRuntime \/ DrainTimersDone \/ DrainQueueDone
           \/ \E timer \in Timer : FireTimer(timer)
    PROVE  PollInv'
<1> USE DEF runVars, tickVars, tableVars
<1>1. CASE RunReturns
    BY <1>1, StutterPoll DEF RunReturns
<1>2. CASE ~ RunReturns
    <2>1. Len(stack) = 0 /\ UNCHANGED <<watchers, interest, stack>>
        BY <1>2, EmptySeq
        DEF PollerWait, DispatchDone, TimersDone, TickDone, DestroyRuntime, DrainTimersDone,
            DrainQueueDone, FireTimer, MemInv, StackInv, PhaseShape
    <2>2. NoUnwatch /\ NoUnwatch'
        BY <2>1 DEF NoUnwatch
    <2>3. pc # "destroyWatchers" /\ (pc' = "destroyWatchers" => pos' = 1)
        BY <1>2 DEF PollerWait, DispatchDone, TimersDone, TickDone, DestroyRuntime,
                    DrainTimersDone, DrainQueueDone, FireTimer
    <2>4. \A k \in 1 .. Len(watchers) : LiveWatcher(k)' <=> LiveWatcher(k)
        BY <2>1, <2>3 DEF LiveWatcher
    <2> QED
        BY <2>1, <2>2, <2>4, QuietPoll
<1> QED
    BY <1>1, <1>2

\* The phases of bb_runtime_tick keep the tables in agreement.
LEMMA TickPoll ==
    ASSUME MemInv, PollInv, PollerWait \/ TickStep \/ RunReturns
    PROVE  PollInv'
BY DispatchPoll, RunNextPoll, PhasePoll DEF TickStep

\* Draining the queue leaves both tables alone.
LEMMA DrainQueuePoll ==
    ASSUME MemInv, PollInv, DrainQueue
    PROVE  PollInv'
<1> USE DEF runVars, tickVars, tableVars
<1>0. TypeOK /\ flags \in FlagSets /\ stack \in Seq(Frame)
    BY DEF MemInv, QueueInv, TypeOK, FlagSets
<1>1. stack = <<>> /\ NoUnwatch /\ queue # <<>> /\ UNCHANGED <<watchers, interest, pc, pos>>
    BY EmptyNoUnwatch DEF DrainQueue
<1>2. PICK x \in Tasks : x = Head(queue)
    BY <1>1, HeadFacts
<1>3. PICK fl \in FlagSets : fl = [flags EXCEPT ![x] = @ \ {"SCHEDULED"}]
    BY <1>0, PoppedFlags
<1>4. NoUnwatch'
    <2>1. CASE TaskDestroy(x, fl, stack)
        BY <1>0, <1>1, <2>1, DestroyNoUnwatch
    <2>2. CASE UNCHANGED stack
        BY <1>1, <2>2 DEF NoUnwatch
    <2> QED
        BY <1>2, <1>3, <2>1, <2>2 DEF DrainQueue
<1> QED
    BY <1>1, <1>4, QuietPoll DEF LiveWatcher

\* The shutdown unregisters the entry that it passes.
LEMMA DrainWatchersPoll ==
    ASSUME MemInv, PollInv, DrainWatchers
    PROVE  PollInv'
<1>0. TypeOK /\ flags \in FlagSets /\ stack \in Seq(Frame) /\ pos \in Nat \ {0}
      /\ Len(watchers) \in Nat
    BY LenProperties DEF MemInv, QueueInv, TypeOK, FlagSets
<1>1. /\ pc = "destroyWatchers" /\ stack = <<>> /\ NoUnwatch /\ pos' = pos + 1
      /\ UNCHANGED <<watchers, pc>>
    BY EmptyNoUnwatch DEF DrainWatchers
<1>2. PICK i \in 1 .. Len(watchers) : i = pos
    BY <1>0 DEF DrainWatchers
<1>3. PICK x \in Tasks : x = watchers[i].task
    BY <1>0, ReferenceTypes
<1>4. /\ TaskDestroy(x, flags, stack)
      /\ interest' = [interest EXCEPT ![watchers[i].fd] = @ \ watchers[i].events]
    BY <1>2, <1>3 DEF DrainWatchers
<1>5. NoUnwatch'
    BY <1>0, <1>1, <1>4, DestroyNoUnwatch
<1>6. LiveWatcher(i) /\ \A k \in 1 .. Len(watchers) :
                            LiveWatcher(k)' <=> LiveWatcher(k) /\ k # i
    BY <1>0, <1>1, <1>2 DEF LiveWatcher
<1>7. \A fd \in Fds, event \in Event : Wants(fd, event)' <=> OthersWant(i, fd, event)
    BY <1>1, <1>6 DEF Wants, OthersWant
<1>8. WatchersApart /\ WatchersApart'
    BY <1>1 DEF PollInv, WatchersApart
<1>9. \A fd \in Fds : Agrees(fd)'
    BY <1>0, <1>1, <1>4, <1>6, <1>7, <1>8, NoCallAgrees, DropEntry
<1> QED
    BY <1>5, <1>8, <1>9, PollFrom

\* The table is dropped once every entry has been unregistered.
LEMMA DrainWatchersDonePoll ==
    ASSUME MemInv, PollInv, DrainWatchersDone
    PROVE  PollInv'
<1>0. pos \in Nat \ {0} /\ Len(watchers) \in Nat
    BY LenProperties DEF MemInv, QueueInv, TypeOK
<1>1. /\ pc = "destroyWatchers" /\ pos > Len(watchers) /\ watchers' = <<>> /\ NoUnwatch
      /\ UNCHANGED <<interest, stack>>
    BY EmptyNoUnwatch DEF DrainWatchersDone
<1>2. Len(watchers') = 0
    BY <1>1, EmptySeq
<1>3. WatchersApart' /\ NoUnwatch'
    BY <1>1, <1>2 DEF WatchersApart, NoUnwatch
<1>4. \A fd, event : ~ Wants(fd, event) /\ ~ Wants(fd, event)'
    BY <1>0, <1>1, <1>2 DEF Wants, LiveWatcher
<1>5. \A fd \in Fds : Agrees(fd)'
    BY <1>1, <1>4, NoCallAgrees DEF Agrees
<1> QED
    BY <1>3, <1>5, PollFrom

\* Draining the timers leaves both tables alone.
LEMMA DrainTimersPoll ==
    ASSUME MemInv, PollInv, NEW timer \in Timer, DrainTimers(timer)
    PROVE  PollInv'
<1> USE DEF runVars, tickVars, tableVars
<1>0. TypeOK /\ flags \in FlagSets /\ stack \in Seq(Frame)
    BY DEF MemInv, QueueInv, TypeOK, FlagSets
<1>1. /\ NoUnwatch /\ UNCHANGED <<watchers, interest, pc, pos>>
      /\ TaskDestroy(timer.task, flags, stack)
    BY EmptyNoUnwatch DEF DrainTimers
<1>2. PICK x \in Tasks : x = timer.task
    BY DEF Timer
<1>3. NoUnwatch'
    BY <1>0, <1>1, <1>2, DestroyNoUnwatch
<1> QED
    BY <1>1, <1>3, QuietPoll DEF LiveWatcher

\* The loops of bb_runtime_destroy keep the tables in agreement.
LEMMA DestroyStepPoll ==
    ASSUME MemInv, PollInv, DestroyRuntime \/ DestroyStep
    PROVE  PollInv'
BY PhasePoll, DrainQueuePoll, DrainWatchersPoll, DrainWatchersDonePoll, DrainTimersPoll
DEF DestroyStep

\* The invariant is inductive for disjoint masks when no registration fails.
LEMMA NextPoll ==
    ASSUME MemInv, TypeOK', PollInv, MasksApart, ~ AllocMayFail, ~ ReentrantUnwatch,
           [Next]_vars
    PROVE  PollInv'
<1>1. CASE UNCHANGED vars \/ Gone
    BY <1>1, StutterPoll DEF vars, Gone
<1> QED
    BY <1>1, UserOperationPoll, ReturnPoll, TickPoll, DestroyStepPoll DEF Next

\* Outside the loop over the watchers every entry of the table is live.
LEMMA PollMatches ==
    ASSUME TypeOK, PollInv
    PROVE  PollerMatchesWatchers
<1> SUFFICES ASSUME NEW fd \in Fds, ~ Unwatching(fd), pc # "destroyWatchers"
             PROVE  interest[fd] = RegisteredMask(fd)
    BY DEF PollerMatchesWatchers, Unwatching
<1>1. \A event \in Event : event \in interest[fd] <=> Wants(fd, event)
    BY DEF PollInv, Agrees
<1>2. \A event \in Event : event \in RegisteredMask(fd) <=> Wants(fd, event)
    BY DEF RegisteredMask, Wants, LiveWatcher
<1>3. interest[fd] \subseteq Event /\ RegisteredMask(fd) \subseteq Event
    BY DEF TypeOK, RegisteredMask
<1> QED
    BY <1>1, <1>2, <1>3

\* The poller asks for what the watchers wait for, provided that registrations
\* do not fail and that two different masks of a descriptor are disjoint.
THEOREM PollerMatchesAlways ==
    ASSUME ~ AllocMayFail, ~ ReentrantUnwatch, MasksApart
    PROVE  Spec => []PollerMatchesWatchers
<1>1. Init => PollInv
    <2> SUFFICES ASSUME Init
                 PROVE  PollInv
        OBVIOUS
    <2>1. Len(watchers) = 0 /\ Len(stack) = 0
        BY EmptySeq DEF Init
    <2> QED
        BY <2>1 DEF Init, PollInv, WatchersApart, UnwatchInv, Agrees, Wants
<1>2. MemInv /\ MemInv' /\ PollInv /\ [Next]_vars => PollInv'
    BY NextPoll DEF MemInv, QueueInv
<1>3. MemInv /\ PollInv => PollerMatchesWatchers
    BY PollMatches DEF MemInv, QueueInv
<1>4. Spec => []MemInv
    BY MemoryInvariant
<1> QED
    BY <1>1, <1>2, <1>3, <1>4, PTL DEF Spec

====
