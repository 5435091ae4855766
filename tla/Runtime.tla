------------------------------- MODULE Runtime -------------------------------
(***************************************************************************)
(* The cooperative runtime of modules/runtime: tasks, the FIFO scheduler,   *)
(* the watcher table with the poller's interest masks, the timers, the      *)
(* phases of one tick and the shutdown.                                     *)
(*                                                                          *)
(* The program is single-threaded; what makes it hard is that the runtime   *)
(* calls user code (a task's run and cleanup callbacks) in the middle of    *)
(* its own operations, and that code calls the runtime back.  Control is a  *)
(* phase (pc) plus a stack of the calls that are waiting for a callback to  *)
(* return: a frame remembers what its operation still has to do.  User      *)
(* operations are enabled while control is in user code.                    *)
(*                                                                          *)
(* Time is left to module TimerHeap: here any set of timers may be due.     *)
(***************************************************************************)
EXTENDS SwapTable

CONSTANTS
    Tasks,             \* identities of task allocations, each used once
    Fds,               \* file descriptors
    Masks,             \* event masks that callers pass to bb_runtime_watch_fd
    MaxEvents,         \* BB_RUNTIME_MAX_EVENTS, the size of an event batch
    MaxDepth,          \* bound: nesting of calls that wait for a callback
    AllocMayFail,      \* malloc, realloc and epoll_ctl(ADD/MOD) may fail
    ReentrantUnwatch,  \* cleanups run by bb_runtime_unwatch_fd call the runtime
    None               \* no task, no descriptor

Event == {"READ", "WRITE"}
Mode == {"ONESHOT", "PERSISTENT"}
TaskFlag == {"SCHEDULED", "RUNNING", "CANCELLED", "PERSISTENT", "FINALIZED"}

ASSUME RuntimeAssumption ==
    /\ None \notin Tasks
    /\ None \notin Fds
    /\ Masks \subseteq (SUBSET Event) \ {{}}
    /\ MaxEvents \in Nat
    /\ MaxDepth \in Nat
    /\ AllocMayFail \in BOOLEAN
    /\ ReentrantUnwatch \in BOOLEAN

VARIABLES
    mem,       \* [Tasks -> {"none", "live", "freed"}]: the task's allocation
    flags,     \* [Tasks -> SUBSET TaskFlag]: task->state
    cleanups,  \* [Tasks -> Nat]: calls of the task's cleanup callback (ghost)
    queue,     \* the scheduler's FIFO list of tasks
    watchers,  \* runtime->watchers[0 .. watcher_count - 1]
    interest,  \* [Fds -> SUBSET Event]: the poller's fds[] table
    timers,    \* the live timers, as a set of [task, repeating]
    running,   \* runtime->running
    inRun,     \* the program is inside bb_runtime_run
    pc,        \* phase of bb_runtime_tick or of bb_runtime_destroy
    ready,     \* events of bb_poller_wait that are still to be dispatched
    pos,       \* index of the loop over watchers
    due,       \* timers still to be handled by the loop over timers
    stack      \* operations waiting for a callback to return, innermost last

vars == <<mem, flags, cleanups, queue, watchers, interest, timers, running,
          inRun, pc, ready, pos, due, stack>>

tableVars == <<watchers, interest, timers>>
tickVars == <<pc, ready, pos, due>>
runVars == <<running, inRun>>

Watcher == [fd : Fds, events : Masks, mode : Mode, task : Tasks]
Timer == [task : Tasks, repeating : BOOLEAN]
PollEvent == [fd : Fds, events : SUBSET Event]
Frame == {frame \in [kind : {"run", "destroy", "cancel", "unwatch"},
                     task : Tasks \cup {None},
                     cb : BOOLEAN,           \* a user callback is executing
                     fd : Fds \cup {None},   \* unwatch: the descriptor
                     at : Nat] :             \* unwatch: the loop index
             IF frame.kind = "unwatch" THEN frame.at >= 1 ELSE frame.task # None}
Phase == {"out", "dispatch", "timers", "loop", "destroyQueue",
          "destroyWatchers", "destroyTimers", "gone", "undefined"}

Init ==
    /\ mem = [t \in Tasks |-> "none"]
    /\ flags = [t \in Tasks |-> {}]
    /\ cleanups = [t \in Tasks |-> 0]
    /\ queue = <<>>
    /\ watchers = <<>>
    /\ interest = [fd \in Fds |-> {}]
    /\ timers = {}
    /\ running = FALSE
    /\ inRun = FALSE
    /\ pc = "out"
    /\ ready = <<>>
    /\ pos = 1
    /\ due = {}
    /\ stack = <<>>

-----------------------------------------------------------------------------
(* Helpers *)

\* What an allocation (or a registration with the kernel) may return.
AllocResult == IF AllocMayFail THEN BOOLEAN ELSE {TRUE}

Top == stack[Len(stack)]
Caller == SubSeq(stack, 1, Len(stack) - 1)

\* Control is in user code: outside the runtime, or inside a run or cleanup
\* callback.  Callbacks that bb_runtime_destroy calls are assumed not to call
\* the runtime that is being destroyed.
UserCode ==
    \/ pc = "out" /\ stack = <<>> /\ ~ inRun
    \/ /\ pc \in {"out", "loop"}
       /\ stack # <<>>
       /\ Top.cb
       /\ Top.kind = "unwatch" => ReentrantUnwatch

\* Mutant of Enqueue: the SCHEDULED bit is not looked at.
EnqueueAgain(t, allocated) ==
    IF allocated
    THEN /\ queue' = Append(queue, t)
         /\ flags' = [flags EXCEPT ![t] = @ \cup {"SCHEDULED"}]
    ELSE UNCHANGED <<queue, flags>>

\* bb_scheduler_schedule(task): a task that is queued already stays where it is.
Enqueue(t, allocated) ==
    IF allocated /\ "SCHEDULED" \notin flags[t]
    THEN /\ queue' = Append(queue, t)
         /\ flags' = [flags EXCEPT ![t] = @ \cup {"SCHEDULED"}]
    ELSE UNCHANGED <<queue, flags>>

\* Mutant of Finalize: the FINALIZED bit is not looked at.
FinalizeAgain(t, fl) ==
    /\ flags' = [fl EXCEPT ![t] = @ \cup {"FINALIZED"}]
    /\ cleanups' = [cleanups EXCEPT ![t] = @ + 1]

\* _bb_task_finalize(task), from the state in which fl are the tasks' flags.
Finalize(t, fl) ==
    /\ flags' = [fl EXCEPT ![t] = @ \cup {"FINALIZED"}]
    /\ cleanups' = IF "FINALIZED" \in fl[t] THEN cleanups
                   ELSE [cleanups EXCEPT ![t] = @ + 1]

\* The call that waits for the cleanup callback of t (if one is called).
CleanupFrame(kind, t, fl, fd, at) ==
    [kind |-> kind, task |-> t, cb |-> "FINALIZED" \notin fl[t],
     fd |-> fd, at |-> at]

\* bb_task_destroy(task); the frame frees the task when the callback returns.
TaskDestroy(t, fl, callers) ==
    /\ Finalize(t, fl)
    /\ stack' = Append(callers, CleanupFrame("destroy", t, fl, None, 0))

\* Mutant of TaskCancel: the PERSISTENT bit is kept.
TaskCancelKeepsPersistent(kind, t, fl, fd, at, callers) ==
    /\ Finalize(t, [fl EXCEPT ![t] = @ \cup {"CANCELLED"}])
    /\ stack' = Append(callers, CleanupFrame(kind, t, fl, fd, at))

\* bb_task_cancel(task), called by the operation that the frame names.
TaskCancel(kind, t, fl, fd, at, callers) ==
    /\ Finalize(t, [fl EXCEPT ![t] = (@ \cup {"CANCELLED"}) \ {"PERSISTENT"}])
    /\ stack' = Append(callers, CleanupFrame(kind, t, fl, fd, at))

\* Persistent watchers and repeating timers keep their task alive.
PersistentFlag(mode) == IF mode = "PERSISTENT" THEN {"PERSISTENT"} ELSE {}

-----------------------------------------------------------------------------
(* Operations of the public interface, called from user code *)

\* bb_runtime_schedule_ex
Schedule(t) ==
    /\ UserCode
    /\ mem[t] = "none"
    /\ mem' = [mem EXCEPT ![t] = "live"]
    /\ \E ok \in AllocResult :
        IF ok
        THEN /\ Enqueue(t, TRUE)
             /\ UNCHANGED <<cleanups, stack>>
        ELSE /\ Len(stack) < MaxDepth
             /\ TaskDestroy(t, flags, stack)
             /\ UNCHANGED queue
    /\ UNCHANGED <<tableVars, tickVars, runVars>>

\* bb_runtime_set_interval_ex and bb_runtime_set_timeout_ex
SetTimer(t, repeating) ==
    /\ UserCode
    /\ mem[t] = "none"
    /\ mem' = [mem EXCEPT ![t] = "live"]
    /\ LET fl == [flags EXCEPT ![t] = IF repeating THEN {"PERSISTENT"} ELSE {}]
       IN \E ok \in AllocResult :
            IF ok
            THEN /\ timers' = timers \cup {[task |-> t, repeating |-> repeating]}
                 /\ flags' = fl
                 /\ UNCHANGED <<cleanups, stack>>
            ELSE /\ Len(stack) < MaxDepth
                 /\ TaskDestroy(t, fl, stack)
                 /\ UNCHANGED timers
    /\ UNCHANGED <<queue, watchers, interest, tickVars, runVars>>

\* _bb_runtime_fd_registered_mask
RegisteredMask(fd) ==
    {e \in Event : \E i \in 1 .. Len(watchers) :
                      watchers[i].fd = fd /\ e \in watchers[i].events}

\* _bb_runtime_find_watcher_exact
ExactAt(fd, events) ==
    {i \in 1 .. Len(watchers) :
        watchers[i].fd = fd /\ watchers[i].events = events}

\* The exact-match branch of _watch_fd: the new task takes over the entry and
\* the old one is cancelled.
WatchReplace(t, fd, events, mode) ==
    \E i \in ExactAt(fd, events) :
        /\ \A k \in ExactAt(fd, events) : i <= k
        /\ Len(stack) < MaxDepth
        /\ watchers' = [watchers EXCEPT ![i] =
                           [@ EXCEPT !.mode = mode, !.task = t]]
        /\ TaskCancel("cancel", watchers[i].task,
                      [flags EXCEPT ![t] = PersistentFlag(mode)], None, 0, stack)
        /\ UNCHANGED interest

\* The growing branch of _watch_fd: the poller is moved to the wider mask.
WatchAppend(t, fd, events, mode) ==
    LET existing == RegisteredMask(fd) IN
    /\ ExactAt(fd, events) = {}
    /\ watchers' = Append(watchers,
                     [fd |-> fd, events |-> events, mode |-> mode, task |-> t])
    /\ interest' = IF events \subseteq existing THEN interest
                   ELSE [interest EXCEPT ![fd] = (@ \ existing) \cup existing \cup events]
    /\ flags' = [flags EXCEPT ![t] = PersistentFlag(mode)]
    /\ UNCHANGED <<cleanups, stack>>

\* _watch_fd fails: the table cannot grow, or the wider mask is refused and the
\* former one is restored on a best-effort basis.
WatchFail(t, fd, events) ==
    LET existing == RegisteredMask(fd) IN
    /\ AllocMayFail
    /\ ExactAt(fd, events) = {}
    /\ Len(stack) < MaxDepth
    /\ \/ UNCHANGED interest
       \/ /\ ~ (events \subseteq existing)
          /\ \E restored \in {{}, existing} :
               interest' = [interest EXCEPT ![fd] = (@ \ existing) \cup restored]
    /\ TaskDestroy(t, flags, stack)
    /\ UNCHANGED watchers

\* bb_runtime_watch_fd_ex
WatchFd(t, fd, events, mode) ==
    /\ UserCode
    /\ mem[t] = "none"
    /\ mem' = [mem EXCEPT ![t] = "live"]
    /\ \/ WatchReplace(t, fd, events, mode)
       \/ WatchAppend(t, fd, events, mode)
       \/ WatchFail(t, fd, events)
    /\ UNCHANGED <<queue, timers, tickVars, runVars>>

\* bb_runtime_cancel_task, up to the cleanup callback.  Callers hold a pointer
\* to a task that is not freed and that is not being destroyed.
CancelTask(t) ==
    /\ UserCode
    /\ mem[t] = "live"
    /\ \A i \in 1 .. Len(stack) : ~ (stack[i].kind = "destroy" /\ stack[i].task = t)
    /\ Len(stack) < MaxDepth
    /\ TaskCancel("cancel", t, flags, None, 0, stack)
    /\ UNCHANGED <<mem, queue, tableVars, tickVars, runVars>>

\* bb_runtime_unwatch_fd, up to the loop over watchers.
UnwatchFd(fd) ==
    /\ UserCode
    /\ Len(stack) < MaxDepth
    /\ interest' = [interest EXCEPT ![fd] = {}]
    /\ stack' = Append(stack, [kind |-> "unwatch", task |-> None, cb |-> FALSE,
                               fd |-> fd, at |-> 1])
    /\ UNCHANGED <<mem, flags, cleanups, queue, watchers, timers, tickVars, runVars>>

\* bb_runtime_set_running and bb_runtime_stop
SetRunning(on) ==
    /\ UserCode
    /\ running' = on
    /\ UNCHANGED <<mem, flags, cleanups, queue, tableVars, tickVars, stack, inRun>>

\* bb_runtime_run is called, and returns once a tick ends with running false.
Run ==
    /\ UserCode
    /\ stack = <<>>
    /\ running' = TRUE
    /\ inRun' = TRUE
    /\ UNCHANGED <<mem, flags, cleanups, queue, tableVars, tickVars, stack>>

RunReturns ==
    /\ pc = "out"
    /\ inRun
    /\ ~ running
    /\ inRun' = FALSE
    /\ UNCHANGED <<mem, flags, cleanups, queue, tableVars, tickVars, stack, running>>

-----------------------------------------------------------------------------
(* A callback returns: the operation that was waiting for it goes on *)

\* bb_task_destroy after the callback: free(task)
ReturnDestroy ==
    /\ stack # <<>>
    /\ Top.kind = "destroy"
    /\ mem' = [mem EXCEPT ![Top.task] = "freed"]
    /\ stack' = Caller
    /\ UNCHANGED <<flags, cleanups, queue, tableVars, tickVars, runVars>>

\* _bb_runtime_remove_watchers(task): unregister and swap-remove its entry.
RemoveWatchersOf(t) ==
    LET entries == {i \in 1 .. Len(watchers) : watchers[i].task = t} IN
    \/ /\ entries = {}
       /\ UNCHANGED <<watchers, interest>>
    \/ \E i \in entries :
        /\ \A k \in entries : i <= k
        /\ interest' = [interest EXCEPT ![watchers[i].fd] = @ \ watchers[i].events]
        /\ watchers' = SwapRemove(watchers, i)

\* Mutant of ReturnCancel: the cancelled task is not queued for destruction.
ReturnCancelForgets ==
    /\ stack # <<>>
    /\ Top.kind = "cancel"
    /\ RemoveWatchersOf(Top.task)
    /\ timers' = {timer \in timers : timer.task # Top.task}
    /\ stack' = Caller
    /\ UNCHANGED <<mem, flags, cleanups, queue, tickVars, runVars>>

\* bb_runtime_cancel_task after the callback
ReturnCancel ==
    /\ stack # <<>>
    /\ Top.kind = "cancel"
    /\ RemoveWatchersOf(Top.task)
    /\ timers' = {timer \in timers : timer.task # Top.task}
    /\ \E ok \in AllocResult : Enqueue(Top.task, ok)
    /\ stack' = Caller
    /\ UNCHANGED <<mem, cleanups, tickVars, runVars>>

\* bb_runtime_unwatch_fd: find the next watcher of the descriptor and cancel
\* its task, or return when there is none left.
UnwatchScan ==
    /\ stack # <<>>
    /\ Top.kind = "unwatch"
    /\ Top.task = None
    /\ LET found == {i \in Top.at .. Len(watchers) : watchers[i].fd = Top.fd}
       IN \/ /\ found = {}
             /\ stack' = Caller
             /\ UNCHANGED <<flags, cleanups>>
          \/ \E i \in found :
               /\ \A k \in found : i <= k
               /\ TaskCancel("unwatch", watchers[i].task, flags, Top.fd, i, Caller)
    /\ UNCHANGED <<mem, queue, tableVars, tickVars, runVars>>

\* bb_runtime_unwatch_fd after the callback: drop the entry at the loop index,
\* whatever it holds by now, and queue the cancelled task for destruction.
\* With an empty table the index underflows.
UnwatchRemove ==
    /\ stack # <<>>
    /\ Top.kind = "unwatch"
    /\ Top.task # None
    /\ IF watchers = <<>>
       THEN /\ pc' = "undefined"
            /\ UNCHANGED watchers
       ELSE /\ watchers' = SwapRemove(watchers, Top.at)
            /\ UNCHANGED pc
    /\ \E ok \in AllocResult : Enqueue(Top.task, ok)
    /\ stack' = Append(Caller, [Top EXCEPT !.task = None, !.cb = FALSE])
    /\ UNCHANGED <<mem, cleanups, interest, timers, ready, pos, due, runVars>>

\* Mutant of Reap: a task that queued itself again is destroyed all the same.
ReapScheduled(t, fl, callers) ==
    IF "PERSISTENT" \notin fl[t]
    THEN TaskDestroy(t, fl, callers)
    ELSE /\ flags' = fl
         /\ stack' = callers
         /\ UNCHANGED cleanups

\* The test after execution in bb_runtime_tick, for a task whose flags are fl[t].
Reap(t, fl, callers) ==
    IF {"SCHEDULED", "PERSISTENT"} \cap fl[t] = {}
    THEN TaskDestroy(t, fl, callers)
    ELSE /\ flags' = fl
         /\ stack' = callers
         /\ UNCHANGED cleanups

\* bb_task_execute after the callback, then the reaping in bb_runtime_tick
ReturnRun ==
    /\ stack # <<>>
    /\ Top.kind = "run"
    /\ Reap(Top.task, [flags EXCEPT ![Top.task] = @ \ {"RUNNING"}], Caller)
    /\ UNCHANGED <<mem, queue, tableVars, tickVars, runVars>>

-----------------------------------------------------------------------------
(* The phases of bb_runtime_tick *)

\* bb_poller_wait reports up to MaxEvents descriptors, each for part of its
\* interest; it reports nothing on a timeout or a backend failure.
PollerWait ==
    /\ pc = "out"
    /\ stack = <<>>
    /\ inRun => running
    /\ \E n \in 0 .. MaxEvents : \E events \in [1 .. n -> PollEvent] :
        /\ \A i \in 1 .. n : /\ events[i].events # {}
                             /\ events[i].events \subseteq interest[events[i].fd]
        /\ \A i, k \in 1 .. n : i # k => events[i].fd # events[k].fd
        /\ ready' = events
    /\ pc' = "dispatch"
    /\ pos' = 1
    /\ UNCHANGED <<mem, flags, cleanups, queue, tableVars, runVars, due, stack>>

\* The entry at index i is woken by the event.
Matches(i, event) ==
    /\ watchers[i].fd = event.fd
    /\ watchers[i].events \cap event.events # {}

\* Mutants of WakeWatcher: the one-shot watcher stays registered in the poller;
\* the loop index moves on past the entry that the swap-removal moved in.
WakeStillRegistered(i) ==
    /\ \E ok \in AllocResult : Enqueue(watchers[i].task, ok)
    /\ IF watchers[i].mode = "ONESHOT"
       THEN watchers' = SwapRemove(watchers, i) /\ pos' = i
       ELSE pos' = i + 1 /\ UNCHANGED watchers
    /\ UNCHANGED interest

WakeMovesOn(i) ==
    /\ \E ok \in AllocResult : Enqueue(watchers[i].task, ok)
    /\ pos' = i + 1
    /\ IF watchers[i].mode = "ONESHOT"
       THEN /\ interest' = [interest EXCEPT ![watchers[i].fd] = @ \ watchers[i].events]
            /\ watchers' = SwapRemove(watchers, i)
       ELSE UNCHANGED <<interest, watchers>>

\* _bb_runtime_wait: wake the next watcher that matches the current event; a
\* one-shot watcher is unregistered and swap-removed, and the loop looks at the
\* entry that took its place.
WakeWatcher(i) ==
    /\ \E ok \in AllocResult : Enqueue(watchers[i].task, ok)
    /\ IF watchers[i].mode = "ONESHOT"
       THEN /\ interest' = [interest EXCEPT ![watchers[i].fd] = @ \ watchers[i].events]
            /\ watchers' = SwapRemove(watchers, i)
            /\ pos' = i
       ELSE /\ pos' = i + 1
            /\ UNCHANGED <<interest, watchers>>

Dispatch ==
    /\ pc = "dispatch"
    /\ ready # <<>>
    /\ LET found == {i \in pos .. Len(watchers) : Matches(i, Head(ready))}
       IN \/ /\ found = {}
             /\ ready' = Tail(ready)
             /\ pos' = 1
             /\ UNCHANGED <<flags, queue, watchers, interest>>
          \/ \E i \in found :
               /\ \A k \in found : i <= k
               /\ WakeWatcher(i)
               /\ UNCHANGED ready
    /\ UNCHANGED <<mem, cleanups, timers, runVars, pc, due, stack>>

\* Start of _bb_runtime_update_timers: some timers are due.
DispatchDone ==
    /\ pc = "dispatch"
    /\ ready = <<>>
    /\ pc' = "timers"
    /\ \E some \in SUBSET timers : due' = some
    /\ UNCHANGED <<mem, flags, cleanups, queue, tableVars, runVars, ready, pos, stack>>

\* Mutant of FireTimer: a repeating timer is re-armed at a time already past.
FireTimerStaysDue(timer) ==
    /\ pc = "timers"
    /\ timer \in due
    /\ \E ok \in AllocResult : Enqueue(timer.task, ok)
    /\ due' = IF timer.repeating THEN due ELSE due \ {timer}
    /\ timers' = IF timer.repeating THEN timers ELSE timers \ {timer}
    /\ UNCHANGED <<mem, cleanups, watchers, interest, runVars, pc, ready, pos, stack>>

\* One iteration of the loop in _bb_runtime_update_timers: a repeating timer
\* is re-armed after now and leaves the loop, a timeout is removed.
FireTimer(timer) ==
    /\ pc = "timers"
    /\ timer \in due
    /\ \E ok \in AllocResult : Enqueue(timer.task, ok)
    /\ due' = due \ {timer}
    /\ timers' = IF timer.repeating THEN timers ELSE timers \ {timer}
    /\ UNCHANGED <<mem, cleanups, watchers, interest, runVars, pc, ready, pos, stack>>

TimersDone ==
    /\ pc = "timers"
    /\ due = {}
    /\ pc' = "loop"
    /\ UNCHANGED <<mem, flags, cleanups, queue, tableVars, runVars, ready, pos, due, stack>>

\* bb_runtime_tick takes the next task: a cancelled one is only reaped.
RunNext ==
    /\ pc = "loop"
    /\ stack = <<>>
    /\ running
    /\ queue # <<>>
    /\ queue' = Tail(queue)
    /\ LET t == Head(queue)
           popped == [flags EXCEPT ![t] = @ \ {"SCHEDULED"}]
       IN IF "CANCELLED" \in flags[t]
          THEN Reap(t, popped, stack)
          ELSE /\ flags' = [popped EXCEPT ![t] = @ \cup {"RUNNING"}]
               /\ stack' = Append(stack, [kind |-> "run", task |-> t, cb |-> TRUE,
                                          fd |-> None, at |-> 0])
               /\ UNCHANGED cleanups
    /\ UNCHANGED <<mem, tableVars, tickVars, runVars>>

\* bb_runtime_tick returns: the queue is empty or the runtime was stopped.
TickDone ==
    /\ pc = "loop"
    /\ stack = <<>>
    /\ ~ running \/ queue = <<>>
    /\ pc' = "out"
    /\ UNCHANGED <<mem, flags, cleanups, queue, tableVars, runVars, ready, pos, due, stack>>

-----------------------------------------------------------------------------
(* bb_runtime_destroy *)

DestroyRuntime ==
    /\ pc = "out"
    /\ stack = <<>>
    /\ ~ inRun
    /\ pc' = "destroyQueue"
    /\ UNCHANGED <<mem, flags, cleanups, queue, tableVars, runVars, ready, pos, due, stack>>

\* Mutant of DrainQueue: persistent tasks are destroyed with the others.
DrainQueueWithoutSkip ==
    /\ pc = "destroyQueue"
    /\ stack = <<>>
    /\ queue # <<>>
    /\ queue' = Tail(queue)
    /\ TaskDestroy(Head(queue), [flags EXCEPT ![Head(queue)] = @ \ {"SCHEDULED"}], stack)
    /\ UNCHANGED <<mem, tableVars, tickVars, runVars>>

\* Drain the queue; a persistent task is left to the loops over its owners.
DrainQueue ==
    /\ pc = "destroyQueue"
    /\ stack = <<>>
    /\ queue # <<>>
    /\ queue' = Tail(queue)
    /\ LET t == Head(queue)
           popped == [flags EXCEPT ![t] = @ \ {"SCHEDULED"}]
       IN IF "PERSISTENT" \in popped[t]
          THEN /\ flags' = popped
               /\ UNCHANGED <<cleanups, stack>>
          ELSE TaskDestroy(t, popped, stack)
    /\ UNCHANGED <<mem, tableVars, tickVars, runVars>>

DrainQueueDone ==
    /\ pc = "destroyQueue"
    /\ stack = <<>>
    /\ queue = <<>>
    /\ pc' = "destroyWatchers"
    /\ pos' = 1
    /\ UNCHANGED <<mem, flags, cleanups, queue, tableVars, runVars, ready, due, stack>>

DrainWatchers ==
    /\ pc = "destroyWatchers"
    /\ stack = <<>>
    /\ pos <= Len(watchers)
    /\ interest' = [interest EXCEPT ![watchers[pos].fd] = @ \ watchers[pos].events]
    /\ TaskDestroy(watchers[pos].task, flags, stack)
    /\ pos' = pos + 1
    /\ UNCHANGED <<mem, queue, watchers, timers, runVars, pc, ready, due>>

DrainWatchersDone ==
    /\ pc = "destroyWatchers"
    /\ stack = <<>>
    /\ pos > Len(watchers)
    /\ watchers' = <<>>
    /\ pc' = "destroyTimers"
    /\ due' = timers
    /\ UNCHANGED <<mem, flags, cleanups, queue, interest, timers, runVars, ready, pos, stack>>

DrainTimers(timer) ==
    /\ pc = "destroyTimers"
    /\ stack = <<>>
    /\ timer \in due
    /\ due' = due \ {timer}
    /\ TaskDestroy(timer.task, flags, stack)
    /\ UNCHANGED <<mem, queue, tableVars, runVars, pc, ready, pos>>

DrainTimersDone ==
    /\ pc = "destroyTimers"
    /\ stack = <<>>
    /\ due = {}
    /\ timers' = {}
    /\ pc' = "gone"
    /\ UNCHANGED <<mem, flags, cleanups, queue, watchers, interest, runVars, ready, pos, due, stack>>

-----------------------------------------------------------------------------

UserOperation ==
    \/ \E t \in Tasks : Schedule(t)
    \/ \E t \in Tasks, repeating \in BOOLEAN : SetTimer(t, repeating)
    \/ \E t \in Tasks, fd \in Fds, events \in Masks, mode \in Mode :
          WatchFd(t, fd, events, mode)
    \/ \E t \in Tasks : CancelTask(t)
    \/ \E fd \in Fds : UnwatchFd(fd)
    \/ \E on \in BOOLEAN : SetRunning(on)
    \/ Run

Return ==
    \/ ReturnDestroy
    \/ ReturnCancel
    \/ UnwatchScan
    \/ UnwatchRemove
    \/ ReturnRun

TickStep ==
    \/ Dispatch
    \/ DispatchDone
    \/ \E timer \in Timer : FireTimer(timer)
    \/ TimersDone
    \/ RunNext
    \/ TickDone

DestroyStep ==
    \/ DrainQueue
    \/ DrainQueueDone
    \/ DrainWatchers
    \/ DrainWatchersDone
    \/ \E timer \in Timer : DrainTimers(timer)
    \/ DrainTimersDone

\* The runtime no longer exists, or its table has been corrupted.
Gone == pc \in {"gone", "undefined"} /\ UNCHANGED vars

Next ==
    \/ UserOperation
    \/ Return
    \/ RunReturns
    \/ PollerWait
    \/ TickStep
    \/ DestroyRuntime
    \/ DestroyStep
    \/ Gone

Spec == Init /\ [][Next]_vars

\* A callback makes finitely many calls and returns: its return is taken even
\* if the calls it makes keep coming (strong fairness).  A tick that began
\* ends, and bb_runtime_run ticks until the runtime is stopped.  The program
\* owes nothing: it need not call or tick.
Fairness ==
    /\ SF_vars(ReturnRun)
    /\ SF_vars(ReturnDestroy)
    /\ SF_vars(ReturnCancel)
    /\ WF_vars(UnwatchScan \/ UnwatchRemove)
    /\ WF_vars(TickStep)
    /\ WF_vars(DestroyStep)
    /\ WF_vars(inRun /\ PollerWait)
    /\ WF_vars(RunReturns)

FairSpec == Spec /\ Fairness

-----------------------------------------------------------------------------
(* Properties *)

\* Type invariant of the runtime's state.
TypeOK ==
    /\ mem \in [Tasks -> {"none", "live", "freed"}]
    /\ flags \in [Tasks -> SUBSET TaskFlag]
    /\ cleanups \in [Tasks -> Nat]
    /\ queue \in Seq(Tasks)
    /\ watchers \in Seq(Watcher)
    /\ interest \in [Fds -> SUBSET Event]
    /\ timers \in SUBSET Timer
    /\ running \in BOOLEAN
    /\ inRun \in BOOLEAN
    /\ pc \in Phase
    /\ ready \in Seq(PollEvent)
    /\ pos \in Nat \ {0}
    /\ due \in SUBSET Timer
    /\ stack \in Seq(Frame)

\* The BB_TASK_SCHEDULED bit is exactly membership in the scheduler's list and
\* no task is listed twice (scheduler.c): a task listed twice is freed twice.
ScheduledOnce ==
    /\ \A t \in Tasks : "SCHEDULED" \in flags[t]
                            <=> \E i \in 1 .. Len(queue) : queue[i] = t
    /\ \A i, k \in 1 .. Len(queue) : queue[i] = queue[k] => i = k

\* Every task that the runtime refers to has been allocated: an allocation that
\* has just been made is not yet queued, watched, timed or in progress.
RefersToAllocated ==
    /\ \A i \in 1 .. Len(queue) : mem[queue[i]] # "none"
    /\ \A i \in 1 .. Len(watchers) : mem[watchers[i].task] # "none"
    /\ \A timer \in timers \cup due : mem[timer.task] # "none"
    /\ \A i \in 1 .. Len(stack) :
          stack[i].task # None => mem[stack[i].task] # "none"

\* Nothing the runtime will still look at refers to a freed task: neither the
\* queue, nor a watcher, a timer or an operation in progress.  The shutdown
\* loops leave the entries they have handled behind (runtime.c, destroy).
NoUseAfterFree ==
    /\ \A i \in 1 .. Len(queue) : mem[queue[i]] = "live"
    /\ \A i \in 1 .. Len(watchers) :
          (pc = "destroyWatchers" => i >= pos) => mem[watchers[i].task] = "live"
    /\ \A timer \in timers :
          (pc = "destroyTimers" => timer \in due) => mem[timer.task] = "live"
    /\ \A i \in 1 .. Len(stack) :
          stack[i].task # None => mem[stack[i].task] = "live"

\* Every allocated task is reachable from the queue, the watchers, the timers
\* or an operation in progress, so that it will be freed; after the shutdown
\* all of them have been freed.  Holds when no allocation fails.
NoLeak ==
    \A t \in Tasks : mem[t] = "live" =>
        \/ "SCHEDULED" \in flags[t]
        \/ \E i \in 1 .. Len(watchers) : watchers[i].task = t
        \/ \E timer \in timers : timer.task = t
        \/ \E i \in 1 .. Len(stack) : stack[i].task = t

\* The poller asks for exactly the events that some watcher of the descriptor
\* waits for (runtime.c keeps both tables).  During bb_runtime_unwatch_fd the
\* descriptor is unregistered before its watchers are dropped, and during the
\* shutdown the entries stay in the table.
PollerMatchesWatchers ==
    \A fd \in Fds :
        \/ \E i \in 1 .. Len(stack) : stack[i].kind = "unwatch" /\ stack[i].fd = fd
        \/ pc = "destroyWatchers"
        \/ interest[fd] = RegisteredMask(fd)

\* When the dispatch of an event is over, every watcher that it matches has been
\* woken: the persistent ones are queued and no one-shot watcher is left, in
\* spite of the swap-removals under the loop.  Holds when no allocation fails.
NoWatcherSkipped ==
    [][ready # <<>> /\ ready' = Tail(ready) =>
        \A i \in 1 .. Len(watchers) :
            Matches(i, Head(ready)) => /\ watchers[i].mode = "PERSISTENT"
                                       /\ "SCHEDULED" \in flags[watchers[i].task]]_vars

\* The runtime keeps the contract that module TaskLifecycle states: cleanup
\* once, no run after it, freed once afterwards and never while running.
Lifecycle == INSTANCE TaskLifecycle
                WITH active <- {t \in Tasks : "RUNNING" \in flags[t]}
KeepsLifecycle == Lifecycle!LifecycleSpec

\* A task that is queued gets its turn inside bb_runtime_run: it leaves the
\* queue, or the runtime is stopped.  Other tasks cannot starve it.
QueuedTaskGetsTurn ==
    \A t \in Tasks : inRun /\ "SCHEDULED" \in flags[t]
                        ~> "SCHEDULED" \notin flags[t] \/ ~ inRun

\* Inside bb_runtime_run a cancelled task that is queued is freed by the runtime
\* on its own, unless the runtime is stopped; its owner has nothing more to do.
\* (That it is queued or otherwise reachable is NoLeak, for which no allocation
\* may fail.)
CancelledTaskIsFreed ==
    \A t \in Tasks : inRun /\ {"CANCELLED", "SCHEDULED"} \subseteq flags[t]
                        ~> mem[t] = "freed" \/ ~ inRun

====
