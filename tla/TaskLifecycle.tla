--------------------------- MODULE TaskLifecycle ---------------------------
(***************************************************************************)
(* What the runtime promises to the owner of a task (task.h, task.c), with  *)
(* no queue, watcher or timer in sight:                                     *)
(*   - at most one task runs at a time;                                     *)
(*   - the cleanup callback is called once, and the run callback is never   *)
(*     entered after it;                                                    *)
(*   - the task is freed once, after its cleanup and not while it runs.     *)
(* A single call may move two tasks (a watcher is replaced), and the end of *)
(* a run may be followed at once by the cleanup.                            *)
(***************************************************************************)
EXTENDS Naturals

CONSTANT Tasks

VARIABLES mem,       \* [Tasks -> {"none", "live", "freed"}]
          cleanups,  \* [Tasks -> Nat]: calls of the cleanup callback
          active     \* the tasks whose run callback is executing

lifecycleVars == <<mem, cleanups, active>>

LifecycleInit ==
    /\ mem = [t \in Tasks |-> "none"]
    /\ cleanups = [t \in Tasks |-> 0]
    /\ active = {}

\* The task has been allocated and its cleanup is still to come.
Usable(t) == mem[t] = "live" /\ cleanups[t] = 0

Create(t) ==
    /\ mem[t] = "none"
    /\ mem' = [mem EXCEPT ![t] = "live"]
    /\ UNCHANGED <<cleanups, active>>

\* The task could not be handed to the runtime: its cleanup is called.
CreateFails(t) ==
    /\ mem[t] = "none"
    /\ mem' = [mem EXCEPT ![t] = "live"]
    /\ cleanups' = [cleanups EXCEPT ![t] = @ + 1]
    /\ UNCHANGED active

\* t is created in the place of u, which is cancelled.
CreateReplacing(t, u) ==
    /\ mem[t] = "none"
    /\ Usable(u)
    /\ mem' = [mem EXCEPT ![t] = "live"]
    /\ cleanups' = [cleanups EXCEPT ![u] = @ + 1]
    /\ UNCHANGED active

Start(t) ==
    /\ active = {}
    /\ Usable(t)
    /\ active' = {t}
    /\ UNCHANGED <<mem, cleanups>>

\* The run callback returns; the cleanup follows unless it was called already
\* or the task is kept.
Finish(t) ==
    /\ t \in active
    /\ active' = {}
    /\ \/ UNCHANGED cleanups
       \/ cleanups[t] = 0 /\ cleanups' = [cleanups EXCEPT ![t] = 1]
    /\ UNCHANGED mem

\* A cancellation calls the cleanup at once, also for a task that is running.
Cleanup(t) ==
    /\ Usable(t)
    /\ cleanups' = [cleanups EXCEPT ![t] = 1]
    /\ UNCHANGED <<mem, active>>

Free(t) ==
    /\ mem[t] = "live"
    /\ cleanups[t] = 1
    /\ t \notin active
    /\ mem' = [mem EXCEPT ![t] = "freed"]
    /\ UNCHANGED <<cleanups, active>>

LifecycleNext ==
    \E t \in Tasks :
        \/ Create(t)
        \/ CreateFails(t)
        \/ \E u \in Tasks : CreateReplacing(t, u)
        \/ Start(t)
        \/ Finish(t)
        \/ Cleanup(t)
        \/ Free(t)

LifecycleSpec == LifecycleInit /\ [][LifecycleNext]_lifecycleVars

====
