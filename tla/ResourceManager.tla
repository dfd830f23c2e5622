--------------------------- MODULE ResourceManager ---------------------------
(* res::AsyncResourceManager, ResourceUnit, ResourceBinder and                *)
(* ResourceMemoryManager: binders ask the control thread for a resource, the  *)
(* memory thread gives its unit a heap, the load thread reads the file, and   *)
(* units go back through the frame of pending unloads, a binder's Finalize or *)
(* the cache of the memory manager.                                           *)
(*                                                                            *)
(* One step of a thread runs to the next place where it waits or where        *)
(* another thread can see what it did.  Each queue is the set of its tasks,   *)
(* any of them next (AsyncQueue has the order).  The threads are not          *)
(* suspended, so no reference is managed; heaps come from the manager; no     *)
(* load waits for an archive, as nothing sets m_allow_archive_reference.      *)
(* crashed: a null unit or a heap that is gone is used, or the process        *)
(* aborts; the model stops there.                                             *)
EXTENDS Integers, Sequences, FiniteSets, SequencesExt

CONSTANTS Units, Binders, Paths,
          Infos,          \* the load infos: [cached, transient]
          FrameCapacity,  \* entries of a frame; nobody initialises it, which is 0
          None

VARIABLES
    unit, binder,
    m_resource_unit_free_ring,
    frame,             \* m_resource_unit_free_frame_buffer
    m_resource_unit_free_cache_list,
    queue,             \* the tasks of each thread's queue
    thread,            \* what a thread is doing, and for which unit and binder
    crashed

vars == <<unit, binder, m_resource_unit_free_ring, frame, m_resource_unit_free_cache_list,
          queue, thread, crashed>>

Threads == {"control", "memory", "load"}
Task(op, of) == [op |-> op, of |-> of]
\* Where ClearCache is done, the thread goes on to give the unit back at "free",
\* or to the result of its task.
Rest == [at |-> "idle", unit |-> None, binder |-> None, then |-> "result"]

NewUnit == [status |-> "Uninitialized", refs |-> 0, deferred |-> [i \in 0 .. 1 |-> 0], path |-> None,
            in_map |-> FALSE, cached |-> FALSE, transient |-> FALSE, freeable |-> FALSE,
            finalized |-> FALSE, failed |-> FALSE, initializable |-> FALSE, resource |-> FALSE,
            heap |-> "none", load |-> "Uninitialized", unload |-> "Uninitialized",
            load_finished |-> FALSE, unload_finished |-> FALSE,
            listed |-> FALSE, event |-> FALSE]

Init ==
    /\ unit = [u \in Units |-> NewUnit]
    /\ binder = [b \in Binders |-> [guard |-> FALSE, complete |-> FALSE, status |-> "Uninitialized",
                                    unit |-> None, watcher |-> "none", at |-> "idle",
                                    info |-> [path |-> None, cached |-> FALSE, transient |-> FALSE]]]
    /\ m_resource_unit_free_ring = SetToSeq(Units)   \* ResourceUnitAllocator::Initialize
    /\ frame = [index |-> 0, used |-> [i \in 0 .. 1 |-> <<>>]]
    /\ m_resource_unit_free_cache_list = <<>>
    /\ queue = [t \in Threads |-> {}]
    /\ thread = [t \in Threads |-> Rest]
    /\ crashed = FALSE

Goto(t, at) == thread' = [thread EXCEPT ![t].at = at]
Idle(t) == thread' = [thread EXCEPT ![t] = Rest]
Push(t, op, of) == queue' = [queue EXCEPT ![t] = @ \cup {Task(op, of)}]
IsPart(u) == unit[u].in_map
Crash == crashed' = TRUE

-----------------------------------------------------------------------------
\* ResourceUnit, as functions of a unit's record.

IncrementReference(x) == [x EXCEPT !.refs = @ + 1, !.freeable = FALSE]

\* Out of references, or down to the last: a unit that is not cached, or whose
\* load failed, cannot be found any more.
AdjustReferenceCount(x, amount) ==
    LET y == [x EXCEPT !.refs = @ + amount]
    IN  IF y.refs \notin {0, 1} \/ (y.cached /\ y.status # "Error") THEN y
        ELSE [y EXCEPT !.in_map = FALSE, !.cached = FALSE]

\* IsInLoad and IsLoaded.
IsInLoad(x) ==
    IF x.load \in {"Uninitialized", "Complete"} THEN x.status = "InLoad" ELSE x.load # "Cancelled"
IsResourceInitialized(x) == x.resource /\ x.status = "Loaded" /\ ~x.initializable

\* PreFinalizeResource: no status it accepts is ever reached.
PreFinalizeResource(x) == [x EXCEPT !.status = "ResourcePreFinalized"]

Busy(state) == state \in {"Queued", "Running"}

\* The end of ClearCache: the resource and its heap go.
FreeResource(x) == [x EXCEPT !.status = "Freed", !.resource = FALSE,
                             !.heap = IF @ = "none" THEN @ ELSE "gone"]

\* Initialize of a unit that may have served before: what it had in m_resource,
\* m_resource_heap and its tasks stays.
Initialized(x, info) ==
    IncrementReference([NewUnit EXCEPT !.path = info.path, !.cached = info.cached,
                        !.transient = info.transient, !.resource = x.resource, !.heap = x.heap,
                        !.load = x.load, !.unload = x.unload,
                        !.load_finished = x.load_finished, !.unload_finished = x.unload_finished,
                        !.listed = x.listed])

-----------------------------------------------------------------------------
\* AsyncQueue's part in the tasks of a unit: a task goes to a queue, is taken by
\* its thread, ends, and may be cancelled while it is queued.

LoadQueued(u) == [queue EXCEPT !["memory"] = @ \ {Task("schedule", u)}, !["load"] = @ \ {Task("file", u)}]

Take(t, op, of) ==
    /\ thread[t].at = "idle" /\ Task(op, of) \in queue[t]
    /\ queue' = [queue EXCEPT ![t] = @ \ {Task(op, of)}]

\* RequestUnloadResourceUnit, with x the unit as it is to be.  A frame is never
\* emptied, and its last entry lies outside of it.
RequestUnload(x, u) ==
    LET i == frame.index
        n == x.deferred[i] - 1
    IN  /\ unit' = [unit EXCEPT ![u] = [x EXCEPT !.deferred[i] = n]]
        /\ IF n # -1 THEN UNCHANGED <<frame, crashed>>
           ELSE /\ frame' = [frame EXCEPT !.used[i] = Append(@, u)]
                /\ crashed' = (crashed \/ Len(frame.used[i]) >= FrameCapacity)

\* ReserveUnload: every unit of the frame is adjusted by what was asked for, those
\* of earlier rounds by nothing; who has references left is unloaded.  control
\* is what the queue of the thread that does it becomes.
Adjusted(u, i) == [AdjustReferenceCount(unit[u], unit[u].deferred[i]) EXCEPT !.deferred[i] = 0]
ReserveUnload(control) ==
    LET i     == frame.index
        units == {frame.used[i][k] : k \in DOMAIN frame.used[i]}
        push  == {u \in units : Adjusted(u, i).refs >= 1}
    IN  /\ queue' = [queue EXCEPT !["control"] = control,
                                  !["memory"] = @ \cup {Task("unload", u) : u \in push}]
        /\ IF units = {} THEN UNCHANGED <<unit, frame>>
           ELSE
             /\ frame' = [frame EXCEPT !.index = 1 - i]
             /\ unit' = [u \in Units |->
                            IF u \notin units THEN unit[u]
                            ELSE IF u \in push THEN [Adjusted(u, i) EXCEPT !.unload = "Queued"]
                            ELSE Adjusted(u, i)]
-----------------------------------------------------------------------------
\* The control thread: LoadAsyncExe.

BeginLoad(b) ==
    /\ thread["control"].at = "idle" /\ Task("load", b) \in queue["control"]
    /\ ReserveUnload(queue["control"] \ {Task("load", b)})
    /\ thread' = [thread EXCEPT !["control"].at = "find", !["control"].binder = b]
    /\ UNCHANGED <<binder, m_resource_unit_free_ring, m_resource_unit_free_cache_list, crashed>>

\* FindResourceUnit and the tests of TryReferenceResourceUnit.  A unit without
\* references that failed or was unloaded is waited for before it is given up
\* (FinalizeIfOutOfReference).
TryReference ==
    LET b     == thread["control"].binder
        found == {u \in Units : IsPart(u) /\ unit[u].path = binder[b].info.path}
    IN  /\ thread["control"].at = "find"
        /\ \/ found = {} /\ Goto("control", "allocate") /\ UNCHANGED unit
           \/ \E u \in found :
                LET x == unit[u]
                    stale == x.failed \/ (~x.finalized /\ x.status = "Uninitialized")
                IN  /\ thread' = [thread EXCEPT !["control"].unit = u, !["control"].at =
                            IF stale THEN (IF x.refs > 0 THEN "allocate" ELSE "drain")
                            ELSE IF x.finalized THEN "allocate" ELSE "reclaim"]
                    /\ unit' = IF ~stale /\ x.finalized THEN [unit EXCEPT ![u].in_map = FALSE] ELSE unit
        /\ UNCHANGED <<binder, m_resource_unit_free_ring, frame, m_resource_unit_free_cache_list,
                       queue, crashed>>

\* The end of FinalizeIfOutOfReference: the clear task gets no unit.
DrainUnload ==
    LET u == thread["control"].unit IN
    /\ thread["control"].at = "drain" /\ unit[u].unload_finished
    /\ unit' = [unit EXCEPT ![u].listed = FALSE, ![u].in_map = FALSE, ![u].unload = "Queued"]
    /\ Push("memory", "clear", None)
    /\ Goto("control", "allocate")
    /\ UNCHANGED <<binder, m_resource_unit_free_ring, frame, m_resource_unit_free_cache_list, crashed>>

\* CancelUnloadTask: at once in the queue, after the run otherwise.
CancelUnload ==
    LET u == thread["control"].unit IN
    /\ thread["control"].at = "reclaim" /\ unit[u].unload # "Running"
    /\ queue' = [queue EXCEPT !["memory"] = @ \ {Task("unload", u)}]
    /\ unit' = IF unit[u].unload # "Queued" THEN unit
               ELSE [unit EXCEPT ![u].unload = "Cancelled", ![u].unload_finished = TRUE]
    /\ Goto("control", "rebind")
    /\ UNCHANGED <<binder, m_resource_unit_free_ring, frame, m_resource_unit_free_cache_list, crashed>>

\* The rest of TryReferenceResourceUnit.
Rebind ==
    LET u == thread["control"].unit
        b == thread["control"].binder
        x == IncrementReference(unit[u])
    IN  /\ thread["control"].at = "rebind"
        /\ IF unit[u].listed
           THEN unit' = [unit EXCEPT ![u].in_map = FALSE] /\ Goto("control", "allocate") /\ UNCHANGED binder
           ELSE /\ unit' = [unit EXCEPT ![u] = x]
                /\ binder' = [binder EXCEPT ![b].unit = u, ![b].watcher = "Complete",
                                            ![b].status = IF x.refs = 1 THEN "Reclaimed" ELSE "Referenced"]
                /\ Idle("control")
        /\ UNCHANGED <<m_resource_unit_free_ring, frame, m_resource_unit_free_cache_list, queue, crashed>>

\* AllocateResourceUnit: ForceCalcSyncOnThread does nothing, as every task's
\* priority is 0; the caches are purged on the memory thread.
NoUnitLeft ==
    /\ thread["control"].at = "allocate" /\ m_resource_unit_free_ring = <<>>
    /\ Push("memory", "purge", None)
    /\ Goto("control", "purging")
    /\ UNCHANGED <<unit, binder, m_resource_unit_free_ring, frame, m_resource_unit_free_cache_list, crashed>>

\* The unit is the binder's before its load task is pushed.
AllocateUnit ==
    LET b == thread["control"].binder
        u == Head(m_resource_unit_free_ring)
    IN  /\ thread["control"].at \in {"allocate", "purged"}
        /\ thread["control"].at = "allocate" => m_resource_unit_free_ring # <<>>
        /\ IF m_resource_unit_free_ring = <<>>
           THEN Crash /\ UNCHANGED <<m_resource_unit_free_ring, unit, binder, queue, thread>>
           ELSE /\ m_resource_unit_free_ring' = Tail(m_resource_unit_free_ring)
                /\ unit' = [unit EXCEPT ![u] = [Initialized(@, binder[b].info) EXCEPT
                                                   !.in_map = TRUE, !.load = "Queued"]]
                /\ binder' = [binder EXCEPT ![b].unit = u, ![b].watcher = "Complete"]
                /\ Push("memory", "schedule", u)
                /\ Idle("control")
                /\ UNCHANGED crashed
        /\ UNCHANGED <<frame, m_resource_unit_free_cache_list>>

\* CalculateExe, and Calculate, which pushes it when it is not busy.
Calculate ==
    /\ thread["control"].at = "idle"
    /\ ReserveUnload(queue["control"])
    /\ UNCHANGED <<binder, m_resource_unit_free_ring, m_resource_unit_free_cache_list, thread, crashed>>

-----------------------------------------------------------------------------
\* ScheduleLoad, on the memory thread.

BeginSchedule(u) ==
    /\ Take("memory", "schedule", u)
    /\ thread' = [thread EXCEPT !["memory"].at = "schedule", !["memory"].unit = u]
    /\ LET x == [unit[u] EXCEPT !.load = "Running", !.status = "InLoad", !.transient = FALSE]
       IN  IF unit[u].transient THEN RequestUnload(x, u)
           ELSE unit' = [unit EXCEPT ![u] = x] /\ UNCHANGED <<frame, crashed>>
    /\ UNCHANGED <<binder, m_resource_unit_free_ring, m_resource_unit_free_cache_list>>

\* PrepareResourceLoad: the path, the size and the file, any of which may be
\* missing (Prepare: from a size table, the caller or the file).
PrepareResourceLoad(x) == {x, [x EXCEPT !.status = "Error", !.failed = TRUE]}

\* AddResourceUnitToFreeCache.
WithCached(u) == IF u \in ToSet(m_resource_unit_free_cache_list) THEN m_resource_unit_free_cache_list
                 ELSE Append(m_resource_unit_free_cache_list, u)

\* The load goes on with a heap, or ends; a heap is there or is not.
\* FreeFromCache takes the last unit of an empty cache, or nothing from another
\* one, for ever.
ScheduleLoad ==
    LET u == thread["memory"].unit
        x == unit[u]
    IN  /\ thread["memory"].at = "schedule"
        /\ \/ /\ \E y \in PrepareResourceLoad(x) :
                    /\ y.failed
                    /\ unit' = [unit EXCEPT ![u] = [y EXCEPT !.event = TRUE, !.load = "Complete",
                                                            !.load_finished = TRUE]]
              /\ Idle("memory")
              /\ UNCHANGED <<queue, m_resource_unit_free_cache_list, crashed>>
           \/ /\ unit' = [unit EXCEPT ![u] = [x EXCEPT !.heap = "alive", !.load = "Queued"]]
              /\ m_resource_unit_free_cache_list' =
                    IF x.freeable THEN WithCached(u) ELSE m_resource_unit_free_cache_list
              /\ Push("load", "file", u)
              /\ Idle("memory")
              /\ UNCHANGED crashed
           \/ /\ IF m_resource_unit_free_cache_list = <<>> THEN Crash /\ UNCHANGED thread
                 ELSE Goto("memory", "hung") /\ UNCHANGED crashed
              /\ UNCHANGED <<unit, queue, m_resource_unit_free_cache_list>>
        /\ UNCHANGED <<binder, m_resource_unit_free_ring, frame>>

\* LoadFile, on the load thread: a file that cannot be read aborts the process.
BeginLoadFile(u) ==
    /\ Take("load", "file", u)
    /\ unit' = [unit EXCEPT ![u].load = "Running"]
    /\ thread' = [thread EXCEPT !["load"].at = "file", !["load"].unit = u]
    /\ UNCHANGED <<binder, m_resource_unit_free_ring, frame, m_resource_unit_free_cache_list, crashed>>

LoadFile ==
    LET u    == thread["load"].unit
        done == [unit[u] EXCEPT !.load = "Complete", !.load_finished = TRUE, !.status = "Loaded"]
    IN  /\ thread["load"].at = "file"
        /\ Idle("load")
        /\ \/ /\ unit' = [unit EXCEPT ![u] = [done EXCEPT !.resource = TRUE, !.event = TRUE]]
              /\ Push("memory", "adjust", u)
              /\ UNCHANGED crashed
           \/ /\ unit' = [unit EXCEPT ![u] = [done EXCEPT !.resource = TRUE, !.event = FALSE,
                                                          !.initializable = TRUE]]
              /\ UNCHANGED <<queue, crashed>>
           \/ /\ unit' = [unit EXCEPT ![u] = [done EXCEPT !.status = "Error", !.event = TRUE]]
              /\ UNCHANGED <<queue, crashed>>
           \/ Crash /\ UNCHANGED <<unit, queue>>
        /\ UNCHANGED <<binder, m_resource_unit_free_ring, frame, m_resource_unit_free_cache_list>>

HeapAdjust(u) ==
    /\ Take("memory", "adjust", u)
    /\ crashed' = (unit[u].heap = "gone")
    /\ UNCHANGED <<unit, binder, m_resource_unit_free_ring, frame, m_resource_unit_free_cache_list, thread>>

-----------------------------------------------------------------------------
\* Unload, on the memory thread (m_unload_task) or, for a binder's Finalize,
\* on the control thread: there without a result function.

\* CancelTask of the load: at once in a queue, after the run otherwise.
LoadCancelled(x) == IF x.load # "Queued" THEN x ELSE [x EXCEPT !.load = "Cancelled", !.load_finished = TRUE]
IsCached(x) == x.cached

BeginUnload(t, u) ==
    /\ thread[t].at = "idle"
    /\ \E k \in queue[t] :
          /\ k.op = "unload" /\ k.of = u
          /\ queue' = [queue EXCEPT ![t] = @ \ {k}]
    /\ unit' = IF t = "memory" THEN [unit EXCEPT ![u].unload = "Running"] ELSE unit
    /\ thread' = [thread EXCEPT ![t].at = IF unit[u].status = "InLoad" /\ ~IsCached(unit[u])
                                          THEN "cancel" ELSE "unload",
                                ![t].unit = u]
    /\ UNCHANGED <<binder, m_resource_unit_free_ring, frame, m_resource_unit_free_cache_list, crashed>>

\* A load in progress, which is not transient any more, is cancelled first, by
\* Unload or by CancelResource.
CancelLoad(t) ==
    LET u == thread[t].unit IN
    /\ thread[t].at \in {"cancel", "clear cancel"} /\ unit[u].load # "Running"
    /\ unit' = [unit EXCEPT ![u] = LoadCancelled(@)]
    /\ queue' = LoadQueued(u)
    /\ Goto(t, IF thread[t].at = "cancel" THEN "wait" ELSE "clear wait")
    /\ UNCHANGED <<binder, m_resource_unit_free_ring, frame, m_resource_unit_free_cache_list, crashed>>

\* The end of ClearCache, and FreeHeap, which unlinks a unit that has a heap.
Clear(t) ==
    LET u == thread[t].unit
    IN  /\ unit' = [unit EXCEPT ![u] = FreeResource(@)]
        /\ crashed' = (unit[u].heap = "gone")
        /\ m_resource_unit_free_cache_list' = IF unit[u].heap = "none" THEN m_resource_unit_free_cache_list
                                              ELSE Remove(m_resource_unit_free_cache_list, u)
        /\ Goto(t, thread[t].then)

\* ... and waited for, although a cancelled one signals nothing.  PreFinalizeResource
\* then fails, and Unload returns early; ClearCache goes on whatever it answers.
LoadIsCancelled(t) ==
    LET u == thread[t].unit IN
    /\ thread[t].at \in {"wait", "clear wait"} /\ unit[u].event
    /\ \/ /\ thread[t].at = "wait"
          /\ unit' = [unit EXCEPT ![u] = [PreFinalizeResource(@) EXCEPT !.status = "Uninitialized"]]
          /\ Goto(t, "result")
          /\ UNCHANGED <<m_resource_unit_free_cache_list, crashed>>
       \/ thread[t].at = "clear wait" /\ Clear(t)
    /\ UNCHANGED <<binder, m_resource_unit_free_ring, frame, queue>>

\* The switch over the status, which without a load in progress comes to this.
Unloaded(x) ==
    IF ~IsCached(x)
    THEN [x EXCEPT !.status = IF @ \in {"Loaded", "Error"} THEN "Uninitialized" ELSE @, !.freeable = TRUE]
    ELSE IF x.status = "Error" \/ (x.status = "Uninitialized" /\ x.load = "Cancelled")
         THEN [x EXCEPT !.cached = FALSE, !.freeable = TRUE]
         ELSE x

\* Mutant: only a unit whose count went below zero is in use.
StillInReference_Negative(x) == x.refs < 0
\* The test of ClearCache.
StillInReference(x) == x.refs > 0

\* Who can still be found is kept for reuse, who cannot is cleared.
Unload(t) ==
    LET u == thread[t].unit
        x == Unloaded(unit[u])
    IN  /\ thread[t].at = "unload"
        /\ \/ /\ x.in_map
              /\ unit' = [unit EXCEPT ![u] = [x EXCEPT !.freeable = TRUE]]
              /\ m_resource_unit_free_cache_list' = IF IsCached(x) THEN WithCached(u)
                                                    ELSE m_resource_unit_free_cache_list
              /\ Goto(t, "result")
           \/ /\ ~x.in_map
              /\ unit' = [unit EXCEPT ![u] = [x EXCEPT !.finalized = TRUE]]
              /\ Goto(t, "clear")
              /\ UNCHANGED m_resource_unit_free_cache_list
        /\ UNCHANGED <<binder, m_resource_unit_free_ring, frame, queue, crashed>>

\* ClearCache and CancelResource, for a task of the unit or for the purge.
ClearCache(t) ==
    LET x == unit[thread[t].unit]
    IN  /\ thread[t].at = "clear"
        /\ \/ /\ StillInReference(x) \/ x.status = "InLoad"
              /\ Goto(t, IF StillInReference(x) THEN thread[t].then ELSE "clear cancel")
              /\ UNCHANGED <<unit, m_resource_unit_free_cache_list, crashed>>
           \/ ~StillInReference(x) /\ x.status # "InLoad" /\ Clear(t)
        /\ UNCHANGED <<binder, m_resource_unit_free_ring, frame, queue>>

\* UnloadResult and FreeToResourceUnitAllocator.  Nobody takes a unit from the
\* finalize list again.
UnloadResult(t) ==
    LET u == thread[t].unit
        x == unit[u]
        skipped == x.load \notin {"Cancelled", "Uninitialized"} /\ IsCached(x)
    IN  /\ thread[t].at = "result"
        /\ Idle(t)
        /\ IF t = "control" THEN UNCHANGED <<unit, m_resource_unit_free_ring>>
           ELSE /\ unit' = [unit EXCEPT ![u].unload = "Complete", ![u].unload_finished = TRUE,
                                        ![u].listed = @ \/ (x.status # "Freed" /\ ~skipped)]
                /\ m_resource_unit_free_ring' = IF x.status = "Freed" THEN Append(m_resource_unit_free_ring, u)
                                                ELSE m_resource_unit_free_ring
        /\ UNCHANGED <<binder, frame, m_resource_unit_free_cache_list, queue, crashed>>

\* ClearCacheForAllocate takes the cached units from the back, one by one.
BeginPurge ==
    /\ Take("memory", "purge", None)
    /\ Goto("memory", "purge")
    /\ UNCHANGED <<unit, binder, m_resource_unit_free_ring, frame, m_resource_unit_free_cache_list, crashed>>

PopCached ==
    LET u == Last(m_resource_unit_free_cache_list)
    IN  /\ thread["memory"].at = "purge" /\ m_resource_unit_free_cache_list # <<>>
        /\ m_resource_unit_free_cache_list' = Front(m_resource_unit_free_cache_list)
        /\ IF ~unit[u].freeable THEN UNCHANGED <<unit, thread>>
           ELSE /\ unit' = [unit EXCEPT ![u].in_map = FALSE, ![u].listed = FALSE]
                /\ thread' = [thread EXCEPT !["memory"].at = "test", !["memory"].unit = u,
                                            !["memory"].then = "free"]
        /\ UNCHANGED <<binder, m_resource_unit_free_ring, frame, queue, crashed>>

\* FinalizeResourceUnitSync: its tests, CancelUnloadTask, ClearCache, whose answer
\* it does not look at, and FreeResourceUnit.
IsUnused(x) == x.freeable /\ x.status # "Freed" /\ x.refs <= 0 /\ ~x.finalized
FinalizeUnused ==
    LET u == thread["memory"].unit
    IN  /\ thread["memory"].at = "test"
        /\ \/ ~IsUnused(unit[u]) /\ Goto("memory", "purge") /\ UNCHANGED <<unit, queue>>
           \/ /\ IsUnused(unit[u])
              /\ unit' = [unit EXCEPT ![u].finalized = TRUE,
                                      ![u].unload = IF @ = "Queued" THEN "Cancelled" ELSE @,
                                      ![u].unload_finished = @ \/ unit[u].unload = "Queued"]
              /\ queue' = [queue EXCEPT !["memory"] = @ \ {Task("unload", u)}]
              /\ Goto("memory", "clear")
        /\ UNCHANGED <<binder, m_resource_unit_free_ring, frame, m_resource_unit_free_cache_list, crashed>>

FreeUnit ==
    /\ thread["memory"].at = "free"
    /\ m_resource_unit_free_ring' = Append(m_resource_unit_free_ring, thread["memory"].unit)
    /\ Goto("memory", "purge")
    /\ UNCHANGED <<unit, binder, frame, m_resource_unit_free_cache_list, queue, crashed>>

EndPurge ==
    /\ thread["memory"].at = "purge" /\ m_resource_unit_free_cache_list = <<>>
    /\ thread' = [thread EXCEPT !["memory"] = Rest, !["control"].at = "purged"]
    /\ UNCHANGED <<unit, binder, m_resource_unit_free_ring, frame, m_resource_unit_free_cache_list,
                   queue, crashed>>

\* ClearCacheExe gets the null unit of ScheduleClearCache.
ClearCacheOfNothing ==
    /\ Take("memory", "clear", None)
    /\ Crash
    /\ UNCHANGED <<unit, binder, m_resource_unit_free_ring, frame, m_resource_unit_free_cache_list, thread>>

-----------------------------------------------------------------------------
\* ResourceBinder, used by one thread.  No call clears m_load_guard, so that a
\* binder serves one load.

TryLoad(b, at, path, info) ==
    /\ binder[b].at = "idle" /\ ~binder[b].guard
    /\ binder' = [binder EXCEPT ![b] = [@ EXCEPT !.guard = TRUE, !.status = "Uninitialized",
                                                 !.watcher = "Pending", !.at = at,
                                                 !.info = [path |-> path, cached |-> info.cached,
                                                           transient |-> info.transient]]]
    /\ Push("control", "load", b)
    /\ UNCHANGED <<unit, m_resource_unit_free_ring, frame, m_resource_unit_free_cache_list, thread, crashed>>
TryLoadAsync(b, path, info) == TryLoad(b, "idle", path, info)
TryLoadSync(b, path, info) == TryLoad(b, "loading", path, info)

\* WaitForLoad: first for the task that finds the unit, then for the unit's.
WaitForLoad(b) ==
    /\ \/ binder[b].at = "loading" /\ binder[b].watcher # "Pending"
          /\ binder' = [binder EXCEPT ![b].at = IF binder[b].unit = None THEN "complete" ELSE "unit"]
       \/ binder[b].at = "unit" /\ unit[binder[b].unit].load_finished
          /\ binder' = [binder EXCEPT ![b].at = "complete"]
    /\ UNCHANGED <<unit, m_resource_unit_free_ring, frame, m_resource_unit_free_cache_list,
                   queue, thread, crashed>>

\* Finalize, with y the binder as it is: a load that runs is waited for, the
\* unit is to be unloaded, and its reference stays.
Finalized(b, y) ==
    LET u == y.unit
        loads == Task("load", b)
    IN  /\ y.watcher = "Pending" => loads \in queue["control"]
        /\ binder' = [binder EXCEPT ![b] =
                         [y EXCEPT !.watcher = IF @ = "Pending" THEN "Cancelled" ELSE @, !.unit = None,
                                   !.status = IF u = None THEN "NoResourceUnitOnFinalize" ELSE @]]
        /\ queue' = [queue EXCEPT !["control"] =
                        (@ \ {loads}) \cup (IF u = None THEN {} ELSE {[op |-> "unload", of |-> u, by |-> b]})]

Finalize(b) ==
    /\ binder[b].at = "idle" /\ binder[b].guard
    /\ Finalized(b, binder[b])
    /\ UNCHANGED <<unit, m_resource_unit_free_ring, frame, m_resource_unit_free_cache_list, thread, crashed>>

\* InitializeResource of a unit: only a resource that needs none is ready, as
\* the first to initialize another one waits as if it were the second.
InitializeResource(x, done) == IF IsResourceInitialized(x) THEN done ELSE [done EXCEPT !.at = "initialize"]

\* Complete.  The status of a load that got a new unit is still Uninitialized,
\* which finalizes the binder; who gets a unit another binder has may have to
\* wait until it is initialized, which nobody ever does.
Complete(b) ==
    LET y == binder[b]
        x == unit[y.unit]
        done == [y EXCEPT !.complete = TRUE, !.at = "idle"]
        waits == [y EXCEPT !.at = "idle"]
    IN  /\ y.at \in {"idle", "complete"} /\ y.guard /\ ~y.complete
        /\ IF y.watcher = "Pending" \/ (y.unit # None /\ IsInLoad(x))
           THEN binder' = [binder EXCEPT ![b] = waits] /\ UNCHANGED queue
           ELSE \/ /\ y.unit = None \/ y.status = "Uninitialized"
                   /\ Finalized(b, done)
                \/ /\ y.unit # None /\ y.status # "Uninitialized"
                   /\ \/ /\ x.status = "Error" /\ Finalized(b, [done EXCEPT !.status = "Error"])
                      \/ /\ x.status # "Error" /\ UNCHANGED queue
                         /\ binder' = [binder EXCEPT ![b] =
                               IF x.status # "Loaded" THEN waits
                               ELSE InitializeResource(x, done)]
        /\ UNCHANGED <<unit, m_resource_unit_free_ring, frame, m_resource_unit_free_cache_list, thread, crashed>>

\* ReferenceBinderAsync.
ReferenceBinderAsync(b, other) ==
    LET u == binder[other].unit IN
    /\ binder[b].at = "idle" /\ ~binder[b].guard
    /\ IF u = None THEN binder' = [binder EXCEPT ![b].guard = TRUE] /\ UNCHANGED unit
       ELSE /\ binder' = [binder EXCEPT ![b].guard = TRUE, ![b].unit = u, ![b].status = "Referenced"]
            /\ unit' = [unit EXCEPT ![u] = IncrementReference(@)]
    /\ UNCHANGED <<m_resource_unit_free_ring, frame, m_resource_unit_free_cache_list, queue, thread, crashed>>

User(b) ==
    \/ \E path \in Paths, info \in Infos : TryLoadAsync(b, path, info) \/ TryLoadSync(b, path, info)
    \/ WaitForLoad(b) \/ Finalize(b) \/ Complete(b)
    \/ \E other \in Binders \ {b} : ReferenceBinderAsync(b, other)

Control ==
    \/ \E b \in Binders : BeginLoad(b)
    \/ TryReference \/ DrainUnload \/ CancelUnload \/ Rebind
    \/ NoUnitLeft \/ AllocateUnit \/ Calculate

Loader ==
    \/ \E u \in Units : BeginSchedule(u) \/ BeginLoadFile(u) \/ HeapAdjust(u)
    \/ ScheduleLoad \/ LoadFile \/ ClearCacheOfNothing
    \/ BeginPurge \/ PopCached \/ FinalizeUnused \/ FreeUnit \/ EndPurge

Unloader(t) ==
    \/ \E u \in Units : BeginUnload(t, u)
    \/ CancelLoad(t) \/ LoadIsCancelled(t) \/ Unload(t) \/ ClearCache(t) \/ UnloadResult(t)

Next ==
    /\ ~crashed
    /\ \/ \E b \in Binders : User(b)
       \/ Control \/ Loader
       \/ \E t \in {"control", "memory"} : Unloader(t)

Spec == Init /\ [][Next]_vars
-----------------------------------------------------------------------------
\* A unit that is free to be allocated, or freed, belongs to nobody: no binder
\* has it, no path leads to it, no thread loads into it, and it is free once
\* (FreeResourceUnit, ClearCache, FinalizeResourceUnitSync).
FreeUnitsAreNobodys ==
    /\ \A i, j \in DOMAIN m_resource_unit_free_ring :
          i # j => m_resource_unit_free_ring[i] # m_resource_unit_free_ring[j]
    /\ \A u \in Units :
          u \in ToSet(m_resource_unit_free_ring) \/ unit[u].status = "Freed" =>
             /\ ~unit[u].in_map
             /\ \A b \in Binders : binder[b].unit # u
             /\ u \notin ToSet(m_resource_unit_free_cache_list)
             /\ \A t \in Threads : thread[t].unit = u => thread[t].at \notin {"schedule", "file"}

\* A resource lies in a heap that is there (FreeResource before FreeResourceHeap).
ResourcesHaveAHeap ==
    \A u \in Units : unit[u].resource => unit[u].heap = "alive"

=============================================================================
