------------------------------- MODULE MCTasks -------------------------------
(* The run of async, and of the resource manager, the save thread, the       *)
(* decompressor and the framework, which live on other threads: each         *)
(* behaviour is about one of them, the subject, on an instance small enough  *)
(* for it.  p1, p2 and p3 are the threads that use it, its own threads,      *)
(* watchers or binders.                                                      *)
EXTENDS Naturals, Sequences, FiniteSets

CONSTANTS
    Callers, Tasks, Watchers,     \* users of an AsyncTaskAllocator or AsyncQueue
    Workers, RingSlots, Width, Garbage,  \* the queue's threads, rings and counter
    AllocatorCalls, QueueCalls, MaxPushes,  \* bounds
    Few,                          \* bound: see TkNext and QuNext
    Savers, SaveOps, SaveRequests,  \* users of the AsyncSaveManager, their calls
    ArchiveUsers, ArchiveBinders, Exits,  \* threads with an archive of their own
    TextureUsers, TextureSlots, TextureBlocks, TextureCalls,
    p1, p2, p3, t1, t2, None, Subjects

\* None is no task and no watcher, callers are not threads of the queue, a
\* thread's ring has a slot, the flag of a pause is none of a request's, and there
\* is a slot for textures.
ASSUME TasksAssumption ==
    /\ None \notin Tasks \cup Watchers /\ Workers \cap Callers = {}
    /\ IsFiniteSet(Callers) /\ IsFiniteSet(Tasks) /\ RingSlots \in Nat \ {0}
    /\ "pause" \notin SaveOps
    /\ IsFiniteSet(ArchiveUsers) /\ IsFiniteSet(ArchiveBinders) /\ None \notin ArchiveBinders
    /\ IsFiniteSet(TextureUsers) /\ TextureSlots \in Nat \ {0}

VARIABLES
    subject,
    a_m_task_list, a_m_list_index, a_m_available_event, a_acquirer, a_task,
    a_watcher, a_pc, a_arg,
    w_m_task_list, w_async_task_head, w_m_task_count,
    w_m_all_task_complete_event, w_priority_cleared_event, w_task, w_thread,
    w_pc, w_arg, w_pushes, w_told, w_tangled,
    s_m_request_flags, s_request, s_m_user_file_device, s_messages, s_thread,
    s_client, s_accepted, s_performed,
    d_m_stream_count, d_m_is_error, d_m_current_stream_context,
    d_m_decompress_finish_event, d_m_stream_finish_event, d_buffer,
    d_messages, d_worker, d_loader,
    f_alive, f_m_current_command_list_index,
    f_m_primary_graphics_command_list_array, f_m_is_pause_draw,
    f_m_is_ready_to_exit, f_m_is_present, f_m_present_event, f_main,
    f_present, f_messages, f_gpu, f_expected, f_value, f_window, f_frames,
    f_changes, f_disturbed,
    i_pressed_state, i_pressed_state_last, i_released_state,
    i_released_state_last, i_frame_keyboard_state, i_last_raw_mouse,
    i_interim_delta, i_frame_delta, i_frame_pc, i_devices, i_thread, i_open,
    i_repeated, i_moved, i_shown, i_events,
    l_m_is_trigger_clear_tree, l_m_free_archive_ring_buffer, l_tree, l_nodes,
    l_m_registered_thread_ring, l_tls, l_m_cs, l_exiting, l_walking, l_exits,
    l_crashed,
    x_m_next_index, x_m_handle_array, x_m_texture_array, x_memory,
    x_m_texture_slot, x_call, x_calls, x_crashed,
    r_unit, r_binder, r_m_resource_unit_free_ring, r_frame,
    r_m_resource_unit_free_cache_list, r_queue, r_thread, r_crashed

a_vars == <<a_m_task_list, a_m_list_index, a_m_available_event, a_acquirer,
        a_task, a_watcher, a_pc, a_arg>>
w_vars == <<w_m_task_list, w_async_task_head, w_m_task_count,
        w_m_all_task_complete_event, w_priority_cleared_event, w_task,
        w_thread, w_pc, w_arg, w_pushes, w_told, w_tangled>>
s_vars == <<s_m_request_flags, s_request, s_m_user_file_device, s_messages,
        s_thread, s_client, s_accepted, s_performed>>
d_vars == <<d_m_stream_count, d_m_is_error, d_m_current_stream_context,
        d_m_decompress_finish_event, d_m_stream_finish_event, d_buffer,
        d_messages, d_worker, d_loader>>
f_vars == <<f_alive, f_m_current_command_list_index,
        f_m_primary_graphics_command_list_array, f_m_is_pause_draw,
        f_m_is_ready_to_exit, f_m_is_present, f_m_present_event, f_main,
        f_present, f_messages, f_gpu, f_expected, f_value, f_window,
        f_frames, f_changes, f_disturbed>>
i_vars == <<i_pressed_state, i_pressed_state_last, i_released_state,
        i_released_state_last, i_frame_keyboard_state, i_last_raw_mouse,
        i_interim_delta, i_frame_delta, i_frame_pc, i_devices, i_thread,
        i_open, i_repeated, i_moved, i_shown, i_events>>
l_vars == <<l_m_is_trigger_clear_tree, l_m_free_archive_ring_buffer, l_tree,
        l_nodes, l_m_registered_thread_ring, l_tls, l_m_cs, l_exiting,
        l_walking, l_exits, l_crashed>>
x_vars == <<x_m_next_index, x_m_handle_array, x_m_texture_array, x_memory,
        x_m_texture_slot, x_call, x_calls, x_crashed>>
r_vars == <<r_unit, r_binder, r_m_resource_unit_free_ring, r_frame,
        r_m_resource_unit_free_cache_list, r_queue, r_thread, r_crashed>>
vars == <<subject, a_vars, w_vars, s_vars, d_vars, f_vars, i_vars, l_vars, x_vars, r_vars>>

Al == INSTANCE TaskAllocator WITH
    Clients <- Callers, MaxCalls <- AllocatorCalls,
    m_task_list <- a_m_task_list, m_list_index <- a_m_list_index,
    m_available_event <- a_m_available_event, acquirer <- a_acquirer,
    task <- a_task, watcher <- a_watcher, pc <- a_pc, arg <- a_arg
Qu == INSTANCE AsyncQueue WITH
    Clients <- Callers, Levels <- {0}, Slots <- RingSlots,
    Calls <- {"push", "cancel", "reschedule", "wait", "suspend"},
    MaxCalls <- QueueCalls, NoTask <- None,
    m_task_list <- w_m_task_list, async_task_head <- w_async_task_head,
    m_task_count <- w_m_task_count,
    m_all_task_complete_event <- w_m_all_task_complete_event,
    priority_cleared_event <- w_priority_cleared_event, task <- w_task,
    thread <- w_thread, pc <- w_pc, arg <- w_arg, pushes <- w_pushes,
    told <- w_told, tangled <- w_tangled
Lv == INSTANCE AsyncQueue WITH
    Clients <- {p1}, Workers <- {p3}, Levels <- {0, 1}, Slots <- 3,
    Calls <- {"push", "cancel", "level", "waitlevel", "waitall", "priority"},
    MaxCalls <- QueueCalls, Garbage <- {"other"}, NoTask <- None,
    m_task_list <- w_m_task_list,
    async_task_head <- w_async_task_head, m_task_count <- w_m_task_count,
    m_all_task_complete_event <- w_m_all_task_complete_event,
    priority_cleared_event <- w_priority_cleared_event, task <- w_task,
    thread <- w_thread, pc <- w_pc, arg <- w_arg, pushes <- w_pushes,
    told <- w_told, tangled <- w_tangled
Sv == INSTANCE AsyncSave WITH
    Clients <- Savers, Devices <- {t1}, None <- None,
    Ops <- SaveOps, MaxRequests <- SaveRequests,
    m_request_flags <- s_m_request_flags, request <- s_request,
    m_user_file_device <- s_m_user_file_device, messages <- s_messages,
    thread <- s_thread, client <- s_client, accepted <- s_accepted,
    performed <- s_performed
\* Sizes of files and of what Zstandard takes at a time: shorter than a block,
\* a block exactly, with and without trailing data, cut off.
Frames == {[size |-> 1, frame |-> <<1>>], [size |-> 2, frame |-> <<1, 1>>],
           [size |-> 4, frame |-> <<1, 3>>], [size |-> 4, frame |-> <<3>>],
           [size |-> 5, frame |-> <<3, 1, 1>>], [size |-> 6, frame |-> <<1, 3>>],
           [size |-> 7, frame |-> <<1, 2, 2, 2>>], [size |-> 3, frame |-> <<1, 4>>]}
De == INSTANCE Decompressor WITH
    Files <- Frames, cReadSize <- 2, None <- None, MaxLoads <- 3,
    m_stream_count <- d_m_stream_count, m_is_error <- d_m_is_error,
    m_current_stream_context <- d_m_current_stream_context,
    m_decompress_finish_event <- d_m_decompress_finish_event,
    m_stream_finish_event <- d_m_stream_finish_event, buffer <- d_buffer,
    messages <- d_messages, worker <- d_worker, loader <- d_loader
Fr == INSTANCE Framework WITH
    WindowCount <- 1, ImageCount <- 2, Sizes <- {0, 1}, None <- None,
    MaxFrames <- 4, MaxChanges <- 1, alive <- f_alive,
    m_current_command_list_index <- f_m_current_command_list_index,
    m_primary_graphics_command_list_array <- f_m_primary_graphics_command_list_array,
    m_is_pause_draw <- f_m_is_pause_draw,
    m_is_ready_to_exit <- f_m_is_ready_to_exit,
    m_is_present <- f_m_is_present, m_present_event <- f_m_present_event,
    main <- f_main, present <- f_present, messages <- f_messages,
    gpu <- f_gpu, expected <- f_expected, value <- f_value,
    window <- f_window, frames <- f_frames, changes <- f_changes,
    disturbed <- f_disturbed
In == INSTANCE RawInput WITH
    Keys <- {31, 63}, Positions <- {1, 2}, MaxDevices <- 2, MaxEvents <- 2,
    pressed_state <- i_pressed_state,
    pressed_state_last <- i_pressed_state_last,
    released_state <- i_released_state,
    released_state_last <- i_released_state_last,
    frame_keyboard_state <- i_frame_keyboard_state,
    last_raw_mouse <- i_last_raw_mouse, interim_delta <- i_interim_delta,
    frame_delta <- i_frame_delta, frame_pc <- i_frame_pc,
    devices <- i_devices, thread <- i_thread, open <- i_open,
    repeated <- i_repeated, moved <- i_moved, shown <- i_shown,
    events <- i_events
Lo == INSTANCE LocalArchives WITH
    Threads <- ArchiveUsers, Binders <- ArchiveBinders, Unset <- None,
    None <- None, MaxExits <- Exits,
    m_is_trigger_clear_tree <- l_m_is_trigger_clear_tree,
    m_free_archive_ring_buffer <- l_m_free_archive_ring_buffer,
    tree <- l_tree, nodes <- l_nodes,
    m_registered_thread_ring <- l_m_registered_thread_ring, tls <- l_tls,
    m_cs <- l_m_cs, exiting <- l_exiting, walking <- l_walking,
    exits <- l_exits, crashed <- l_crashed
Te == INSTANCE TextureSamplers WITH
    Binders <- TextureUsers, Count <- TextureSlots, Blocks <- TextureBlocks,
    None <- None, MaxCalls <- TextureCalls, m_next_index <- x_m_next_index,
    m_handle_array <- x_m_handle_array, m_texture_array <- x_m_texture_array,
    memory <- x_memory, m_texture_slot <- x_m_texture_slot, call <- x_call,
    calls <- x_calls, crashed <- x_crashed
LoadInfos == {[cached |-> TRUE, transient |-> TRUE], [cached |-> FALSE, transient |-> FALSE]}
Rs == INSTANCE ResourceManager WITH
    Units <- {t1}, Binders <- {p1, p2}, Paths <- {1}, FrameCapacity <- 2,
    Infos <- LoadInfos, unit <- r_unit, binder <- r_binder,
    m_resource_unit_free_ring <- r_m_resource_unit_free_ring,
    frame <- r_frame,
    m_resource_unit_free_cache_list <- r_m_resource_unit_free_cache_list,
    queue <- r_queue, thread <- r_thread, crashed <- r_crashed

\* Everybody but the subject rests in its initial state.
Init ==
    /\ subject \in Subjects
    /\ Al!Init
    /\ IF subject = "levels" THEN Lv!Init
       ELSE /\ Qu!Init
            /\ subject # "queue" => \A w \in Workers : w_thread[w].slot[0] = "other"
    /\ Sv!Init
    /\ De!Init /\ (subject # "decompressor" => d_m_stream_count = 0)
    /\ Fr!Init
    /\ In!Init /\ (subject # "input" => i_devices = 0)
    /\ Lo!Init
    /\ Te!Init
    /\ Rs!Init

OnlyTaskAllocator == UNCHANGED <<subject, w_vars, s_vars, d_vars, f_vars, i_vars, l_vars, x_vars, r_vars>>
OnlyAsyncQueue == UNCHANGED <<subject, a_vars, s_vars, d_vars, f_vars, i_vars, l_vars, x_vars, r_vars>>
OnlyAsyncSave == UNCHANGED <<subject, a_vars, w_vars, d_vars, f_vars, i_vars, l_vars, x_vars, r_vars>>
OnlyDecompressor == UNCHANGED <<subject, a_vars, w_vars, s_vars, f_vars, i_vars, l_vars, x_vars, r_vars>>
OnlyFramework == UNCHANGED <<subject, a_vars, w_vars, s_vars, d_vars, i_vars, l_vars, x_vars, r_vars>>
OnlyRawInput == UNCHANGED <<subject, a_vars, w_vars, s_vars, d_vars, f_vars, l_vars, x_vars, r_vars>>
OnlyLocalArchives == UNCHANGED <<subject, a_vars, w_vars, s_vars, d_vars, f_vars, i_vars, x_vars, r_vars>>
OnlyTextureSamplers == UNCHANGED <<subject, a_vars, w_vars, s_vars, d_vars, f_vars, i_vars, l_vars, r_vars>>
OnlyResourceManager == UNCHANGED <<subject, a_vars, w_vars, s_vars, d_vars, f_vars, i_vars, l_vars, x_vars>>

AlNext == subject = "allocator" /\ Al!Next /\ OnlyTaskAllocator
\* Bounds: all the callers push and cancel, and a few threads serve them; or a
\* few callers make every call, and all threads serve them.
TkNext == /\ subject = "tasks" /\ OnlyAsyncQueue
          /\ \/ \E w \in Workers \cap Few : Qu!Worker(w) /\ w_pc'[w] # "insert"
             \/ \E c \in Callers : Qu!Proceed(c) \/ (Qu!Sane /\ (Qu!PushTask(c) \/ Qu!CancelTask(c)))
QuNext == /\ subject = "queue" /\ OnlyAsyncQueue
          /\ Qu!Next
          /\ \A c \in Callers \ Few : w_pc'[c] = "idle" /\ w_arg'[c].calls = 0
LvNext == subject = "levels" /\ Lv!Next /\ OnlyAsyncQueue
SvNext == subject = "save" /\ Sv!Next /\ OnlyAsyncSave
DeNext == subject = "decompressor" /\ De!Next /\ OnlyDecompressor
FrNext == subject = "frames" /\ Fr!Next /\ OnlyFramework
InNext == subject = "input" /\ In!Next /\ OnlyRawInput
LoNext == subject = "archives" /\ Lo!Next /\ OnlyLocalArchives
TeNext == subject = "textures" /\ Te!Next /\ OnlyTextureSamplers
RsNext == subject = "resources" /\ Rs!Next /\ OnlyResourceManager

Next == \/ AlNext \/ TkNext \/ QuNext \/ LvNext \/ SvNext \/ DeNext
        \/ FrNext \/ InNext \/ LoNext \/ TeNext \/ RsNext

\* The steps a process takes by itself, which the kernel does not put off for
\* ever: fibers and native threads are scheduled, but nobody has to call.
Fairness ==
    /\ \A c \in Callers : WF_a_vars(subject = "allocator" /\ Al!Proceed(c))
    /\ \A t \in Tasks : WF_a_vars(subject = "allocator" /\ (Al!Execute(t) \/ Al!Finish(t)))
    /\ \A w \in Workers \cap Few : WF_w_vars(subject = "tasks" /\ Qu!Worker(w))
    /\ \A c \in Callers : WF_w_vars(subject = "tasks" /\ Qu!Proceed(c))
    /\ \A p \in {p1, p2} : WF_d_vars(subject = "decompressor" /\ (IF p = p1 THEN De!Loader ELSE De!Worker))
Spec == Init /\ [][Next]_vars /\ Fairness
-----------------------------------------------------------------------------
\* No task is lost or given out twice, and one that somebody waits for through
\* a watcher is kept from others, also when its push is refused
\* (AsyncTaskAllocator, AsyncTaskWatcher).
TasksHaveOneHome == subject = "allocator" => Al!TaskHasOneHome /\ Al!WatchedTaskIsKept

\* The queue's list, its heads and the states of the tasks agree after every
\* section under m_queue_mutex, and no two of the queue's threads run a task at a
\* time (AcquireNextTask), but for the tasks that are pushed while somebody has them.
QueuedTaskIsReachable ==
    subject \in {"tasks", "queue"} => Qu!QueuedTaskIsReachable /\ Qu!RunnerOwnsTask

\* Each push of a task that nobody has ends in one result or one cancellation, with
\* several levels too, whatever the order of cancelling and running; each request
\* that the save manager accepts is carried out once, with its own arguments; each
\* block that is sent to the decompressor is decompressed once, in its order, while
\* the next one is read (LoadDecompressFile); each frame that is drawn is submitted
\* once, on the images it was drawn for (PresentAsync); each press and release of a
\* key and each movement of the mouse is in one frame (BeginFrame).
OneOutcomePerRequest ==
    /\ subject \in {"tasks", "queue"} => Qu!OneOutcomePerPush
    /\ subject = "levels" => Lv!OneOutcomePerPush
    /\ subject = "save" => Sv!RequestsAreTheirOwn /\ Sv!NotPendingIsDone
    /\ subject = "decompressor" => De!OutputIsFile /\ De!ThreadHasContext
    /\ subject = "frames" => Fr!FramesAreWhole /\ Fr!AwaitedFrameIsPresented /\ Fr!SubmittedListCanRun
    /\ subject = "input" => /\ In!KeysAreNotStuck /\ In!PressesAlternate
                            /\ In!MotionIsShownOnce /\ In!DeviceListFits

\* A resource unit that is free, or freed, belongs to nobody, and a resource lies
\* in a heap that is there (AsyncResourceManager, ResourceUnit::ClearCache); an
\* image and a window that a frame is done with are given back, and a library's
\* heap goes after what lies in it (PresentAsync, FinalizeLibraries).  A binder of
\* a local archive is free or one thread's, which finds no other in its slot
\* (RegisterThread, TlsDestructor); a texture is counted once for each of its
\* binders (ReleaseTexture, BindTexture).
FreeUnitsAreNobodys ==
    /\ subject = "resources" => Rs!FreeUnitsAreNobodys /\ Rs!ResourcesHaveAHeap
    /\ subject = "frames" => Fr!WindowsAreReady /\ Fr!HeapsOutliveTheirs
    /\ subject = "archives" => Lo!BindersHaveOneHome /\ Lo!SlotIsOwn
    /\ subject = "textures" => Te!CountsAreBinders

\* p waits in ScheduleTask for a free task, or in CancelTask or PushTask for the
\* end of a task, or LoadDecompressFile for the thread.
Expects(p) ==
    \/ subject = "allocator" /\ a_pc[p] = "available"
    \/ subject = "tasks" /\ w_pc[p] \in {"finishing", "finish"} /\ w_arg[p].task \notin w_tangled /\ Qu!Sane
    \/ subject = "decompressor" /\ d_loader.pc \in {"send", "next", "read", "final", "last"}

\* ScheduleTask gets its task; CancelTask, PushTask when it waits, and
\* LoadDecompressFile when the thread is its own come back, unless a second thread
\* waits for the end of a task (late) or it was pushed while somebody had it.
CallsReturn == \A p \in Callers : Expects(p) ~> ~Expects(p)
=============================================================================
