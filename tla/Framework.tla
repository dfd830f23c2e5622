------------------------------ MODULE Framework ------------------------------
(* frm::Framework and JobListFramework: the main thread records a frame, the
   present thread submits it, waits for the GPU, shows it and acquires the next
   images, and each window has a thread for its messages, which takes
   m_window_cs to resize.  The queue of the GPU and the swapchains are external.
   A command list is [n, target]: the frame it holds and the images it draws on.
   `disturbed` is history: which of the known ways out of step has happened. *)
EXTENDS Integers, Sequences, FiniteSets

CONSTANTS
    WindowCount,
    ImageCount,  \* 2, or 3 with enable_triple_buffer
    Sizes,       \* a window's sizes; 0 is minimised
    None,
    MaxFrames,   \* bound: frames drawn
    MaxChanges   \* bound: pauses, new sizes and windows closed

Windows == 1 .. WindowCount
cMaxRenderTargetCount == 3
Lists == 0 .. cMaxRenderTargetCount - 1

VARIABLES
    alive,       \* the singletons and heaps that exist
    m_current_command_list_index, m_primary_graphics_command_list_array,
    m_is_pause_draw, m_is_ready_to_exit, m_is_present, m_present_event,
    main,        \* [pc, window]
    present,     \* the present thread: [pc, window, shown], shown: window -> image
    messages,    \* its queue
    gpu,         \* submissions: [list, n, waits, value]
    expected, value,  \* m_graphics_queue_submit_sync_array and what the GPU has signalled
    window,      \* [pc, size, asked, image, acquired, sync, refresh, skip, locked, exit]
    frames, changes, disturbed

state == <<m_current_command_list_index, m_primary_graphics_command_list_array, m_is_present>>
vars == <<alive, state, m_is_pause_draw, m_is_ready_to_exit, m_present_event, main, present,
          messages, gpu, expected, value, window, frames, changes, disturbed>>
application == <<m_is_pause_draw, m_is_ready_to_exit, changes>>

NoList == [n |-> 0, target |-> None]

Init ==
    /\ alive = {}
    /\ m_current_command_list_index = 0
    /\ m_primary_graphics_command_list_array = [i \in Lists |-> NoList]
    /\ m_is_pause_draw = FALSE /\ m_is_ready_to_exit = FALSE /\ m_is_present = FALSE
    /\ m_present_event = FALSE
    /\ main = [pc |-> "libraries", window |-> 1]
    /\ present = [pc |-> "off", window |-> 1, shown |-> <<>>]
    /\ messages = <<>> /\ gpu = <<>>
    /\ expected = [i \in Lists |-> 1] /\ value = [i \in Lists |-> 0]
    /\ window = [w \in Windows |->
          [pc |-> "off", size |-> 1, asked |-> 1, image |-> -1, acquired |-> {},
           sync |-> [i \in 0 .. cMaxRenderTargetCount |-> FALSE],
           refresh |-> FALSE, skip |-> FALSE, locked |-> FALSE, exit |-> FALSE]]
    /\ frames = 0 /\ changes = 0 /\ disturbed = {}

MainGoes(pc) == main' = [main EXCEPT !.pc = pc]
PresentGoes(pc) == present' = [present EXCEPT !.pc = pc, !.window = 1]
-----------------------------------------------------------------------------
\* Where each singleton lies, in the order of creation.
Libraries == {"ThreadManager", "FileDeviceManager", "ResourceFactoryManager", "RawInputThread"}
Graphics == {"Context", "GpuHeapManager", "CommandPoolManager", "TextureSamplerManager"}

InitializeLibraries ==
    /\ main.pc = "libraries"
    /\ \/ alive' = {"root heap", "library heap"} \cup Libraries /\ MainGoes("graphics")
       \/ alive' = {} /\ MainGoes("failed")         \* ResultFailedToAllocateRootHeap
    /\ UNCHANGED <<state, application, m_present_event, present, messages, gpu, expected, value,
                   window, frames, disturbed>>

InitializeGraphics ==
    /\ main.pc = "graphics"
    /\ alive' = alive \cup {"graphics heap"} \cup Graphics
    /\ MainGoes("run")
    /\ UNCHANGED <<state, application, m_present_event, present, messages, gpu, expected, value,
                   window, frames, disturbed>>

\* The library's heap goes when its singletons are gone, then the root heap.
FinalizeLibraries ==
    /\ main.pc = "finalize libraries"
    /\ alive' = alive \ (Libraries \cup {"library heap", "root heap"})
    /\ MainGoes("done")
    /\ UNCHANGED <<state, application, m_present_event, present, messages, gpu, expected, value,
                   window, frames, disturbed>>

GraphicsGone_HeapOnly(set) == set \ {"graphics heap"}
GraphicsGone(set) == set \ (Graphics \cup {"graphics heap"})

FinalizeGraphics ==
    /\ main.pc = "finalize graphics"
    /\ alive' = GraphicsGone(alive)
    /\ MainGoes("finalize libraries")
    /\ UNCHANGED <<state, application, m_present_event, present, messages, gpu, expected, value,
                   window, frames, disturbed>>
-----------------------------------------------------------------------------
\* InitializeRun starts the windows' threads and waits for each.
InitializeRun ==
    /\ main.pc = "run"
    /\ window' = [w \in Windows |-> [window[w] EXCEPT !.pc = "create"]]
    /\ MainGoes("wait for windows")
    /\ UNCHANGED <<alive, state, application, m_present_event, present, messages, gpu, expected,
                   value, frames, disturbed>>

NextAcquireIndex(i) == IF ImageCount < i + 1 THEN 0 ELSE i + 1

\* AcquireNextImage waits for an image that is not acquired; index 3 is behind
\* the array of the syncs.
Acquire(r, i, k) == [r EXCEPT !.image = k, !.acquired = @ \cup {k},
                              !.sync[NextAcquireIndex(i)] = TRUE]
FreeImages(w) == (0 .. ImageCount - 1) \ window[w].acquired

\* MainLoop, up to the loop: the first image of each window.
StartMainLoop ==
    /\ main.pc = "wait for windows"
    /\ \A w \in Windows : window[w].pc # "create"
    /\ \E image \in [Windows -> 0 .. ImageCount - 1] :
         window' = [w \in Windows |-> Acquire(window[w], m_current_command_list_index, image[w])]
    /\ PresentGoes("wait")
    /\ m_is_ready_to_exit' = FALSE
    /\ MainGoes("draw")
    /\ UNCHANGED <<alive, state, m_is_pause_draw, changes, m_present_event, messages, gpu, expected,
                   value, frames, disturbed>>
-----------------------------------------------------------------------------
\* Draw: the next command list is finalized and recorded again.
NextIndex_Same(i) == i
NextIndex(i) == IF cMaxRenderTargetCount <= i + 1 THEN 0 ELSE i + 1

BeginDraw ==
    LET i == NextIndex(m_current_command_list_index)
    IN /\ main.pc = "draw"
       /\ IF m_is_pause_draw
          THEN MainGoes("calc") /\ UNCHANGED state
          ELSE /\ frames < MaxFrames
               /\ m_current_command_list_index' = i
               /\ m_primary_graphics_command_list_array' =
                     [m_primary_graphics_command_list_array EXCEPT ![i] = NoList]
               /\ MainGoes("record")
               /\ UNCHANGED m_is_present
       /\ UNCHANGED <<alive, application, m_present_event, present, messages, gpu, expected, value,
                      window, frames, disturbed>>

\* The images are read without the windows' locks.
Record ==
    /\ main.pc = "record"
    /\ frames' = frames + 1
    /\ m_primary_graphics_command_list_array' =
          [m_primary_graphics_command_list_array EXCEPT ![m_current_command_list_index] =
              [n |-> frames + 1, target |-> [w \in Windows |-> window[w].image]]]
    /\ MainGoes("clear")
    /\ UNCHANGED <<alive, m_current_command_list_index, m_is_present, application, m_present_event,
                   present, messages, gpu, expected, value, window, disturbed>>

ClearPresentEvent ==
    /\ main.pc = "clear"
    /\ m_present_event' = FALSE
    /\ MainGoes("present")
    /\ UNCHANGED <<alive, state, application, present, messages, gpu, expected, value, window,
                   frames, disturbed>>

StartPresent ==
    /\ main.pc = "present"
    /\ m_is_present' = TRUE
    /\ MainGoes("send")
    /\ UNCHANGED <<alive, m_current_command_list_index, m_primary_graphics_command_list_array,
                   application, m_present_event, present, messages, gpu, expected, value, window,
                   frames, disturbed>>

SendMessage ==
    /\ main.pc = "send"
    /\ messages' = Append(messages, 1)
    /\ MainGoes("calc")
    /\ UNCHANGED <<alive, state, application, m_present_event, present, gpu, expected, value, window,
                   frames, disturbed>>

\* The jobs run; one may call SetIsReadyToExit, which is only read after this.
Calc ==
    /\ main.pc = "calc"
    /\ \E exit \in BOOLEAN : m_is_ready_to_exit' = (m_is_ready_to_exit \/ exit)
    /\ MainGoes("gpu")
    /\ UNCHANGED <<alive, state, m_is_pause_draw, changes, m_present_event, present, messages, gpu, expected,
                   value, window, frames, disturbed>>

Loop == IF m_is_ready_to_exit THEN "exit" ELSE "draw"

\* WaitForGpu: the present thread clears m_is_present before its signal, and a
\* main thread that looks between the two gets ahead of it.
WaitForGpu ==
    /\ main.pc = "gpu"
    /\ MainGoes(IF m_is_present THEN "wait" ELSE Loop)
    /\ disturbed' = IF ~m_is_present /\ present.pc = "signal"
                    THEN disturbed \cup {"overtaken"} ELSE disturbed
    /\ UNCHANGED <<alive, state, application, m_present_event, present, messages, gpu, expected,
                   value, window, frames>>

PresentWait ==
    /\ main.pc = "wait" /\ m_present_event
    /\ MainGoes(Loop)
    /\ UNCHANGED <<alive, state, application, m_present_event, present, messages, gpu, expected,
                   value, window, frames, disturbed>>

\* The end of MainLoop: the present thread exits first.
EndMainLoop ==
    /\ main.pc = "exit"
    /\ messages' = Append(messages, 0)
    /\ MainGoes("join")
    /\ UNCHANGED <<alive, state, application, m_present_event, present, gpu, expected, value, window,
                   frames, disturbed>>

JoinPresentThread ==
    /\ main.pc = "join" /\ present.pc = "gone"
    /\ gpu = <<>>                                   \* vkQueueWaitIdle
    /\ m_primary_graphics_command_list_array' = [i \in Lists |-> NoList]
    /\ main' = [pc |-> "exit window", window |-> 1]
    /\ UNCHANGED <<alive, m_current_command_list_index, m_is_present, application, m_present_event,
                   present, messages, gpu, expected, value, window, frames, disturbed>>

\* FinalizeRun: ExitWindowThread sends and joins, one window after the other.
ExitWindowThread ==
    /\ main.pc = "exit window"
    /\ window' = [window EXCEPT ![main.window].exit = TRUE]
    /\ MainGoes("join window")
    /\ UNCHANGED <<alive, state, application, m_present_event, present, messages, gpu, expected,
                   value, frames, disturbed>>

JoinWindowThread ==
    /\ main.pc = "join window" /\ window[main.window].pc = "gone"
    /\ main' = IF main.window = WindowCount
               THEN [main EXCEPT !.pc = "finalize graphics"]
               ELSE [pc |-> "exit window", window |-> main.window + 1]
    /\ UNCHANGED <<alive, state, application, m_present_event, present, messages, gpu, expected,
                   value, window, frames, disturbed>>

\* The application, from any thread.
SetDrawPauseState ==
    /\ present.pc # "off" /\ changes < MaxChanges
    /\ changes' = changes + 1
    /\ m_is_pause_draw' = ~m_is_pause_draw
    /\ UNCHANGED <<alive, state, m_is_ready_to_exit, m_present_event, main, present, messages, gpu,
                   expected, value, window, frames, disturbed>>
-----------------------------------------------------------------------------
main_vars == <<alive, m_current_command_list_index, m_primary_graphics_command_list_array,
               application, main, frames>>

\* PresentAsync of a message 1: a frame that finds the drawing paused is never
\* submitted, and m_is_present stays.
PausedSignal_Not(event) == event
PausedSignal(event) == TRUE

Receive ==
    /\ present.pc = "wait" /\ messages # <<>>
    /\ messages' = Tail(messages)
    /\ IF Head(messages) = 0
       THEN PresentGoes("gone") /\ UNCHANGED <<m_present_event, disturbed>>
       ELSE IF m_is_pause_draw
       THEN /\ m_present_event' = PausedSignal(m_present_event)
            /\ disturbed' = disturbed \cup {"dropped"}
            /\ UNCHANGED present
       ELSE /\ present' = [pc |-> "lock", window |-> 1, shown |-> <<>>]
            /\ UNCHANGED <<m_present_event, disturbed>>
    /\ UNCHANGED <<main_vars, m_is_present, gpu, expected, value, window>>

\* m_window_cs is taken for all windows; it cannot be taken twice.
LockWindow ==
    LET w == present.window
    IN /\ present.pc = "lock" /\ ~window[w].locked
       /\ window' = [window EXCEPT ![w].locked = TRUE]
       /\ present' = [pc |-> IF w = WindowCount THEN "submit" ELSE "lock",
                      window |-> IF w = WindowCount THEN 1 ELSE w + 1,
                      shown |-> Append(present.shown, IF window[w].skip THEN -1 ELSE window[w].image)]
       /\ UNCHANGED <<main_vars, m_is_present, m_present_event, messages, gpu, expected, value,
                      disturbed>>

\* SubmitCommandList: the GPU starts after the windows' acquire syncs.
SubmitCommandList ==
    LET i == m_current_command_list_index
    IN /\ present.pc = "submit"
       /\ gpu' = Append(gpu, [list |-> i, n |-> m_primary_graphics_command_list_array[i].n,
                              value |-> expected[i]])
       /\ PresentGoes("present")
       /\ UNCHANGED <<main_vars, m_is_present, m_present_event, messages, expected, value, window,
                      disturbed>>

\* The images that are shown go back to their swapchains.
QueuePresent ==
    /\ present.pc = "present"
    /\ window' = [w \in Windows |-> [window[w] EXCEPT !.acquired = @ \ {present.shown[w]}]]
    /\ PresentGoes("wait gpu")
    /\ UNCHANGED <<main_vars, m_is_present, m_present_event, messages, gpu, expected, value, disturbed>>

\* Sync::Wait and IncrementExpectedValue.
WaitForSubmission_Not(i) == TRUE
WaitForSubmission(i) == expected[i] <= value[i]

SyncWait ==
    LET i == m_current_command_list_index
    IN /\ present.pc = "wait gpu" /\ WaitForSubmission(i)
       /\ expected' = [expected EXCEPT ![i] = @ + 1]
       /\ PresentGoes("acquire")
       /\ UNCHANGED <<main_vars, m_is_present, m_present_event, messages, gpu, value, window, disturbed>>

AfterWindow(w) == IF w = WindowCount THEN PresentGoes("finish")
                  ELSE present' = [present EXCEPT !.pc = "acquire", !.window = w + 1]

\* A window that is skipped keeps its lock.
SkipWindow ==
    /\ present.pc = "acquire" /\ window[present.window].skip
    /\ AfterWindow(present.window)
    /\ UNCHANGED <<main_vars, m_is_present, m_present_event, messages, gpu, expected, value, window,
                   disturbed>>

AcquireNextImage ==
    LET w == present.window
    IN /\ present.pc = "acquire" /\ ~window[w].skip
       /\ \E k \in FreeImages(w) :
            window' = [window EXCEPT ![w] = Acquire(@, m_current_command_list_index, k)]
       /\ present' = [present EXCEPT !.pc = "recreate"]
       /\ UNCHANGED <<main_vars, m_is_present, m_present_event, messages, gpu, expected, value,
                      disturbed>>

\* RecreateSwapchainIfNecessaryUnsafe answers TRUE again and again: nothing
\* clears m_require_swapchain_refresh.
RecreateSwapchain ==
    LET w == present.window
    IN /\ present.pc = "recreate"
       /\ IF window[w].refresh /\ ~window[w].skip
          THEN /\ window' = [window EXCEPT ![w].acquired = {}]
               /\ present' = [present EXCEPT !.pc = "acquire"]
          ELSE /\ window' = [window EXCEPT ![w].locked = FALSE]
               /\ AfterWindow(w)
       /\ UNCHANGED <<main_vars, m_is_present, m_present_event, messages, gpu, expected, value,
                      disturbed>>

EndPresent ==
    /\ present.pc = "finish"
    /\ m_is_present' = FALSE
    /\ PresentGoes("signal")
    /\ UNCHANGED <<main_vars, m_present_event, messages, gpu, expected, value, window, disturbed>>

SignalMainLoop ==
    /\ present.pc = "signal"
    /\ m_present_event' = TRUE
    /\ PresentGoes("wait")
    /\ UNCHANGED <<main_vars, m_is_present, messages, gpu, expected, value, window, disturbed>>

\* The GPU (external): in order, when the acquire syncs of the list are signalled.
Execute ==
    LET job == Head(gpu)
    IN /\ gpu # <<>> /\ \A w \in Windows : window[w].sync[job.list]
       /\ gpu' = Tail(gpu)
       /\ value' = [value EXCEPT ![job.list] = job.value]
       /\ window' = [w \in Windows |-> [window[w] EXCEPT !.sync[job.list] = FALSE]]
       /\ UNCHANGED <<main_vars, m_is_present, m_present_event, present, messages, expected, disturbed>>
-----------------------------------------------------------------------------
other_vars == <<alive, state, m_is_pause_draw, m_is_ready_to_exit, m_present_event, main, present,
                messages, gpu, expected, value, frames>>

\* WindowThread::Run up to its message loop.
CreateWindow(w) ==
    /\ window[w].pc = "create"
    /\ window' = [window EXCEPT ![w].pc = "run"]
    /\ UNCHANGED <<other_vars, changes, disturbed>>

\* A message of the system: a size, or another one.  The thread's own queue is
\* looked at after it.
GetMessage(w) ==
    /\ window[w].pc = "run"
    /\ \E size \in Sizes :
         /\ window' = [window EXCEPT ![w].pc = IF window[w].exit THEN "closing"
                                               ELSE IF size = window[w].size THEN "run" ELSE "size",
                                     ![w].asked = size]
         /\ changes' = changes + (IF size = window[w].size THEN 0 ELSE 1)
    /\ changes' <= MaxChanges
    /\ UNCHANGED <<other_vars, disturbed>>

\* WM_SIZE, under m_window_cs: a window that comes back has a fresh swapchain.
Size(w) ==
    LET r == window[w]
    IN /\ r.pc = "size" /\ ~r.locked
       /\ window' = [window EXCEPT ![w] =
             [r EXCEPT !.pc = "run", !.size = r.asked, !.refresh = TRUE,
                       !.skip = IF r.asked = 0 THEN TRUE ELSE IF r.size = 0 THEN FALSE ELSE r.skip,
                       !.acquired = IF r.asked # 0 /\ r.size = 0 THEN {} ELSE @]]
       /\ disturbed' = disturbed \cup {"window"}
       /\ UNCHANGED <<other_vars, changes>>

\* WM_DESTROY: GetMessage answers 0.
CloseWindow(w) ==
    /\ window[w].pc = "run" /\ changes < MaxChanges
    /\ window' = [window EXCEPT ![w].pc = "closing"]
    /\ changes' = changes + 1
    /\ UNCHANGED <<other_vars, disturbed>>

\* The end of Run: drawing is skipped, the queue idle, the swapchain destroyed.
SkipDraw(w) ==
    /\ window[w].pc = "closing"
    /\ window' = [window EXCEPT ![w].pc = "idle", ![w].skip = TRUE]
    /\ disturbed' = IF window[w].exit THEN disturbed ELSE disturbed \cup {"window"}
    /\ UNCHANGED <<other_vars, changes>>

DestroyWindow(w) ==
    /\ window[w].pc = "idle" /\ gpu = <<>>
    /\ window' = [window EXCEPT ![w].pc = "gone", ![w].acquired = {},
                                ![w].sync = [i \in DOMAIN @ |-> FALSE]]
    /\ UNCHANGED <<other_vars, changes, disturbed>>

Main == \/ InitializeLibraries \/ InitializeGraphics \/ InitializeRun \/ StartMainLoop
        \/ BeginDraw \/ Record \/ ClearPresentEvent \/ StartPresent \/ SendMessage \/ Calc
        \/ WaitForGpu \/ PresentWait \/ EndMainLoop \/ JoinPresentThread
        \/ ExitWindowThread \/ JoinWindowThread \/ FinalizeGraphics \/ FinalizeLibraries
PresentAsync == \/ Receive \/ LockWindow \/ SubmitCommandList \/ QueuePresent \/ SyncWait
                \/ SkipWindow \/ AcquireNextImage \/ RecreateSwapchain \/ EndPresent \/ SignalMainLoop
WindowThread(w) == \/ CreateWindow(w) \/ GetMessage(w) \/ Size(w) \/ CloseWindow(w) \/ SkipDraw(w)
                   \/ DestroyWindow(w)
Next == \/ Main \/ PresentAsync \/ Execute \/ SetDrawPauseState
        \/ \E w \in Windows : WindowThread(w)
Spec == Init /\ [][Next]_vars
-----------------------------------------------------------------------------
\* The lists' state in flight.
Pending == present.pc \in {"lock", "submit"}
Submitted == {gpu[i] : i \in DOMAIN gpu}

\* Unless the main thread has overtaken the present thread between the two writes
\* at its end, a list that is to be submitted or that the GPU executes keeps its
\* frame, is drawn on the images that are shown, and is submitted once (Draw,
\* PresentAsync).
FramesAreWhole ==
    "overtaken" \notin disturbed =>
        /\ \A job \in Submitted :
             job.n # 0 /\ m_primary_graphics_command_list_array[job.list].n = job.n
        /\ \A i, j \in DOMAIN gpu : i # j => gpu[i].n # gpu[j].n
        /\ (messages # <<>> /\ messages[1] = 1) \/ Pending =>
             m_primary_graphics_command_list_array[m_current_command_list_index].n = frames
        /\ present.pc = "present" /\ "window" \notin disturbed =>
             present.shown = m_primary_graphics_command_list_array[m_current_command_list_index].target

\* Between two frames no window's lock is left taken and each window has one
\* image, with its sync signalled for the list that is drawn next: the image that
\* a frame draws on is its own (AcquireNextImage, GetAcquireSync).
WindowsAreReady ==
    disturbed = {} /\ present.pc = "wait" /\ messages = <<>> /\ main.pc \notin {"record", "clear", "present", "send"}
        => \A w \in Windows : window[w].pc = "run" =>
             /\ ~window[w].locked
             /\ window[w].acquired = {window[w].image}
             /\ {i \in DOMAIN window[w].sync : window[w].sync[i]} = {NextIndex(m_current_command_list_index)}

\* What a heap holds is gone before the heap is (FinalizeLibraries, FinalizeGraphics).
HeapsOutliveTheirs ==
    /\ alive \cap Libraries # {} => "library heap" \in alive
    /\ alive \cap Graphics # {} => "graphics heap" \in alive
    /\ alive # {} => "root heap" \in alive
    /\ main.pc = "done" => alive = {}

\* The main thread never waits for a present thread that has nothing to do, also
\* when the frame was dropped because of a pause (PresentAsync, WaitForGpu).
AwaitedFrameIsPresented ==
    main.pc = "wait" /\ present.pc = "wait" /\ messages = <<>> => m_present_event

\* And the present thread waits for a list that the GPU can execute: each sync it
\* starts after was signalled by the acquisition before (AcquireNextImage).
SubmittedListCanRun ==
    disturbed = {} => \A job \in Submitted : \A w \in Windows : window[w].sync[job.list]
=============================================================================
