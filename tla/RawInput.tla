------------------------------- MODULE RawInput -------------------------------
(* hid: the thread that receives raw input keeps the state of the keys and the
   motion of the mouse, each under its lock, and BeginFrame turns them into the
   state of a frame.  One axis of the mouse stands for all; the list of devices
   is external.  Nothing of the library starts the thread: the model does. *)
EXTENDS Integers, FiniteSets

CONSTANTS
    Keys,        \* virtual key codes
    Positions,   \* what the mouse reports
    MaxDevices,
    MaxEvents    \* bound: movements, and devices plugged in or out

VARIABLES
    pressed_state, pressed_state_last, released_state, released_state_last,
    frame_keyboard_state,          \* [pressed, held, released]
    last_raw_mouse,                \* [absolute, x]
    interim_delta, frame_delta,    \* delta_x of the two mouse states
    frame_pc,                      \* where BeginFrame is
    devices, thread,               \* thread: [pc, device_count, second_count, buffer, written]
    open, repeated, moved, shown, events

keyboard == <<pressed_state, pressed_state_last, released_state, released_state_last,
              frame_keyboard_state, open, repeated>>
mouse == <<last_raw_mouse, interim_delta, frame_delta, moved, shown>>
vars == <<keyboard, mouse, frame_pc, devices, thread, events>>

Init ==
    /\ pressed_state = {} /\ pressed_state_last = {}
    /\ released_state = {} /\ released_state_last = {}
    /\ frame_keyboard_state = [pressed |-> {}, held |-> {}, released |-> {}]
    /\ last_raw_mouse = [absolute |-> FALSE, x |-> 0]
    /\ interim_delta = 0 /\ frame_delta = 0
    /\ frame_pc = "out"
    /\ devices \in 0 .. MaxDevices
    /\ thread = [pc |-> "count", device_count |-> 0, second_count |-> 0, buffer |-> 0, written |-> 0]
    /\ open = {} /\ repeated = {} /\ moved = 0 /\ shown = 0 /\ events = 0
-----------------------------------------------------------------------------
(* KeyState: four words of 64 bits as a set of <<word, bit>>.  The mask is an int
   that is shifted: keys of the upper half of a word share the bits of the lower
   half, and bit 31 extends its sign over the upper one. *)
VirtualKey == 1 .. 254
AllKeys == (0 .. 3) \X (0 .. 63)

KeyBits(vk) ==
    LET shift == (vk % 64) % 32
    IN  {vk \div 64} \X (IF shift = 31 THEN 31 .. 63 ELSE {shift})

GetKeyState(state, vk) == KeyBits(vk) \subseteq state
SetKeyState(state, vk) == state \cup KeyBits(vk)
ClearKeyState(state, vk) == state \ KeyBits(vk)

\* ~ and the operators on two states, which are those of sets.
Complement(state) == AllKeys \ state

IsKeyPressed(vk) == GetKeyState(frame_keyboard_state.pressed, vk)
IsKeyHeld(vk) == GetKeyState(frame_keyboard_state.held, vk)
IsKeyUp(vk) == GetKeyState(frame_keyboard_state.released, vk)

\* SetKeyboardState: "other" are flags of an extended key, which is ignored.
SetKeyboardState(vk, flags) ==
    /\ thread.pc = "messages"
    /\ pressed_state' = CASE flags = "make" -> SetKeyState(pressed_state, vk)
                          [] flags = "break" -> ClearKeyState(pressed_state, vk)
                          [] OTHER -> pressed_state
    /\ released_state' = IF flags = "break" THEN SetKeyState(released_state, vk) ELSE released_state
    /\ UNCHANGED <<pressed_state_last, released_state_last, frame_keyboard_state, open, repeated,
                   mouse, frame_pc, devices, thread, events>>

\* SetMouseState: what was absolute is the last event's, not this one's.
Delta(x) == IF last_raw_mouse.absolute THEN x - last_raw_mouse.x ELSE x

SetMouseState(absolute, x) ==
    /\ thread.pc = "messages" /\ events < MaxEvents
    /\ events' = events + 1
    /\ interim_delta' = interim_delta + Delta(x)
    /\ last_raw_mouse' = [absolute |-> absolute, x |-> x]
    /\ moved' = moved + Delta(x)
    /\ UNCHANGED <<keyboard, frame_delta, shown, frame_pc, devices, thread>>
-----------------------------------------------------------------------------
\* BeginFrame, the mouse: what was gathered is the frame's, and starts anew.
TakeDelta_Keep(delta) == delta
TakeDelta(delta) == 0

BeginFrame ==
    /\ frame_pc = "out"
    /\ frame_delta' = interim_delta
    /\ interim_delta' = TakeDelta(interim_delta)
    /\ shown' = shown + interim_delta
    /\ frame_pc' = "keyboard"
    /\ UNCHANGED <<keyboard, last_raw_mouse, moved, devices, thread, events>>

\* And the keyboard, under the other lock.
LastPressed_Gather(state, last) == state \cap last
LastPressed(state, last) == state

BeginKeyboardFrame ==
    LET pressed == pressed_state \cap Complement(pressed_state_last)
    IN /\ frame_pc = "keyboard"
       /\ frame_keyboard_state' =
             [released |-> released_state,
              held |-> pressed_state \cup (pressed_state_last \cap Complement(released_state_last)),
              pressed |-> pressed]
       /\ pressed_state_last' = LastPressed(pressed_state, pressed_state_last)
       /\ released_state_last' = released_state
       /\ released_state' = {}
       /\ open' = (open \ released_state) \cup pressed
       /\ repeated' = repeated \cup (pressed \cap (open \ released_state))
       /\ frame_pc' = "out"
       /\ UNCHANGED <<pressed_state, mouse, devices, thread, events>>
-----------------------------------------------------------------------------
\* ThreadMain: the number of devices, then the list, as often as they differ.
QueryDeviceCount ==
    /\ thread.pc = "count"
    /\ thread' = [thread EXCEPT !.pc = IF devices = 0 THEN "find" ELSE "list",
                                !.device_count = devices, !.buffer = devices]
    /\ UNCHANGED <<keyboard, mouse, frame_pc, devices, events>>

\* The buffer is made anew for the count of a call that found it too small; a
\* device less and the loop goes on for ever.
Buffer_Same(buffer, count) == buffer
Buffer(buffer, count) == count

GetRawInputDeviceList ==
    /\ thread.pc = "list"
    /\ thread' = IF devices > thread.second_count
                 THEN [thread EXCEPT !.second_count = devices, !.buffer = Buffer(@, devices),
                                     !.pc = IF thread.device_count = devices THEN "find" ELSE "list"]
                 ELSE [thread EXCEPT !.device_count = devices, !.written = devices,
                                     !.pc = IF thread.second_count = devices THEN "find" ELSE "list"]
    /\ UNCHANGED <<keyboard, mouse, frame_pc, devices, events>>

RegisterRawInputDevices ==
    /\ thread.pc = "find"
    /\ thread' = [thread EXCEPT !.pc = "messages"]
    /\ UNCHANGED <<keyboard, mouse, frame_pc, devices, events>>

\* A device is plugged in or out (external).
DeviceChange ==
    /\ events < MaxEvents /\ thread.pc # "messages"
    /\ events' = events + 1
    /\ devices' \in 0 .. MaxDevices
    /\ UNCHANGED <<keyboard, mouse, frame_pc, thread>>

Next ==
    \/ \E vk \in Keys \cap VirtualKey, flags \in {"make", "break", "other"} : SetKeyboardState(vk, flags)
    \/ \E absolute \in BOOLEAN, x \in Positions : SetMouseState(absolute, x)
    \/ BeginFrame \/ BeginKeyboardFrame
    \/ QueryDeviceCount \/ GetRawInputDeviceList \/ RegisterRawInputDevices \/ DeviceChange
Spec == Init /\ [][Next]_vars
-----------------------------------------------------------------------------
\* What a frame reported as pressed is still down, or its release is about to be
\* reported; and it is not reported again before (BeginFrame, SetKeyboardState).
KeysAreNotStuck == open \subseteq pressed_state \cup released_state
PressesAlternate == repeated = {}

\* Every movement is in one frame (BeginFrame against SetMouseState).
MotionIsShownOnce == moved = shown + interim_delta

\* The list of devices fits its buffer (ThreadMain).
DeviceListFits == thread.written <= thread.buffer
=============================================================================
