------------------------------ MODULE Keyboard ------------------------------
(***************************************************************************)
(* The press/release state of the one OS keyboard and mouse that all host *)
(* threads drive through key_action and mouse_button (lib.rs 201-218).    *)
(* Each thread reaches the OS through its own ENIGO cell; what a call      *)
(* changes is shared.  The host keeps its own record of what it holds     *)
(* down: an input whose last call returned Success as a Press.  The      *)
(* question is whether that record, built from return codes alone, is    *)
(* what the OS has down.                                                   *)
(*                                                                         *)
(* The OS applies a call's transitions (DirectionCast) in order.  A call  *)
(* that fails applies none of them, or, with PartialClick, the press of a *)
(* Click whose release is refused.  The ENIGO cells are not state here:   *)
(* with_enigo_mut makes the OS call exactly when the subsystem is        *)
(* reachable (a None cell is re-opened then, lib.rs 148-152), so what a  *)
(* cell held never changes an outcome; Ffi models the cells.  The display *)
(* session is not replaced, and enigo's bookkeeping of held keys is not  *)
(* modelled.                                                               *)
(***************************************************************************)
EXTENDS CTypes, Sequences

CONSTANTS Threads,       \* host threads calling the library
          OS,            \* the build target
          Keys,          \* CKey arguments of key_action
          Buttons,       \* CButton arguments of mouse_button
          PartialClick   \* whether the OS can refuse a click's release alone

ASSUME OS \in Platforms /\ Keys \subseteq CKey /\ Buttons \subseteq CButton
ASSUME PartialClick \in BOOLEAN

VARIABLES inputUp,   \* the OS input-injection subsystem is reachable
          down,      \* the OS keys and buttons that are down
          hostDown,  \* history: inputs the host has pressed, by return code
          ret        \* the most recent call and its result

vars == <<inputUp, down, hostDown, ret>>

\* An argument as the host names it: the function and the C enum value.
KeyInput(k)    == [fn |-> "key_action", arg |-> k]
ButtonInput(b) == [fn |-> "mouse_button", arg |-> b]
Inputs == {KeyInput(k) : k \in Keys} \cup {ButtonInput(b) : b \in Buttons}

\* The enigo Key or Button a call acts on: key.cast() (lib.rs 211) or
\* button.cast() (lib.rs 203).
Target(x) ==
    IF x.fn = "key_action" THEN KeyCast(OS, x.arg)
    ELSE [kind |-> "button", name |-> ButtonCast(OS, x.arg)]
Targets == {Target(x) : x \in Inputs} \ {Unsupported}

\* The outcomes of an OS call: it can only succeed when it is made at all.
OsCallOutcomes(made) == IF made THEN BOOLEAN ELSE {FALSE}

\* The transitions the OS applies of ts: all of them on success; on a
\* failed call that was made, none or, with PartialClick, a proper
\* non-empty prefix; none when no call was made.
Applied(ts, made, ok) ==
    IF ok THEN {ts}
    ELSE {<<>>} \cup (IF PartialClick /\ made
                       THEN {SubSeq(ts, 1, n) : n \in 1..Len(ts) - 1} ELSE {})

\* The OS state of one key or button after transitions ts.
Apply(set, obj, ts) ==
    IF ts = <<>> THEN set
    ELSE IF ts[Len(ts)] = "down" THEN set \cup {obj} ELSE set \ {obj}

\* What the host takes a successful call to leave behind (spec 3): a Press
\* leaves the input down; a Release, or a Click as one unit, leaves it up.
HostMeaning(d) == IF d = "Press" THEN "down" ELSE "up"

\* `match with_enigo_mut(|en| en.key(..)/en.button(.., direction.cast())) {
\*   Ok => Success, Err => PlatformError }` of thread t on input x.
\* The call is made when the cell holds, or can open, a handle and the
\* subsystem is reachable: with_enigo_mut (lib.rs 146-164).
DeviceCall(t, x, d) ==
    LET ts == DirectionCast(d) IN
    \E ok \in OsCallOutcomes(inputUp) :
    \E applied \in Applied(ts, inputUp, ok) :
        /\ down' = Apply(down, Target(x), applied)
        /\ hostDown' = IF ok THEN Apply(hostDown, x, <<HostMeaning(d)>>) ELSE hostDown
        /\ ret' = [actor |-> t, call |-> x, dir |-> d,
                   res |-> IF ok THEN "Success" ELSE "PlatformError"]
        /\ UNCHANGED inputUp

\* An early `Err(_) => InvalidInput`: nothing else happens.
Reject(t, x, d) ==
    /\ ret' = [actor |-> t, call |-> x, dir |-> d, res |-> "InvalidInput"]
    /\ UNCHANGED <<inputUp, down, hostDown>>

\* Mutant: key_action without the Err arm of key.cast().
key_action_unchecked(t) ==
    \E k \in Keys, d \in CDirection : DeviceCall(t, KeyInput(k), d)

\* key_action (lib.rs 209-218): an unsupported key is InvalidInput.
key_action(t) ==
    \E k \in Keys, d \in CDirection :
        \/ KeyCast(OS, k) # Unsupported /\ DeviceCall(t, KeyInput(k), d)
        \/ KeyCast(OS, k) = Unsupported /\ Reject(t, KeyInput(k), d)

\* mouse_button (lib.rs 201-207): every button casts.
mouse_button(t) ==
    \E b \in Buttons, d \in CDirection : DeviceCall(t, ButtonInput(b), d)

\* The OS grants or revokes input injection.
ToggleInput ==
    /\ inputUp' = ~inputUp
    /\ ret' = [actor |-> "os", call |-> "input_availability", dir |-> "none",
               res |-> "void"]
    /\ UNCHANGED <<down, hostDown>>

Init ==
    /\ inputUp \in BOOLEAN
    /\ down = {}
    /\ hostDown = {}
    /\ ret = [actor |-> "os", call |-> "start", dir |-> "none", res |-> "void"]

Next ==
    \/ \E t \in Threads : key_action(t) \/ mouse_button(t)
    \/ ToggleInput

Spec == Init /\ [][Next]_vars

-----------------------------------------------------------------------------
TypeOK ==
    /\ inputUp \in BOOLEAN
    /\ down \subseteq Targets
    /\ hostDown \subseteq Inputs
    /\ ret.res \in {"Success", "PlatformError", "InvalidInput", "void"}

(***************************************************************************)
(* The host's view is the OS state (spec 3: a Click is a press and a      *)
(* release as one unit; 4.1: casts are a translation).  For every key and *)
(* button the host passes, it is down on the OS exactly when the last    *)
(* call on it that returned Success was a Press, whichever threads made   *)
(* the calls and whatever failed in between.  It is about the Success /   *)
(* PlatformError mapping of key_action and mouse_button, CDirection::cast *)
(* and the key and button casts sharing no OS target.                     *)
(***************************************************************************)
HostViewMatchesOS ==
    \A x \in Inputs : (x \in hostDown) <=> (Target(x) \in down)
=============================================================================
