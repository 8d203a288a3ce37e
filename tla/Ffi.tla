-------------------------------- MODULE Ffi --------------------------------
(***************************************************************************)
(* The exported C interface of src/server/rs/src/lib.rs, as seen by a     *)
(* multi-threaded host.  Every exported function is one atomic step of    *)
(* the calling thread: argument checks and translation (module CTypes),   *)
(* the thread-local device cell (ENIGO or CLIPBOARD with its lazy         *)
(* initialiser and with_*_mut), the device call, and the error code.      *)
(*                                                                         *)
(* The operating system is the environment: its input-injection and      *)
(* clipboard subsystems come and go (permission granted or revoked,       *)
(* display unreachable), a display session can be replaced (a handle      *)
(* opened in an older session is dead), and other processes write the     *)
(* clipboard.  Heap buffers returned by clipboard_get are tracked until   *)
(* free_string releases them.                                              *)
(***************************************************************************)
EXTENDS CTypes, FiniteSets

CONSTANTS Threads,            \* host threads calling the library
          Ptrs,               \* addresses the allocator can hand out
          NULL,               \* the null pointer
          OS,                 \* the build target
          MaxEpoch,           \* bound on display-session replacements
          UnicodeInputs,      \* u32 arguments of key_unicode_action
          AsciiInputs,        \* u32 arguments of key_ascii_action
          KeyInputs,          \* CKey arguments of key_action
          CCharInputs         \* c_char arguments of key_action_with_code

ASSUME OS \in Platforms /\ KeyInputs \subseteq CKey
ASSUME MaxEpoch \in Nat

(***************************************************************************)
(* Texts: valid UTF-8 C strings; InvalidUtf8 a C string that is not UTF-8. *)
(* The OS clipboard may also hold text with an interior NUL (written by   *)
(* another process) or no text at all.                                     *)
(***************************************************************************)
Texts       == {"ascii", "nonascii"}
InvalidUtf8 == "invalid_utf8"
CStrInputs  == Texts \cup {InvalidUtf8, NULL}
NulText     == "nul_text"
NoText      == "no_text"
Dead        == "dead"
NoOwn       == "no_own"
NoArg       == "no_arg"

VARIABLES enigo,     \* per thread: the ENIGO thread-local cell
          clip,      \* per thread: the CLIPBOARD thread-local cell
          inputUp,   \* the OS input-injection subsystem is reachable
          clipUp,    \* the OS clipboard subsystem is reachable
          epoch,     \* the current display session
          osClip,    \* the OS clipboard content
          heap,      \* per address: the text of a live CString, or Dead
          owned,     \* host: buffers it holds -> text they were returned with
          released,  \* host: addresses it has passed to free_string
          fault,     \* free_string freed memory that was not live
          own,       \* history: the text a thread set, until anyone writes
          logger,    \* INIT_LOGGER has run: env_logger is set up process-wide
          ret        \* the most recent call: thread, function, argument, result

env     == <<inputUp, clipUp, epoch, osClip>>
buffers == <<heap, owned, released, fault>>
vars    == <<enigo, clip, env, buffers, own, logger, ret>>

(***************************************************************************)
(* A thread-local cell: not yet initialised on this thread, Option::None, *)
(* or Some(handle) opened in display session ep.                          *)
(***************************************************************************)
Unborn      == [st |-> "unborn", ep |-> 0]
NoHandle    == [st |-> "none", ep |-> 0]
Handle(e)   == [st |-> "some", ep |-> e]
Cells       == {Unborn, NoHandle} \cup {Handle(e) : e \in 0..MaxEpoch}

\* Enigo::new / Clipboard::new: Ok iff the subsystem is reachable.
Open(up) == IF up THEN Handle(epoch) ELSE NoHandle

\* The thread_local! initialisers (lib.rs 117-140) open the device on the
\* thread's first use of the cell and store None on failure.
FirstUse(cell, up) == IF cell.st = "unborn" THEN Open(up) ELSE cell

\* Mutant: with_*_mut without the re-open of a None cell.
FirstUseOnly(cell, up) == FirstUse(cell, up)

\* with_enigo_mut / with_clipboard_mut (lib.rs 146-158, 172-184): a None
\* cell is opened again on every call; a Some cell is kept as it is.
LazyInit(cell, up) ==
    LET c == FirstUse(cell, up) IN IF c.st = "none" THEN Open(up) ELSE c

(***************************************************************************)
(* The number of Enigo::new / Clipboard::new calls one access makes: the  *)
(* thread_local initialiser on the thread's first use (lib.rs 118-127),   *)
(* then the lazy re-open in with_*_mut when the cell holds None           *)
(* (lib.rs 148-149), within the same call.                                 *)
(***************************************************************************)
OpenAttempts(cell, up) ==
    (IF cell.st = "unborn" THEN 1 ELSE 0)
    + (IF FirstUse(cell, up).st = "none" THEN 1 ELSE 0)

\* The closure runs on a handle of the current session of a reachable
\* subsystem; the OS call may still fail on its own.
Usable(cell, up) == cell.st = "some" /\ cell.ep = epoch /\ up

\* The outcomes of an OS call: it can only succeed when it is made at all.
OsCallOutcomes(made) == IF made THEN BOOLEAN ELSE {FALSE}

\* The step's call and its result; n is the number of device opens it made
\* and logged whether it emitted an error! record.
DeviceReturn(t, op, arg, res, n, logged) ==
    ret' = [actor |-> t, op |-> op, arg |-> arg, res |-> res, opens |-> n,
            logged |-> logged]
Return(t, op, arg, res) == DeviceReturn(t, op, arg, res, 0, FALSE)

\* Mutant: the initialisers no longer call init_logger.
InitLoggerSkipped(cell) == UNCHANGED logger

\* The thread_local initialisers first call init_logger (lib.rs 119, 130),
\* whose Once sets env_logger up on the first call in the process
\* (lib.rs 14-24); later calls, from any thread, do nothing.
InitLogger(cell) == logger' = (logger \/ cell.st = "unborn")

\* A device open failed in this access: the initialiser's error! (lib.rs
\* 123, 134) or the lazy re-open's error! (lib.rs 154, 180) was emitted.
OpenFailed(cell, up) == OpenAttempts(cell, up) > 0 /\ ~up

\* Mutant: a failed call drops the handle so that the next call re-opens.
WithEnigoDropOnError(t, op, arg, reaches, code) ==
    LET cell == LazyInit(enigo[t], inputUp) IN
    \E osOk \in OsCallOutcomes(Usable(cell, inputUp) /\ reaches) :
        /\ enigo' = [enigo EXCEPT ![t] = IF osOk THEN cell ELSE NoHandle]
        /\ DeviceReturn(t, op, arg, IF osOk THEN "Success" ELSE code,
                        OpenAttempts(enigo[t], inputUp),
                        OpenFailed(enigo[t], inputUp) \/ (op = "enter_text" /\ ~osOk))
        /\ InitLogger(enigo[t])
        /\ UNCHANGED <<clip, env, buffers, own>>

(***************************************************************************)
(* `match with_enigo_mut(f) { Ok => Success, Err => code }` of thread t.  *)
(* `reaches` says whether f gets as far as the enigo call.                 *)
(***************************************************************************)
WithEnigo(t, op, arg, reaches, code) ==
    LET cell == LazyInit(enigo[t], inputUp) IN
    /\ enigo' = [enigo EXCEPT ![t] = cell]
    /\ \E osOk \in OsCallOutcomes(Usable(cell, inputUp) /\ reaches) :
          DeviceReturn(t, op, arg, IF osOk THEN "Success" ELSE code,
                       OpenAttempts(enigo[t], inputUp),
                       \* enter_text logs its PlatformError (lib.rs 257)
                       OpenFailed(enigo[t], inputUp) \/ (op = "enter_text" /\ ~osOk))
    /\ InitLogger(enigo[t])
    /\ UNCHANGED <<clip, env, buffers, own>>

\* An early `return YAError::InvalidInput`: nothing else happens.
Reject(t, op, arg) ==
    /\ Return(t, op, arg, "InvalidInput")
    /\ UNCHANGED <<logger, enigo, clip, env, buffers, own>>

\* CStr::from_ptr(..).to_str() succeeds on a non-null valid UTF-8 string.
IsUtf8CStr(s) == s \in Texts

(***************************************************************************)
(* Exported input functions (lib.rs 41-262).                               *)
(***************************************************************************)
UnicodeCall(t, op, ch) ==
    \/ IsCharScalar(ch) /\ WithEnigo(t, op, ch, TRUE, "PlatformError")
    \/ ~IsCharScalar(ch) /\ Reject(t, op, ch)

key_unicode_action(t) ==
    \E ch \in UnicodeInputs : UnicodeCall(t, "key_unicode_action", ch)

key_ascii_action(t) ==
    \E ch \in AsciiInputs :
        \/ ~IsPrintableAscii(ch) /\ Reject(t, "key_ascii_action", ch)
        \/ /\ IsPrintableAscii(ch) /\ OS = Windows
           /\ WithEnigo(t, "key_ascii_action", ch, AsciiWindowsKey(ch) # NoKey,
                        "InvalidInput")
        \/ IsPrintableAscii(ch) /\ OS # Windows /\ UnicodeCall(t, "key_ascii_action", ch)

move_mouse(t) == WithEnigo(t, "move_mouse", NoArg, TRUE, "PlatformError")

mouse_button(t) == WithEnigo(t, "mouse_button", NoArg, TRUE, "PlatformError")

\* Mutant: the key is translated inside the closure, after the device.
key_action_device_first(t) ==
    \E k \in KeyInputs :
        WithEnigo(t, "key_action", k, KeyCast(OS, k) # Unsupported, "InvalidInput")

key_action(t) ==
    \E k \in KeyInputs :
        \/ KeyCast(OS, k) # Unsupported /\ WithEnigo(t, "key_action", k, TRUE, "PlatformError")
        \/ KeyCast(OS, k) = Unsupported /\ Reject(t, "key_action", k)

key_action_with_platform_code(t) ==
    WithEnigo(t, "key_action_with_platform_code", NoArg, TRUE, "PlatformError")

key_action_with_code(t) ==
    \E c \in CCharInputs :
        \/ ~IsAsciiCChar(c) /\ Reject(t, "key_action_with_code", c)
        \/ IsAsciiCChar(c) /\ WithEnigo(t, "key_action_with_code", c, TRUE, "PlatformError")

enter_text(t) ==
    \E s \in CStrInputs :
        \/ s = NULL /\ Reject(t, "enter_text", s)
        \/ s # NULL /\ ~IsUtf8CStr(s) /\ Reject(t, "enter_text", s)
        \/ IsUtf8CStr(s) /\ WithEnigo(t, "enter_text", s, TRUE, "PlatformError")

(***************************************************************************)
(* Clipboard functions (lib.rs 264-293).                                   *)
(***************************************************************************)
\* The cell with_clipboard_mut (lib.rs 168-191) leaves for thread t.
ClipboardCell(t) == LazyInit(clip[t], clipUp)

\* Mutant: an allocator handing out a buffer still in use (a shared buffer).
AnyPtrs == Ptrs

\* addresses the allocator may return: those not holding a live CString
FreePtrs == {p \in Ptrs : heap[p] = Dead}

\* Mutant: the text copied without CString::new's NUL check
\* (CString::from_vec_unchecked).
clipboard_get_unchecked(t) ==
    LET cell == ClipboardCell(t) IN
    \E osOk \in OsCallOutcomes(Usable(cell, clipUp) /\ osClip # NoText) :
        /\ clip' = [clip EXCEPT ![t] = cell]
        /\ \/ ~osOk /\ Return(t, "clipboard_get", NoArg, NULL) /\ UNCHANGED buffers
           \/ /\ osOk
              /\ \E p \in FreePtrs :
                    /\ heap' = [heap EXCEPT ![p] = osClip]
                    /\ owned' = owned @@ (p :> osClip)
                    /\ Return(t, "clipboard_get", NoArg, p)
              /\ UNCHANGED <<released, fault>>
        /\ InitLogger(clip[t])
        /\ UNCHANGED <<enigo, env, own>>

\* cb.get_text(), then `CString::new(text)` and `into_raw()`: a fresh heap
\* copy of the text, or null when get_text fails or the text has a NUL.
clipboard_get(t) ==
    LET cell == ClipboardCell(t)
        Answer(res) == DeviceReturn(t, "clipboard_get", NoArg, res,
                                    OpenAttempts(clip[t], clipUp),
                                    OpenFailed(clip[t], clipUp))
    IN
    \E osOk \in OsCallOutcomes(Usable(cell, clipUp) /\ osClip # NoText) :
        /\ clip' = [clip EXCEPT ![t] = cell]
        /\ \/ ~osOk /\ Answer(NULL) /\ UNCHANGED buffers
           \/ osOk /\ osClip = NulText /\ Answer(NULL) /\ UNCHANGED buffers
           \/ /\ osOk /\ osClip \in Texts
              /\ \E p \in FreePtrs :
                    /\ heap' = [heap EXCEPT ![p] = osClip]
                    /\ owned' = owned @@ (p :> osClip)
                    /\ Answer(p)
              /\ UNCHANGED <<released, fault>>
        /\ InitLogger(clip[t])
        /\ UNCHANGED <<enigo, env, own>>

\* Mutant: `let _ = cb.set_text(..)`, the error swallowed.
ClipboardSetCodeSwallowed(osOk) == "Success"

\* `match with_clipboard_mut(..) { Ok => Success, Err => ClipboardError }`
ClipboardSetCode(osOk) == IF osOk THEN "Success" ELSE "ClipboardError"

\* own records the text of a call that returned Success: the history the
\* round-trip property is stated over.
clipboard_set(t) ==
    \E s \in CStrInputs :
        \/ s = NULL /\ Reject(t, "clipboard_set", s)
        \/ s # NULL /\ ~IsUtf8CStr(s) /\ Reject(t, "clipboard_set", s)
        \/ /\ IsUtf8CStr(s)
           /\ LET cell == ClipboardCell(t)
                  \* the OS clipboard takes c_str.to_owned()
                  Write(osOk) == IF osOk THEN s ELSE osClip
              IN
              \E osOk \in OsCallOutcomes(Usable(cell, clipUp)) :
                /\ clip' = [clip EXCEPT ![t] = cell]
                /\ osClip' = Write(osOk)
                /\ own' = IF ClipboardSetCode(osOk) = "Success"
                          THEN [u \in Threads |-> IF u = t THEN s ELSE NoOwn]
                          ELSE own
                /\ DeviceReturn(t, "clipboard_set", s, ClipboardSetCode(osOk),
                                OpenAttempts(clip[t], clipUp),
                                OpenFailed(clip[t], clipUp))
                /\ InitLogger(clip[t])
                /\ UNCHANGED <<enigo, inputUp, clipUp, epoch, buffers>>

(***************************************************************************)
(* free_string (lib.rs 295-302): a null pointer is ignored; otherwise      *)
(* CString::from_raw takes the buffer back and drops it.  Dropping memory  *)
(* that is not a live CString is undefined behaviour: `fault` records it, *)
(* and the model goes on as if the allocator had tolerated it.            *)
(***************************************************************************)
\* Mutant: the pointer borrowed as a CStr instead of taken back by from_raw.
FreeStringBorrowOnly(p) == UNCHANGED <<heap, fault>>

FreeStringCode(p) ==
    IF p = NULL THEN UNCHANGED <<heap, fault>>
    ELSE /\ fault' = (fault \/ heap[p] = Dead)
         /\ heap' = [heap EXCEPT ![p] = Dead]

\* The host releases a buffer it holds, or passes null.
free_string(t) ==
    /\ \/ /\ FreeStringCode(NULL)
          /\ Return(t, "free_string", NULL, "void")
          /\ UNCHANGED <<owned, released>>
       \/ \E p \in DOMAIN owned :
             /\ FreeStringCode(p)
             /\ owned' = [q \in DOMAIN owned \ {p} |-> owned[q]]
             /\ released' = released \cup {p}
             /\ Return(t, "free_string", p, "void")
    /\ UNCHANGED <<logger, enigo, clip, env, own>>

\* Host fault: it passes an address it has already released once more.
free_string_again(t) ==
    /\ \E p \in released :
          /\ FreeStringCode(p)
          /\ Return(t, "free_string", p, "void")
          /\ UNCHANGED <<owned, released>>
    /\ UNCHANGED <<logger, enigo, clip, env, own>>

(***************************************************************************)
(* Thread teardown: the thread-local destructors drop both cells; a later *)
(* thread with this id starts from uninitialised cells.                   *)
(***************************************************************************)
ThreadExit(t) ==
    /\ enigo' = [enigo EXCEPT ![t] = Unborn]
    /\ clip' = [clip EXCEPT ![t] = Unborn]
    /\ own' = [own EXCEPT ![t] = NoOwn]
    /\ Return(t, "thread_exit", NoArg, "void")
    /\ UNCHANGED <<logger, env, buffers>>

(***************************************************************************)
(* The operating system.                                                   *)
(***************************************************************************)
EnvStep(op) == Return("os", op, NoArg, "void")

ToggleInput ==
    /\ inputUp' = ~inputUp
    /\ EnvStep("input_availability")
    /\ UNCHANGED <<logger, enigo, clip, clipUp, epoch, osClip, buffers, own>>

ToggleClipboard ==
    /\ clipUp' = ~clipUp
    /\ EnvStep("clipboard_availability")
    /\ UNCHANGED <<logger, enigo, clip, inputUp, epoch, osClip, buffers, own>>

\* OS fault: the display session is replaced (an X11 connection is lost);
\* handles opened before are dead.
SessionRestart ==
    /\ epoch < MaxEpoch
    /\ epoch' = epoch + 1
    /\ EnvStep("session_restart")
    /\ UNCHANGED <<logger, enigo, clip, inputUp, clipUp, osClip, buffers, own>>

\* Another process writes the clipboard.
ExternalCopy ==
    /\ \E c \in Texts \cup {NulText, NoText} : osClip' = c
    /\ own' = [u \in Threads |-> NoOwn]
    /\ EnvStep("external_copy")
    /\ UNCHANGED <<logger, enigo, clip, inputUp, clipUp, epoch, buffers>>

Init ==
    /\ enigo = [t \in Threads |-> Unborn]
    /\ clip = [t \in Threads |-> Unborn]
    /\ inputUp \in BOOLEAN
    /\ clipUp \in BOOLEAN
    /\ epoch = 0
    /\ osClip \in Texts \cup {NulText, NoText}
    /\ heap = [p \in Ptrs |-> Dead]
    /\ owned = <<>>
    /\ released = {}
    /\ fault = FALSE
    /\ own = [t \in Threads |-> NoOwn]
    /\ ret = [actor |-> "os", op |-> "start", arg |-> NoArg, res |-> "void", opens |-> 0,
               logged |-> FALSE]
    /\ logger = FALSE

ThreadStep(t) ==
    \/ key_unicode_action(t) \/ key_ascii_action(t) \/ move_mouse(t)
    \/ mouse_button(t) \/ key_action(t) \/ key_action_with_platform_code(t)
    \/ key_action_with_code(t) \/ enter_text(t) \/ clipboard_get(t)
    \/ clipboard_set(t) \/ free_string(t) \/ ThreadExit(t)

Next ==
    \/ \E t \in Threads : ThreadStep(t)
    \/ ToggleInput \/ ToggleClipboard \/ ExternalCopy

Spec == Init /\ [][Next]_vars

\* With faults: display sessions replaced, and a host that frees twice.
FaultNext == Next \/ SessionRestart \/ \E t \in Threads : free_string_again(t)

FaultSpec == Init /\ [][FaultNext]_vars

-----------------------------------------------------------------------------
Results == {"Success", "PlatformError", "ClipboardError", "InvalidInput", "void"}

TypeOK ==
    /\ enigo \in [Threads -> Cells]
    /\ clip \in [Threads -> Cells]
    /\ inputUp \in BOOLEAN /\ clipUp \in BOOLEAN
    /\ epoch \in 0..MaxEpoch
    /\ osClip \in Texts \cup {NulText, NoText}
    /\ heap \in [Ptrs -> Texts \cup {Dead}]
    /\ DOMAIN owned \subseteq Ptrs /\ \A p \in DOMAIN owned : owned[p] \in Texts
    /\ released \subseteq Ptrs
    /\ fault \in BOOLEAN
    /\ own \in [Threads -> Texts \cup {NoOwn}]
    /\ ret.res \in Results \cup Ptrs \cup {NULL}
    /\ ret.opens \in 0..2 /\ ret.logged \in BOOLEAN
    /\ logger \in BOOLEAN

InputOps == {"key_unicode_action", "key_ascii_action", "move_mouse", "mouse_button",
             "key_action", "key_action_with_platform_code", "key_action_with_code",
             "enter_text"}

(***************************************************************************)
(* What the spec (4.3, 6) calls an invalid argument of each function,     *)
(* stated from the spec's words rather than from the code's checks.       *)
(***************************************************************************)
SpecInvalid(op, arg) ==
    CASE op = "key_unicode_action"   -> ~(arg \in 0..55295 \/ arg \in 57344..1114111)
      [] op = "key_ascii_action"     -> ~(arg \in 32..126)
      [] op = "key_action"           -> KeyCast(OS, arg) = Unsupported
      [] op = "key_action_with_code" -> ~(arg \in 0..127)
      [] op \in {"enter_text", "clipboard_set"} -> arg \in {NULL, InvalidUtf8}
      [] OTHER -> FALSE

(***************************************************************************)
(* Error-code contract (spec 4.3, 7): a function returns InvalidInput     *)
(* exactly when its argument is invalid; PlatformError only comes from    *)
(* the input functions and ClipboardError only from clipboard_set.  It    *)
(* concerns the order of the argument checks, the translation and the     *)
(* device access in every exported function of lib.rs.                    *)
(***************************************************************************)
ErrorContract ==
    ret.op \in InputOps \cup {"clipboard_set"} =>
        /\ (ret.res = "InvalidInput") = SpecInvalid(ret.op, ret.arg)
        /\ ret.res = "PlatformError" => ret.op \in InputOps
        /\ ret.res = "ClipboardError" => ret.op = "clipboard_set"

(***************************************************************************)
(* A call answered InvalidInput touched no device (spec 8): neither its   *)
(* ENIGO nor its CLIPBOARD cell was initialised or re-opened by it.  It   *)
(* is about the translation in key_action and the checks of lib.rs coming *)
(* before with_enigo_mut / with_clipboard_mut.                            *)
(***************************************************************************)
InvalidInputTouchesNoDevice ==
    [][ret'.res = "InvalidInput" => UNCHANGED <<enigo, clip>>]_vars

(***************************************************************************)
(* No poisoning (spec 4.2, 8): a device call that fails while the OS      *)
(* subsystem is reachable leaves a handle of the current display session  *)
(* in the caller's cell, so the failure is the OS call's own and the next *)
(* call can succeed.  It is about the lazy re-open in with_enigo_mut and  *)
(* with_clipboard_mut and the cell never being cleared.                   *)
(***************************************************************************)
FailedInput == ret'.op \in InputOps /\ ret'.res = "PlatformError"
FailedClipboard ==
    \/ ret'.op = "clipboard_set" /\ ret'.res = "ClipboardError"
    \/ ret'.op = "clipboard_get" /\ ret'.res = NULL

NoPoisoning ==
    [][/\ FailedInput /\ inputUp => enigo'[ret'.actor] = Handle(epoch)
       /\ FailedClipboard /\ clipUp => clip'[ret'.actor] = Handle(epoch)]_vars

(***************************************************************************)
(* Clipboard round trip (spec 8): when a thread reads the clipboard after *)
(* its own successful clipboard_set, and nobody (another thread or        *)
(* another process) has written since, a non-null result holds exactly    *)
(* the text it set.  It is about clipboard_set / clipboard_get and the    *)
(* string conversions on both sides.                                      *)
(***************************************************************************)
ClipboardRoundTrip ==
    (ret.op = "clipboard_get" /\ ret.res \in Ptrs /\ own[ret.actor] \in Texts)
        => heap[ret.res] = own[ret.actor]

(***************************************************************************)
(* Buffer ownership (spec 4.3): every buffer the host holds from          *)
(* clipboard_get is still allocated and still holds the text it was       *)
(* returned with, whatever other threads get or free meanwhile, and       *)
(* free_string never frees memory that is not a live buffer (releasing    *)
(* twice is a no-op).  It is about clipboard_get's CString::into_raw and  *)
(* free_string's CString::from_raw.                                       *)
(***************************************************************************)
BufferOwnership ==
    /\ ~fault
    /\ \A p \in DOMAIN owned : heap[p] = owned[p]

(***************************************************************************)
(* No leaked buffer (spec 4.3): every live CString on the heap is one the *)
(* host holds, so a host that releases each buffer it got once leaks      *)
(* nothing, whatever threads interleave.  It is about clipboard_get       *)
(* allocating only on its into_raw path and free_string's from_raw        *)
(* dropping the buffer it is given.                                        *)
(***************************************************************************)
NoLeakedBuffer == \A p \in Ptrs : heap[p] # Dead => p \in DOMAIN owned

(***************************************************************************)
(* One open per access (spec 4.2): a call that reaches the device session *)
(* manager makes at most one device-open attempt, and so at most one OS   *)
(* permission prompt.  It is about the thread_local initialisers of ENIGO *)
(* and CLIPBOARD followed by the re-open of a None cell in with_*_mut.    *)
(***************************************************************************)
OpenOncePerCall == ret.opens <= 1

(***************************************************************************)
(* No lost diagnostics (spec 4.4, 7): every error! record the library     *)
(* emits (a failed device open, enter_text's PlatformError) is emitted    *)
(* after the process-wide logger has been set up, whichever thread, cell  *)
(* and call comes first.  It is about init_logger being called only from  *)
(* the thread_local initialisers, and its Once, before any error! path.   *)
(***************************************************************************)
LogAfterInit == [][ret'.logged => logger']_vars

(***************************************************************************)
(* Fairness.  The library has no threads, timers or retries of its own:  *)
(* every step is a host call or an OS change.  FairSpec assumes only that *)
(* a host thread keeps using both devices (move_mouse and clipboard_get  *)
(* stand for its input and clipboard calls; they take no argument, so    *)
(* each such call reaches the device).  Nothing is assumed about the     *)
(* outcome of an OS call: it may fail every time.                         *)
(***************************************************************************)
FairSpec ==
    /\ Spec
    /\ \A t \in Threads : WF_vars(move_mouse(t)) /\ WF_vars(clipboard_get(t))

(***************************************************************************)
(* Eventual handle (spec 4.2, and the permission scenario of 8): once an  *)
(* OS subsystem stays reachable, a thread that keeps calling eventually   *)
(* never again holds None in its cell, whatever failed before (a refused  *)
(* first open, a revoked permission, thread teardown) and however often  *)
(* its OS calls fail.  It is about the lazy re-open of a None cell in     *)
(* with_enigo_mut / with_clipboard_mut and a Some cell never being        *)
(* cleared.                                                                *)
(***************************************************************************)
EventualHandle ==
    \A t \in Threads :
        /\ <>[]inputUp => <>[](enigo[t].st # "none")
        /\ <>[]clipUp => <>[](clip[t].st # "none")

(***************************************************************************)
(* Refinement: the cells implement the two-state session machine of       *)
(* module DeviceSession (Some is Ready, anything else Uninitialized).     *)
(***************************************************************************)
SessionOf(cell) == IF cell.st = "some" THEN "Ready" ELSE "Uninitialized"

DS == INSTANCE DeviceSession
        WITH Kinds <- {"input", "clipboard"},
             session <- [t \in Threads |-> ("input" :> SessionOf(enigo[t]))
                                           @@ ("clipboard" :> SessionOf(clip[t]))]

SessionRefinement == DS!Spec
=============================================================================
