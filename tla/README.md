# TLA+ models of the MouseHero native library (`src/server/rs`)

The Rust crate in `src/server/rs` is a small C-callable library. Host programs call it from any of their threads to inject keyboard and mouse input (through `enigo`) and to read and write the system clipboard (through `arboard`).

This directory holds TLA+ modules for it, the TLC configurations that check them, and `PROJECT.json`, which records the components, runs, mutants, source map, findings and hazards.

## The system

| Part | Code | What it does |
|---|---|---|
| Symbol translator | `c.rs` | The C enums `CDirection`, `CButton`, `CCoordinate` and `CKey` (288 variants), with `cast()` into enigo's types. The tables depend on `#[cfg(target_os)]`: letters and digits are dedicated keys on windows, lower-case `Key::Unicode` on macos, and missing on linux. Many keys exist on only one or two targets. `Command` is commented out. |
| Exported functions | `lib.rs` 41-302 | `key_unicode_action`, `key_ascii_action`, `move_mouse`, `mouse_button`, `key_action`, `key_action_with_platform_code`, `key_action_with_code`, `enter_text`, `clipboard_get`, `clipboard_set` and `free_string`. Each one checks its argument, translates it, runs a closure on the calling thread's device handle, and maps the result to `YAError` (Success 0, PlatformError -1, ClipboardError -2, InvalidInput -3). |
| Device session manager | `lib.rs` 117-191 | Two `thread_local!` cells, `ENIGO` and `CLIPBOARD`, each a `RefCell<Option<_>>`. The initialiser opens the device on a thread's first use and stores `None` on failure. `with_enigo_mut` and `with_clipboard_mut` re-open a `None` cell on every call; a `Some` cell is never replaced. The cells are dropped when the thread ends. |
| Buffer release | `lib.rs` 264-302 | `clipboard_get` returns a heap `CString` via `into_raw`; the host gives it back with `free_string`, which calls `from_raw`. |
| Logger | `lib.rs` 14-24 | `Once`-guarded `env_logger` set-up, called from the thread-local initialisers. Modelled only as far as when it runs relative to the `error!` records. |
| Header generation | `build.rs` | cbindgen at build time. Not modelled. |

How the parts interact:
- The host's threads run concurrently.
- Each thread has its own cells, but all of them share one OS keyboard, one OS clipboard and one allocator.
- The OS itself changes under the library. Accessibility or input permission can be granted or revoked, and a display can become unreachable. On X11 the display connection can be lost, so that a handle opened earlier is dead. Other processes write the clipboard.

## Modules

| Module | Models |
|---|---|
| `CTypes` | Pure operators for the translator. `DirectionCast`, `ButtonCast`, `CoordinateCast` and `KeyCast` give `cast()` per build target. `IsCharScalar`, `IsPrintableAscii` and `IsAsciiCChar` (with the `c_char`→`u8` reinterpretation `CCharToByte`) give the argument checks of lib.rs. `AsciiWindowsKey` and `AsciiKey` give the two branches of `key_ascii_action`. `CKey` is the full set of 288 variants: `Digits` and `Letters`, plus the named keys grouped by the `cfg` attribute on their cast arm (`AllTargetKeys`, `WindowsKeys`, `MacOSKeys`, `LinuxKeys`, `WindowsLinuxKeys`, and `ReservedKeys` for the commented-out `Command`). `CharKeys` are the digit and letter keys. `MacCharArms` transcribes their macos arms (`Key::Unicode('0')` .. `Key::Unicode('z')`) and `AsciiWindowsArms` the windows match of `key_ascii_action`, arm by arm. |
| `MCCTypes` | A harness: a host on one build target issues `key_action`, `key_ascii_action`, `mouse_button` and `move_mouse` requests; the state is the request and the key event it becomes. `TypedBy` is a reference table of the character a key types with no modifier held, built from the key names (`CharKey`, `CharOf`) and not from either code table. |
| `DeviceSession` | The abstract specification of spec §4.2. Per thread and device kind there are two states: a successful open moves Uninitialized to Ready, and thread teardown resets every kind of that thread. |
| `Ffi` | The library as seen by a multi-threaded host, described below. |
| `MCFfi` | Instantiates `Ffi`: negative `c_char` inputs and thread symmetry. |
| `Keyboard` | The press/release state of the one OS keyboard and mouse, driven by `key_action` and `mouse_button` from several threads. Described below. |

### How `Ffi` corresponds to the code

State:
- `enigo[t]` and `clip[t]` are thread `t`'s cells. Each is `Unborn` (not yet initialised), `NoHandle` (`None`) or `Handle(e)` (`Some`, opened in display session `e`).
- The environment is `inputUp`, `clipUp`, `epoch` (the current display session) and `osClip`.
- `heap` maps each address to the live `CString`'s text, or `Dead`.
- `owned` and `released` are the host's record of the buffers it holds and the ones it has released.
- `fault` records a `from_raw` of memory that is not a live `CString`, which is undefined behaviour.
- `own` is a history variable: the text a thread last set successfully, cleared when anyone else writes the clipboard.
- `ret` is the most recent call and its result. It also records the number of device-open attempts the call made (`opens`, computed by `OpenAttempts`) and whether it emitted an `error!` record (`logged`: a failed open, or `enter_text`'s PlatformError).
- `logger` is the process-wide `INIT_LOGGER` Once. `InitLogger` sets it when a thread's cell is first used.

Actions: each exported function is one action of a thread, covering the whole function.
- `WithEnigo` is `match with_enigo_mut(f) {..}`. `LazyInit` is the thread-local initialiser (`FirstUse`) followed by the re-open of a `None` cell. The closure's OS call can succeed only on a handle of the current session of a reachable subsystem (`Usable`); even then it may fail (`OsCallOutcomes`).
- `Reject` is an early `return InvalidInput`.
- `clipboard_get` allocates from `FreePtrs`. `free_string` releases a buffer the host holds, or null.
- `ThreadExit` is the thread-local destructors.
- `ToggleInput`, `ToggleClipboard` and `ExternalCopy` are the OS.

`Spec` is a correct host on an OS whose display session never changes. `FaultSpec` adds two faults: `SessionRestart`, an X11 display connection replaced, which kills every open handle; and `free_string_again`, a host that passes a buffer it already released. Only the violation runs `ffi_session_loss` and `ffi_double_release` use `FaultSpec`; each shows what the code does under that fault.

Data abstractions:
- Texts are `"ascii"`, `"nonascii"`, invalid UTF-8, text with an interior NUL, and no text.
- Coordinates, platform codes and buttons are left out of `Ffi`: they do not change control flow.
- Buttons are checked in `MCCTypes`.

`Ffi` refines `DeviceSession`: `SessionOf` maps `Some` to Ready and everything else to Uninitialized, and `SessionRefinement` is `DS!Spec` checked as a PROPERTY.

### How `Keyboard` corresponds to the code

State:
- `inputUp` is the OS input subsystem.
- `down` is the set of OS keys and buttons that are down. They are named by the enigo value the cast produces (`Target`).
- `hostDown` is a history variable: the host's own record of what it holds down. An input is in it when the last call on it that returned Success was a Press.

Actions:
- `key_action` and `mouse_button` are the whole functions. An unsupported key is rejected. Otherwise `DeviceCall` runs `with_enigo_mut` and the enigo call, then maps Ok to Success and Err to PlatformError.
- The ENIGO cells are not state here. `with_enigo_mut` makes the OS call exactly when the subsystem is reachable: a `None` cell is re-opened then. So a cell's content never changes an outcome. `Ffi` models the cells.
- The OS applies the call's `DirectionCast` transitions in order. A successful call applies all of them. A failed call that was made applies none. With the constant `PartialClick` it may instead apply only the press of a Click whose release was refused. A call that was never made applies nothing.
- `ToggleInput` is the OS.

The model leaves out enigo's own list of held keys and what a dropped `Enigo` does with them.

`TypeOK` includes that only keys `key.cast()` supports reach the OS, which is the `Err(_) => InvalidInput` arm of `key_action`. `HostViewMatchesOS` says the host's record equals the OS state, for every key and button the host passes. Without `PartialClick` it holds by the shape of the model, so it is checked only in the violation run.

## Runs

| Run | cfg | Result | What it shows |
|---|---|---|---|
| ctypes_tables | `MCCTypes.cfg` | pass, 2,560 states | On windows and macos, for every digit and letter key and every byte 0..128, `key_action(k)` and `key_ascii_action(c)` type the same character (`KeyTablesAgree`). The two code tables are transcribed arm by arm, so a wrong arm in either one breaks it. Linux has no digit or letter keys. |
| ctypes_ascii_case | `MCCTypesAsciiCase.cfg` | violation | On windows, `key_ascii_action('A')` presses the A key, which types `a` (`AsciiPathTypesRequestedChar`). |
| ffi_macos | `MCFfi.cfg` | pass, 328,880 states, about 2 min | See below. |
| ffi_windows_liveness | `MCFfiWindowsLiveness.cfg` | pass, about 25,000 states | Under `FairSpec`, once a subsystem stays reachable, a thread's cell eventually holds a handle for good (`EventualHandle`). It uses one thread, because the question is per thread and liveness checking cannot use symmetry. It also fires the windows branch of `key_ascii_action`. |
| ffi_windows_ascii_contract | `MCFfiWindowsContract.cfg` | violation | On windows, `key_ascii_action('!')` and a device failure return InvalidInput (`ErrorContract`). |
| ffi_double_release | `MCFfiDoubleRelease.cfg` | violation | Under `FaultSpec`, a second `free_string` of a buffer is a double free. The spec says it is a no-op (`BufferOwnership`). |
| ffi_open_once | `MCFfiOpenOnce.cfg` | violation | A thread's first call while the subsystem is down makes two device opens, which can mean two OS permission prompts (`OpenOncePerCall`). |
| ffi_session_loss | `MCFfiSessionLoss.cfg` | violation | Under `FaultSpec` on linux, a handle from a replaced X11 session stays cached. The thread's calls keep failing while the display is reachable again (`NoPoisoning`). |
| keyboard_windows | `MCKeyboard.cfg` | pass, 1,186 states | On windows, two threads press, release and click keys and buttons while input permission comes and goes. Only supported keys reach the OS (`TypeOK`). |
| keyboard_partial_click | `MCKeyboardPartialClick.cfg` | violation | When the OS accepts a click's press and refuses its release, `key_action` returns PlatformError with the key left down. The host's record no longer matches the OS (`HostViewMatchesOS`). |

What ffi_macos shows: two threads interleave every exported function while the OS changes underneath. It checks:
- `ErrorContract`: InvalidInput is returned exactly for the arguments the spec calls invalid, and PlatformError and ClipboardError only come from their own functions.
- `InvalidInputTouchesNoDevice`: a rejected call never opens a device.
- `NoPoisoning`: a failed call made while the subsystem is reachable leaves a handle behind, so the next call does not start from None. In `Spec` every handle is current. The stale-handle case needs `FaultSpec` and is the violation run ffi_session_loss.
- `ClipboardRoundTrip`: a thread reads back its own text unless someone wrote in between.
- `BufferOwnership`: held buffers stay alive and intact, and no invalid free happens.
- `NoLeakedBuffer`: every live buffer is one the host holds, so the library itself loses none.
- `LogAfterInit`: every `error!` record is emitted after the process-wide logger is set up.
- `SessionRefinement`: the cells implement `DeviceSession`.
- `TypeOK`, which includes that only valid C strings are ever allocated: a clipboard text with an interior NUL is never handed out.

The six findings from the violation runs are described in `PROJECT.json` (`findings`).

Each property of a passing run has a mutant in `PROJECT.json`: a plausible bug in a mapped definition, defined next to it in the module, that TLC catches. Examples:
- a swallowed `set_text` error;
- an allocator handing out a live buffer;
- the key cast moved inside the closure;
- dropping the re-open of a `None` cell;
- `CString::from_vec_unchecked` instead of `CString::new` in `clipboard_get`;
- a windows ASCII arm without its lower-case pattern;
- comparing the signed `c_char` without the `u8` reinterpretation.

## Bounds

- Two threads are enough for every cross-thread interleaving of the properties, which involve at most a writer and a reader. Threads are symmetric.
- One buffer address: address reuse after a free happens with one address.
- Inputs are the boundary values:
  - `0xD7FF`, `0xD800`, `0xDFFF`, `0xE000`, `0x10FFFF` and `0x110000` for `char::from_u32` in ffi_macos: each side of both edges of the surrogate range and of the last scalar;
  - `31`, `32`, `126` and `127` for the printable-ASCII check in ffi_macos; `MCCTypes` tries every byte 0..128 and every key;
  - `-63` and `65` for `c_char`;
  - one key each that is supported everywhere, windows-only and linux-only.
- `Keyboard` uses three keys: one supported everywhere (`Shift`), one that is a dedicated key on windows (`A`), and `Command`, which is never supported. It uses two buttons, all three directions and two threads.
- `MaxEpoch` = 1 allows one session replacement under `FaultSpec`, which is all the stale-handle question needs. In `Spec` it has no effect.

## Fairness

`Spec` assumes none. Every step is driven by the host or the OS. The library has no threads, timers or retries of its own, so nothing in the code makes any step eventually happen.

`FairSpec` is used only by the liveness run. It adds weak fairness on each thread's `move_mouse(t)` and `clipboard_get(t)`. These stand for "the host keeps using both devices". They take no argument, so each such call reaches `with_*_mut`. Nothing is assumed about outcomes: every OS call may fail, every time.

Under this fairness, `EventualHandle` checks the library's own part. Once a subsystem stays reachable, a thread's cell eventually holds `Some` and keeps it. That holds because a `None` cell is re-opened on every call and a failed call never clears a `Some` cell. Two mutants break it: dropping the re-open (`FirstUseOnly`) and clearing the cell on error (`WithEnigoDropOnError`). Whether a held handle then *succeeds* depends on the OS, so no claim about success is made. With connection loss the handle is held but stale; that is ffi_session_loss.

## Not modelled

- What is logged, and how: the filter, the format, and whether `try_init` finds another logger already installed.
- The OS modifier state (Shift, CapsLock), which changes what the windows dedicated-key path of `key_ascii_action` types. This is listed as a hazard.
- build.rs.
- Pointer positions (the x, y of `move_mouse`) and the meaning of platform key codes. `CCoordinate` is cast in `MCCTypes` only.
- enigo's own list of the keys a handle holds, and whether a dropped `Enigo` releases them at thread teardown. No enigo source or version is in the repository. `Keyboard` does not model thread teardown.
- Clipboard content loss when arboard's owner thread exits on X11. This is library-internal.

## Plan for later work

1. If the enigo version is pinned, model the held-key list it keeps per handle, and what it releases on drop. Then check that thread teardown never releases a key that another thread holds.
2. Connect `Keyboard`'s Shift state to the windows `key_ascii_action` path, and check the case of the character typed.
