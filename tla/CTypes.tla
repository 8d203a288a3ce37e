------------------------------- MODULE CTypes -------------------------------
(***************************************************************************)
(* The symbol translator of src/server/rs: the C-facing enums of c.rs and  *)
(* their cast() into enigo's vocabulary, and the argument checks that      *)
(* lib.rs applies before it touches a device.  All operators are pure: the *)
(* tables are selected at build time by #[cfg(target_os)], modelled here   *)
(* by an explicit platform argument.                                       *)
(*                                                                         *)
(* Data abstraction: characters are their integer code points.  All 288  *)
(* CKey variants are listed, the named ones grouped by the cfg attribute  *)
(* on their cast arm; the character tables are transcribed arm by arm.    *)
(***************************************************************************)
EXTENDS Integers, TLC

\* Build targets.  Linux stands for all(unix, not(target_os = "macos")).
Windows == "windows"
MacOS   == "macos"
Linux   == "linux"
Platforms == {Windows, MacOS, Linux}

(***************************************************************************)
(* Values of enigo's vocabulary.  A Key is a dedicated key or a literal    *)
(* character (Key::Unicode); Unsupported is the Err of CKey::cast.         *)
(***************************************************************************)
Named(name) == [kind |-> "named", name |-> name]
Unicode(ch) == [kind |-> "unicode", ch |-> ch]
Unsupported == [kind |-> "unsupported"]

(***************************************************************************)
(* CCoordinate::cast (c.rs 3-16): Abs and Rel become enigo's               *)
(* Coordinate::Abs and Coordinate::Rel on every target.                    *)
(***************************************************************************)
CCoordinate == {"Abs", "Rel"}
CoordinateCast(c) == IF c = "Abs" THEN "Coordinate::Abs" ELSE "Coordinate::Rel"

(***************************************************************************)
(* CDirection::cast (c.rs 60-68): the key transitions a direction makes;  *)
(* Click is a press and a release as one call.                            *)
(***************************************************************************)
CDirection == {"Press", "Release", "Click"}
DirectionCast(d) ==
    CASE d = "Press"   -> <<"down">>
      [] d = "Release" -> <<"up">>
      [] d = "Click"   -> <<"down", "up">>

(***************************************************************************)
(* CButton::cast (c.rs 31-51): total, but on macos Back and Forward are   *)
(* replaced by Left and Right.                                             *)
(***************************************************************************)
CButton == {"Left", "Middle", "Right", "Back", "Forward",
            "ScrollUp", "ScrollDown", "ScrollLeft", "ScrollRight"}
ButtonCast(os, b) ==
    IF os = MacOS /\ b \in {"Back", "Forward"}
    THEN IF b = "Back" THEN "Left" ELSE "Right"
    ELSE b

(***************************************************************************)
(* CKey (c.rs 70-360): ten digit keys, 26 letter keys and 252 named keys. *)
(***************************************************************************)
Digits  == <<"Num0", "Num1", "Num2", "Num3", "Num4", "Num5", "Num6", "Num7",
             "Num8", "Num9">>
Letters == <<"A", "B", "C", "D", "E", "F", "G", "H", "I", "J", "K", "L", "M",
             "N", "O", "P", "Q", "R", "S", "T", "U", "V", "W", "X", "Y", "Z">>
CharKeys == {Digits[i] : i \in 1..10} \cup {Letters[i] : i \in 1..26}

\* The macos arms of the digit and letter keys (c.rs 385-404, 457-508):
\* `CKey::Num0 => Key::Unicode('0')`, `CKey::A => Key::Unicode('a')`, ...
MacCharArms ==
    ("Num0" :> 48) @@ ("Num1" :> 49) @@ ("Num2" :> 50) @@ ("Num3" :> 51)
    @@ ("Num4" :> 52) @@ ("Num5" :> 53) @@ ("Num6" :> 54) @@ ("Num7" :> 55)
    @@ ("Num8" :> 56) @@ ("Num9" :> 57) @@ ("A" :> 97) @@ ("B" :> 98)
    @@ ("C" :> 99) @@ ("D" :> 100) @@ ("E" :> 101) @@ ("F" :> 102)
    @@ ("G" :> 103) @@ ("H" :> 104) @@ ("I" :> 105) @@ ("J" :> 106)
    @@ ("K" :> 107) @@ ("L" :> 108) @@ ("M" :> 109) @@ ("N" :> 110)
    @@ ("O" :> 111) @@ ("P" :> 112) @@ ("Q" :> 113) @@ ("R" :> 114)
    @@ ("S" :> 115) @@ ("T" :> 116) @@ ("U" :> 117) @@ ("V" :> 118)
    @@ ("W" :> 119) @@ ("X" :> 120) @@ ("Y" :> 121) @@ ("Z" :> 122)

(***************************************************************************)
(* The named keys of CKey::cast (c.rs 509-960), grouped by the cfg        *)
(* attribute on their arm.                                                 *)
(***************************************************************************)
\* no attribute: every target
AllTargetKeys ==
    {"Alt", "Backspace", "CapsLock", "Control", "Delete", "DownArrow", "End",
     "Escape_k", "F1", "F2", "F3", "F4", "F5", "F6", "F7", "F8", "F9", "F10",
     "F11", "F12", "F13", "F14", "F15", "F16", "F17", "F18", "F19", "F20",
     "Help", "Home", "LControl", "LeftArrow", "LShift", "MediaNextTrack",
     "MediaPlayPause", "MediaPrevTrack", "Meta", "Option", "PageDown",
     "PageUp", "RControl", "Return", "RightArrow", "RShift", "Shift", "Space",
     "Tab", "UpArrow", "VolumeDown", "VolumeMute", "VolumeUp"}
\* target_os = "windows"
WindowsKeys ==
    {"AbntC1", "AbntC2", "Accept", "Add", "Apps", "Attn", "BrowserBack",
     "BrowserFavorites", "BrowserForward", "BrowserHome", "BrowserRefresh",
     "BrowserSearch", "BrowserStop", "Convert", "Crsel", "DBEAlphanumeric",
     "DBECodeinput", "DBEDetermineString", "DBEEnterDLGConversionMode",
     "DBEEnterIMEConfigMode", "DBEEnterWordRegisterMode", "DBEFlushString",
     "DBEHiragana", "DBEKatakana", "DBENoCodepoint", "DBENoRoman", "DBERoman",
     "DBESBCSChar", "DBESChar", "Decimal", "Divide", "Ereof", "Exsel", "Final",
     "GamepadA", "GamepadB", "GamepadDPadDown", "GamepadDPadLeft",
     "GamepadDPadRight", "GamepadDPadUp", "GamepadLeftShoulder",
     "GamepadLeftThumbstickButton", "GamepadLeftThumbstickDown",
     "GamepadLeftThumbstickLeft", "GamepadLeftThumbstickRight",
     "GamepadLeftThumbstickUp", "GamepadLeftTrigger", "GamepadMenu",
     "GamepadRightShoulder", "GamepadRightThumbstickButton",
     "GamepadRightThumbstickDown", "GamepadRightThumbstickLeft",
     "GamepadRightThumbstickRight", "GamepadRightThumbstickUp",
     "GamepadRightTrigger", "GamepadView", "GamepadX", "GamepadY", "Hangeul",
     "Ico00", "IcoClear", "IcoHelp", "IMEOff", "IMEOn", "Junja", "Kana",
     "LaunchApp1", "LaunchApp2", "LaunchMail", "LaunchMediaSelect", "LButton",
     "LWin", "MButton", "Multiply", "NavigationAccept", "NavigationCancel",
     "NavigationDown", "NavigationLeft", "NavigationMenu", "NavigationRight",
     "NavigationUp", "NavigationView", "NoName", "NonConvert", "None",
     "Numpad0", "Numpad1", "Numpad2", "Numpad3", "Numpad4", "Numpad5",
     "Numpad6", "Numpad7", "Numpad8", "Numpad9", "OEM1", "OEM102", "OEM2",
     "OEM3", "OEM4", "OEM5", "OEM6", "OEM7", "OEM8", "OEMAttn", "OEMAuto",
     "OEMAx", "OEMBacktab", "OEMClear", "OEMComma", "OEMCopy", "OEMCusel",
     "OEMEnlw", "OEMFinish", "OEMFJJisho", "OEMFJLoya", "OEMFJMasshou",
     "OEMFJRoya", "OEMFJTouroku", "OEMJump", "OEMMinus", "OEMNECEqual",
     "OEMPA1", "OEMPA2", "OEMPA3", "OEMPeriod", "OEMPlus", "OEMReset",
     "OEMWsctrl", "PA1", "Packet", "Play", "Processkey", "RButton", "RMenu",
     "RWin", "Scroll", "Separator", "Sleep_k", "Subtract", "XButton1",
     "XButton2", "Zoom"}
\* target_os = "macos"
MacOSKeys ==
    {"BrightnessDown", "BrightnessUp", "ContrastUp", "ContrastDown", "Eject",
     "Function", "IlluminationDown", "IlluminationUp", "IlluminationToggle",
     "Launchpad", "LaunchPanel", "MediaFast", "MediaRewind", "MissionControl",
     "Power", "RCommand", "ROption", "VidMirror"}
\* all(unix, not(target_os = "macos"))
LinuxKeys ==
    {"Break", "Begin", "F25", "F26", "F27", "F28", "F29", "F30", "F31", "F32",
     "F33", "F34", "F35", "Find", "Linefeed", "Redo", "ScrollLock",
     "ScriptSwitch", "ShiftLock", "Undo", "MicMute"}
\* any(target_os = "windows", all(unix, not(target_os = "macos")))
WindowsLinuxKeys ==
    {"Cancel", "Clear", "Execute", "F21", "F22", "F23", "F24", "Hangul",
     "Hanja", "Insert", "Kanji", "LMenu", "MediaStop", "ModeChange", "Numlock",
     "Pause", "PrintScr", "Select"}
\* the arm for Command is commented out (c.rs 549-550)
ReservedKeys == {"Command"}

\* the platforms on which a named key has an arm
NamedOn == [k \in AllTargetKeys |-> Platforms]
           @@ [k \in WindowsKeys |-> {Windows}]
           @@ [k \in MacOSKeys |-> {MacOS}]
           @@ [k \in LinuxKeys |-> {Linux}]
           @@ [k \in WindowsLinuxKeys |-> {Windows, Linux}]
           @@ [k \in ReservedKeys |-> {}]
\* the enigo Key an arm produces: the variant of the same name, except for
\* Escape_k and Sleep_k (c.rs 599, 940)
EnigoName == [k \in DOMAIN NamedOn |->
                CASE k = "Escape_k" -> "Escape"
                  [] k = "Sleep_k"  -> "Sleep"
                  [] OTHER          -> k]
CKey == CharKeys \cup DOMAIN NamedOn

(***************************************************************************)
(* CKey::cast (c.rs 362-964).  Digits and letters are dedicated keys on   *)
(* windows, literal lower-case characters on macos and missing elsewhere; *)
(* every other key exists where its cfg attribute allows; Command is      *)
(* commented out everywhere; the `_` arm returns Err.                     *)
(***************************************************************************)
KeyCast(os, k) ==
    CASE k \in CharKeys /\ os = Windows -> Named(k)
      [] k \in CharKeys /\ os = MacOS   -> Unicode(MacCharArms[k])
      [] k \in DOMAIN NamedOn /\ os \in NamedOn[k] -> Named(EnigoName[k])
      [] OTHER -> Unsupported

(***************************************************************************)
(* key_unicode_action (lib.rs 44): char::from_u32 accepts a u32 iff it is *)
(* a Unicode scalar value (not a surrogate, at most 0x10FFFF).            *)
(***************************************************************************)
IsCharScalar(u) == u <= 1114111 /\ ~(u \in 55296..57343)

(***************************************************************************)
(* key_ascii_action (lib.rs 56): only printable ASCII 0x20..0x7E.          *)
(***************************************************************************)
IsPrintableAscii(ch) == ~(ch < 32 \/ ch > 126)

(***************************************************************************)
(* The windows table of key_ascii_action (lib.rs 62-100), arm by arm: the *)
(* characters of a pattern and the dedicated key it presses.  Any other  *)
(* character leaves the closure with Err(()).                              *)
(***************************************************************************)
AsciiWindowsArms ==
    << <<{65, 97}, "A">>, <<{66, 98}, "B">>, <<{67, 99}, "C">>, <<{68, 100}, "D">>,
       <<{69, 101}, "E">>, <<{70, 102}, "F">>, <<{71, 103}, "G">>, <<{72, 104}, "H">>,
       <<{73, 105}, "I">>, <<{74, 106}, "J">>, <<{75, 107}, "K">>, <<{76, 108}, "L">>,
       <<{77, 109}, "M">>, <<{78, 110}, "N">>, <<{79, 111}, "O">>, <<{80, 112}, "P">>,
       <<{81, 113}, "Q">>, <<{82, 114}, "R">>, <<{83, 115}, "S">>, <<{84, 116}, "T">>,
       <<{85, 117}, "U">>, <<{86, 118}, "V">>, <<{87, 119}, "W">>, <<{88, 120}, "X">>,
       <<{89, 121}, "Y">>, <<{90, 122}, "Z">>, <<{48}, "Num0">>, <<{49}, "Num1">>,
       <<{50}, "Num2">>, <<{51}, "Num3">>, <<{52}, "Num4">>, <<{53}, "Num5">>,
       <<{54}, "Num6">>, <<{55}, "Num7">>, <<{56}, "Num8">>, <<{57}, "Num9">>,
       <<{32}, "Space">> >>

NoKey == [kind |-> "none"]

\* Mutant: the letter arms written without their lower-case pattern.
AsciiWindowsKeyUpperOnly(ch) ==
    IF \E i \in DOMAIN AsciiWindowsArms : ch \in AsciiWindowsArms[i][1] /\ ~(ch \in 97..122)
    THEN Named(AsciiWindowsArms[CHOOSE i \in DOMAIN AsciiWindowsArms :
                                   ch \in AsciiWindowsArms[i][1]][2])
    ELSE NoKey

\* The first arm whose pattern matches ch, or NoKey for the `_` arm.
AsciiWindowsKey(ch) ==
    LET matching == {i \in DOMAIN AsciiWindowsArms : ch \in AsciiWindowsArms[i][1]}
    IN IF matching = {} THEN NoKey
       ELSE Named(AsciiWindowsArms[CHOOSE i \in matching :
                                       \A j \in matching : i <= j][2])

(***************************************************************************)
(* The key key_ascii_action injects for a printable character: the        *)
(* windows table, or (lib.rs 111-115) key_unicode_action's Key::Unicode.  *)
(***************************************************************************)
AsciiKey(os, ch) ==
    IF os = Windows THEN AsciiWindowsKey(ch) ELSE Unicode(ch)

\* Mutant: the signed c_char compared without the u8 reinterpretation.
IsAsciiCCharSigned(c) == c < 128

(***************************************************************************)
(* key_action_with_code (lib.rs 230-233): `key as u8 as char` reinterprets *)
(* the signed c_char as a byte, and only bytes below 128 are ASCII.       *)
(***************************************************************************)
CCharToByte(c) == c % 256
IsAsciiCChar(c) == CCharToByte(c) < 128
=============================================================================
