------------------------------ MODULE MCCTypes ------------------------------
(***************************************************************************)
(* Model-checking harness for the translator.  A host on a given build    *)
(* target issues one request after another; the state is the request and *)
(* the enigo key event the translator makes of it.  The properties relate *)
(* the two key tables of the code and the characters their keys type.     *)
(***************************************************************************)
EXTENDS CTypes

CONSTANTS Targets,     \* the build targets checked
          AsciiInputs  \* u32 arguments of key_ascii_action

ASSUME Targets \subseteq Platforms

VARIABLES os, req, event

vars == <<os, req, event>>

Requests ==
    [op : {"key_action"}, arg : CKey, dir : CDirection]
    \cup [op : {"key_ascii_action"}, arg : AsciiInputs, dir : CDirection]
    \cup [op : {"mouse_button"}, arg : CButton, dir : CDirection]
    \cup [op : {"move_mouse"}, arg : CCoordinate, dir : {"none"}]

\* The key event a request becomes; Rejected when it yields InvalidInput.
Rejected == [key |-> NoKey, steps |-> <<>>]
Translate(o, r) ==
    LET key == CASE r.op = "key_action" -> KeyCast(o, r.arg)
                 [] r.op = "mouse_button" -> [kind |-> "button", name |-> ButtonCast(o, r.arg)]
                 [] r.op = "move_mouse" -> [kind |-> "move", mode |-> CoordinateCast(r.arg)]
                 [] IsPrintableAscii(r.arg) -> AsciiKey(o, r.arg)
                 [] OTHER -> NoKey
    IN IF key \in {Unsupported, NoKey} THEN Rejected
       ELSE [key |-> key,
             steps |-> IF r.op = "move_mouse" THEN <<"move">> ELSE DirectionCast(r.dir)]

Init ==
    /\ os \in Targets
    /\ req \in Requests
    /\ event = Translate(os, req)

Request(r) ==
    /\ req' = r
    /\ event' = Translate(os, r)
    /\ UNCHANGED os

Next == \E r \in Requests : Request(r)

Spec == Init /\ [][Next]_vars

(***************************************************************************)
(* Reference, independent of the code's tables: the character each digit *)
(* and letter key stands for ('0'..'9', 'a'..'z'), and the character a    *)
(* key types with no modifier held (a dedicated letter key types its      *)
(* lower-case letter).                                                     *)
(***************************************************************************)
CharKey == [i \in 48..57 |-> Digits[i - 47]] @@ [i \in 97..122 |-> Letters[i - 96]]
CharOf  == [k \in CharKeys |-> CHOOSE c \in DOMAIN CharKey : CharKey[c] = k]

TypedBy(key) ==
    CASE key.kind = "unicode" -> key.ch
      [] key.kind = "named" /\ key.name \in DOMAIN CharOf -> CharOf[key.name]
      [] key.kind = "named" /\ key.name = "Space" -> 32
      [] OTHER -> -1

\* the character a CKey stands for
KeyChar == CharOf @@ ("Space" :> 32)

\* u32 arguments of key_ascii_action: every byte from below to above the
\* printable range
MCAsciiInputs == 0..128

(***************************************************************************)
(* key_action(k) (c.rs CKey::cast) and key_ascii_action(c) (the windows   *)
(* table in lib.rs, or Key::Unicode elsewhere) type the same character    *)
(* whenever the key exists on the target: the two tables of the code      *)
(* agree.                                                                  *)
(***************************************************************************)
KeyTablesAgree ==
    (req.op = "key_action" /\ req.arg \in DOMAIN KeyChar /\ event # Rejected)
        => TypedBy(event.key) = TypedBy(AsciiKey(os, KeyChar[req.arg]))

(***************************************************************************)
(* The spec (section 8) says key_ascii_action(c) has the same observable  *)
(* effect on every target, only the event type differs: whenever it       *)
(* injects a key, that key types exactly the requested character.         *)
(***************************************************************************)
AsciiPathTypesRequestedChar ==
    (req.op = "key_ascii_action" /\ event # Rejected)
        => TypedBy(event.key) = req.arg
=============================================================================
