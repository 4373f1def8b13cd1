----------------------------- MODULE MCKeyboard -----------------------------
(* Small keyboards for model checking Keyboard. *)
EXTENDS Keyboard, ScanCodes

C == <<FALSE, 46>>
LShift == <<FALSE, LeftShift>>
RShift == <<FALSE, RightShift>>
LCtrl == <<FALSE, Ctrl>>
RCtrl == <<TRUE, Ctrl>>
Caps == <<FALSE, CapsLock>>
Up == <<TRUE, 72>>

\* Both Shifts, both Ctrls, Caps Lock, one key with a two-byte code and one letter.
ModifierKeys == {C, LShift, RShift, LCtrl, RCtrl, Caps, Up}
\* A character and a key that is none.
TypingKeys == {C, Up}

GetCalls == TryCalls \cup BlockingCalls
=============================================================================
