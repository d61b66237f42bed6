----------------------------- MODULE MCKeyboard -----------------------------
(***************************************************************************)
(* Keyboards for TLC: a letter, a symbol, keypad slash (the code of '/'    *)
(* behind a prefix), and modifiers.                                        *)
(***************************************************************************)
EXTENDS Keyboard

KeyA == \h1E
KeySlash == \h35
KeypadSlash == \hE035

\* A letter, a symbol, every kind of modifier, the shift keys both, and the
\* keys whose codes contain those of modifiers.
MCKeys == {KeyA, KeySlash, KeypadSlash, PrintScreen, Pause, shift_l_make, shift_r_make,
           ctrl_r_make, alt_r_make, caps_lock_make}
NotCaps == MCKeys \ {caps_lock_make}

=============================================================================
