----------------------------- MODULE MCKeyboard ----------------------------
(* Boot and Keyboard for TLC: one key, two characters.                    *)
EXTENDS Boot

MCLower(k) == <<k, "lower">>
MCUpper(k) == <<k, "upper">>
MCNoChar == <<"none", "none">>
=============================================================================
