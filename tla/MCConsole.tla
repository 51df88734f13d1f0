----------------------------- MODULE MCConsole -----------------------------
(* A screen of two rows of two, a keyboard of one letter and the keys with *)
(* a meaning of their own.                                                    *)
EXTENDS Console

Keyboard == {"SC_A", "SC_BACKSPACE", "SC_LSHIFT", "FAKE_SHIFT"}
Output == {"a", "newline"}
=============================================================================
