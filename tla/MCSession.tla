----------------------------- MODULE MCSession -----------------------------
(* Small instances of Session for TLC. *)
EXTENDS Session

Key(csi, win, key) == [csi |-> csi, win |-> win, key |-> key]

Esc       == Key(<<27>>, <<27>>, TERM_KEY_ESC)
Enter0    == Key(<<10>>, <<13>>, TERM_KEY_ENTER)
Up        == Key(<<27, 91, 65>>, <<224, 72>>, TERM_KEY_UP)
PageDown  == Key(<<27, 91, 54, 126>>, <<224, 81>>, TERM_KEY_PGDN)
Right     == Key(<<27, 91, 67>>, <<224, 77>>, TERM_KEY_NONE)
CtrlRight == Key(<<27, 91, 49, 59, 53, 67>>, <<224, 116>>, TERM_KEY_NONE)

SessionPresses == {Esc, Enter0, Up, PageDown, CtrlRight}
ArrowPresses   == {Right}

Word(is, ms) ==
    LET value == [ms |-> ms, name |-> "other", text |-> <<48>>]
    IN  <<[is |-> is, whole |-> value, part |-> value]>>

(* --interval=-1 and --interval=nan; a program that is launched once more *)
(* has no options.                                                        *)
SessionArgvs == {Word("interval=", -1000), Word("interval=", NaN)}
PlainArgvs   == {<< >>}
=============================================================================
