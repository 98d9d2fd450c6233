---------------------------- MODULE MCThreadStore ----------------------------
(* Small instances of ThreadStore for TLC.                                  *)
EXTENDS ThreadStore

CONSTANTS alice, bob, m, t1, t2, t3

F(kind, by, text, at) == [kind |-> kind, mid |-> m, by |-> by, text |-> text, at |-> at]

\* Alice signs two messages under one id, edits twice and deletes; bob uses the
\* same id for a message and reacts. Not all need arrive.
OneId ==
  {F("message", alice, t1, 0), F("message", alice, t2, 0),
   F("edit", alice, t3, 1), F("edit", alice, t2, 2), F("tombstone", alice, NoText, 3),
   F("message", bob, t2, 0), F("add", bob, NoText, 0)}
=============================================================================
