---------------------------- MODULE MCNotesStore ----------------------------
(* Small instances of NotesStore for TLC.                                  *)
EXTENDS NotesStore
=============================================================================
