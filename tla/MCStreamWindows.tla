-------------------------- MODULE MCStreamWindows --------------------------
(***************************************************************************)
(* Small instances of StreamWindows: a stream over part of a document at  *)
(* an overlap the constructor accepts.                                     *)
(***************************************************************************)
EXTENDS StreamWindows, MCDocuments

AllDocuments == DocumentsOf(TextLen, MaxSpan)
=============================================================================
