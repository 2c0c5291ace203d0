---------------------------- MODULE MCFileTransfer ----------------------------
(* Values of FileTransfer's constants for TLC. *)
EXTENDS FileTransfer

\* No file, an empty file, one block and two blocks.
MCFiles == {Absent, <<>>, <<1>>, <<1, 2>>}
JustEmpty == {<<>>}

DirtyHeap == {Null, Garbage}
=============================================================================
