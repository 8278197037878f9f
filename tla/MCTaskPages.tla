----------------------------- MODULE MCTaskPages -----------------------------
(* Small instances of TaskPages for TLC.                                    *)
EXTENDS TaskPages

EveryPage == 1 .. MaxInt64
Instants  == {1, 2}
FromOne   == {1}
=============================================================================
