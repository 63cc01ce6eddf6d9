------------------------------- MODULE MCIolIo -------------------------------
(***************************************************************************)
(* IolIo for TLC.  A sector of 2 units, a "KB" of 2 sectors, an "MB" of 2  *)
(* "KB"; the default I/O is 1 "KB", the default header too.                *)
(***************************************************************************)
EXTENDS IolIo

SmallParams == [minoff |-> 0, maxoff |-> 24, headersz |-> 4, multiplier |-> 1,
                maxiosize |-> 8]

Read4 == [optype |-> "read", size |-> 4]
=============================================================================
