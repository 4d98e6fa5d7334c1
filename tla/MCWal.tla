------------------------------- MODULE MCWal -------------------------------
(***************************************************************************)
(* A segment takes the first record but not the second beside it, the      *)
(* second and the third, or the third in place of a second that failed to  *)
(* rotate; the buffer is smaller than a record.  So records are torn       *)
(* between the buffer and the file, segments rotate, and a crash can meet  *)
(* every step of an append, a rotation and a recovery.                     *)
(***************************************************************************)
EXTENDS Wal

MCPayloadBytes == <<8, 12, 4, 4>>
=============================================================================
