---------------------------- MODULE MCTransparency ----------------------------
EXTENDS Transparency

(* A negative number, every index of the longest log and one beyond. *)
MCSeqs == (-1)..MaxEntries
=============================================================================
