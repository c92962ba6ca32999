------------------------------ MODULE MCIngest ------------------------------
(***************************************************************************)
(* A small instance of Ingest: a text dropped at two paths, which share a  *)
(* file name, and a file nothing can parse.                                *)
(***************************************************************************)
EXTENDS Ingest, TLC

CONSTANTS note, copy, blob, text, bytes, w, d

MCNames == note :> "note" @@ copy :> "note" @@ blob :> "blob"
MCLanes == [p \in Paths |-> "local_only"]
MCFiles == {<<note, text>>, <<copy, text>>, <<blob, bytes>>}
=============================================================================
