----------------------------- MODULE MCCompiler -----------------------------
(***************************************************************************)
(* Small instances of Compiler: two queued sources and one that a command  *)
(* ingests, which gives another meaning to the title of the first and      *)
(* replaces its decision.  The second replaces that decision, or the third *)
(* source's.                                                               *)
(***************************************************************************)
EXTENDS Compiler

CONSTANTS s1, s2, s3, k1, k2

\* Only the first may be sent to the provider k2.
MCPermits == [s \in Sources |-> IF s = s1 THEN Providers ELSE {k1}]
MCTopic ==
  [i \in Id |-> CASE i[1] = s2 -> "title2" [] i = <<s1, k2>> -> "title3" [] OTHER -> "title1"]
MCMeaning == [i \in Id |-> IF i[1] = s3 THEN "later" ELSE "first"]
MCNames == [s \in Sources |-> CASE s = s3 -> {s1} [] s = s2 -> {s1, s3} [] OTHER -> {}]
=============================================================================
