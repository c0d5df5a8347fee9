----------------------------- MODULE ByteStream -----------------------------
(***************************************************************************)
(* What a remote read promises its caller (trait ByteSource in             *)
(* xeibe-core/src/source.rs and the docs of HttpClient and BlockReader):   *)
(* the bytes that were asked for, in order and each once, and a normal end *)
(* only after the last of them.  Anything else that stops the read is an   *)
(* error, and nothing follows it.                                          *)
(***************************************************************************)
EXTENDS Sequences, SequencesExt

VARIABLES asked, got, outcome

Start == got = <<>> /\ outcome = "none"

Deliver ==
    /\ outcome = "none" /\ outcome' \in {"none", "end"}
    /\ got' # got /\ IsPrefix(got, got') /\ IsPrefix(got', asked)
    /\ outcome' = "end" => got' = asked
    /\ UNCHANGED asked

End == outcome = "none" /\ got = asked /\ outcome' = "end" /\ UNCHANGED <<asked, got>>

Stop == outcome = "none" /\ outcome' \notin {"none", "end"} /\ UNCHANGED <<asked, got>>

Promise == Start /\ [][Deliver \/ End \/ Stop]_<<asked, got, outcome>>
=============================================================================
