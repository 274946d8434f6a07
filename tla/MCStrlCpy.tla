----------------------------- MODULE MCStrlCpy -----------------------------
(* A small instance of module StrlCpy. *)
EXTENDS StrlCpy

(* Every string of up to four characters, over two of them.                *)
AllSource == UNION {[1..k -> Char] : k \in 0..4}

=============================================================================
