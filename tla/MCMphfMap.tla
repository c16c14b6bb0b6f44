------------------------------- MODULE MCMphfMap -------------------------------
(* The perfect-hash map as the Rust encoder builds it. *)
EXTENDS MphfMap

\* Two keys with the same short form.
ShortKeys == [a |-> 1, b |-> 1, c |-> 2, d |-> 3]

=============================================================================
