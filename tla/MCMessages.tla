---------------------------- MODULE MCMessages -----------------------------
(* Messages with two values: a text of three octets and one of four.       *)
EXTENDS Messages
============================================================================
