------------------------------ MODULE Results ------------------------------
(* Results of calls that may fail: Rust's Result, and replies or exceptions *)
(* in JavaScript.                                                           *)

Ok(v) == [ok |-> TRUE, value |-> v]
Err(e) == [ok |-> FALSE, error |-> e]
=============================================================================
