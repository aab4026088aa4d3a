------------------------------ MODULE Outcomes ------------------------------
(***************************************************************************)
(* What a computation that may fail gives: a value, or the failure alone     *)
(* (a thrown exception, or a result object that holds an error).             *)
(***************************************************************************)
Failed  == [ok |-> FALSE]
Ok(v)   == [ok |-> TRUE, value |-> v]
OkIf(p, v) == IF p THEN Ok(v) ELSE Failed
Then(r, F(_)) == IF r.ok THEN F(r.value) ELSE Failed
=============================================================================
