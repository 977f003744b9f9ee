---------------------------- MODULE LibraryCall -----------------------------
(***************************************************************************)
(* A caller of the library's pure functions: it makes one call at a time,  *)
(* looks at what came back and makes another one.  Modules of algorithms   *)
(* extend this one and add a call for each function.                       *)
(***************************************************************************)

VARIABLE call   \* the call just made: function, argument and result

Idle == [op |-> "idle", arg |-> <<>>, val |-> <<>>]

CallInit == call = Idle

(* A call of function op with argument a that returns v.                   *)
Call(op, a, v) == call.op = "idle" /\ call' = [op |-> op, arg |-> a, val |-> v]

(* The caller has used the result.                                         *)
Done == call.op # "idle" /\ call' = Idle
=============================================================================
