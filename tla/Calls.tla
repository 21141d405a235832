------------------------------- MODULE Calls -------------------------------
(***************************************************************************)
(* One call of a function that keeps no state: the call is chosen at the   *)
(* start, and the only step returns what the code computes for it.  The    *)
(* modules of the pure algorithms share these variables; a call names the  *)
(* function it is of.                                                      *)
(***************************************************************************)

VARIABLES
    call,       \* the function and its arguments
    returned,   \* whether it has returned
    result      \* what it returned

callVars == <<call, returned, result>>

Pick(calls) == call \in calls /\ returned = FALSE /\ result = << >>

\* The function returns one of the results.
Return(function, Results(_)) ==
    /\ ~returned /\ call.function = function
    /\ returned' = TRUE
    /\ result' \in Results(call)
    /\ UNCHANGED call

Of(function) == returned /\ call.function = function

=============================================================================
