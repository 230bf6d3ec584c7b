------------------------- MODULE MCOperationContext -------------------------
(* Model-checking instances of OperationContext.                           *)
EXTENDS OperationContext, TLC

CONSTANTS f1, f2

Set(c, f) == [id |-> c, kind |-> "set", flight |-> f]
Clear(c, f) == [id |-> c, kind |-> "clear", flight |-> f]
Reset(c) == [id |-> c, kind |-> "reset", flight |-> None]

\* The API starts one flight.
SetOnly == {Set(1, f1)}

\* One flight is set and ends.
SetThenClear == {Set(1, f1), Clear(2, f1)}

\* One caller sets a flight, another ends it, and a third asserts, under an ID of its
\* own, that none is active.
SetClearReset == {Set(1, f1), Clear(2, f1), Reset(3)}

\* Two flights one after the other.
SetThenSet == {Set(1, f1), Set(2, f2)}

\* Registrations, streams and calls are interchangeable (safety runs only).
ControlSymmetry ==
    Permutations(Session) \cup Permutations(Stream) \cup Permutations(Rpc)
=============================================================================
