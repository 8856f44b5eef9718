------------------------------ MODULE Settlement ------------------------------
(***************************************************************************)
(* What a caller of asyncRequest may rely on: a call that was given a      *)
(* callback is pending until the callback is invoked, which settles it for *)
(* good, or until it is dropped, and then the callback stays silent.       *)
(* RequestManager implements this.                                         *)
(***************************************************************************)
CONSTANT Calls  \* the calls of asyncRequest

VARIABLE status \* [Calls -> {"new", "pending", "settled", "dropped"}]

Init == status = [c \in Calls |-> "new"]

(* A call starts pending, or dropped when it has no callback to wait for.  *)
(* Starting it may drop a call that was made earlier.                      *)
Start(c) ==
    /\ status[c] = "new"
    /\ \E start \in {"pending", "dropped"},
          dropped \in SUBSET {d \in Calls : status[d] = "pending"} :
         status' = [d \in Calls |-> IF d = c THEN start
                                    ELSE IF d \in dropped THEN "dropped"
                                    ELSE status[d]]

Settle(c) ==
    /\ status[c] = "pending"
    /\ status' = [status EXCEPT ![c] = "settled"]

Next == \E c \in Calls : Start(c) \/ Settle(c)

Spec == Init /\ [][Next]_status
=============================================================================
