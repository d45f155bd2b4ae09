----------------------------- MODULE Completion -----------------------------
(***************************************************************************)
(* What every latch promises its waiter: it returns once, after all the    *)
(* participants have published their results, and it does return.          *)
(***************************************************************************)
CONSTANT Participants

VARIABLES finished, returned

Init == finished = {} /\ returned = FALSE

Finish(s) == s \notin finished /\ finished' = finished \cup {s} /\ UNCHANGED returned

Return == finished = Participants /\ ~returned /\ returned' = TRUE /\ UNCHANGED finished

Next == Return \/ \E s \in Participants : Finish(s)

Spec == Init /\ [][Next]_<<finished, returned>> /\ WF_<<finished, returned>>(Return)
=============================================================================
