------------------------------- MODULE Channel -------------------------------
(***************************************************************************)
(* What one edge promises the two nodes it joins, whatever batching,       *)
(* credits, routing and held-back items do underneath: a bounded FIFO with *)
(* an end of stream.  Items are numbered in the order they are accepted,   *)
(* and handed over in that order: what is inside is given+1 to sent.       *)
(***************************************************************************)
EXTENDS Integers

CONSTANT Limit      \* a natural number: items accepted and not yet handed over

VARIABLES
    sent,           \* items accepted so far
    given,          \* items handed to the receiver so far
    ended,          \* the receiver has been told there are no more
    gone,           \* the receiver has finished
    cancelled       \* the run has been cancelled

vars == <<sent, given, ended, gone, cancelled>>

Init == sent = 0 /\ given = 0 /\ ~ended /\ ~gone /\ ~cancelled

\* The sender hands over its next items, one or more; nobody reads them once the
\* receiver is gone.
Send ==
    /\ ~ended
    /\ sent' > sent
    /\ gone \/ sent' - given <= Limit
    /\ UNCHANGED <<given, ended, gone, cancelled>>

\* The end comes after the last item.  In a cancelled run the sender may have given
\* up on its last ones.
MayEnd == given' = sent \/ cancelled

\* The oldest items, one or more, are handed to the receiver, and the end may come
\* with the last of them.
Receive ==
    /\ ~gone /\ ~ended
    /\ given' \in (given + 1)..sent
    /\ ended' \in BOOLEAN
    /\ ended' => MayEnd
    /\ UNCHANGED <<sent, gone, cancelled>>

\* The receiver learns that the stream has ended.
End ==
    /\ ~ended /\ ~gone
    /\ ended' = TRUE
    /\ MayEnd
    /\ UNCHANGED <<sent, given, gone, cancelled>>

\* The receiver finishes; what is on its way is never handed over.
Leave ==
    /\ ~gone /\ gone' = TRUE
    /\ UNCHANGED <<sent, given, ended, cancelled>>

Cancel ==
    /\ ~cancelled /\ cancelled' = TRUE
    /\ UNCHANGED <<sent, given, ended, gone>>

Next == Send \/ Receive \/ End \/ Leave \/ Cancel

Spec == Init /\ [][Next]_vars
=============================================================================
