------------------------------ MODULE MCNetEdge ------------------------------
(***************************************************************************)
(* Small streams for NetEdge, and what the whole edge amounts to.          *)
(***************************************************************************)
EXTENDS NetEdge

\* An edge across two groups is still a channel: bounded, in order, each item once, the
\* end after the last of them (net.py, NetOut and NetIn).  What NetIn has acknowledged
\* and still has pending comes on top of the capacity: less than a batch.  A NetIn that
\* stops early asks for no more, and its sender has the same bound.
Chan == INSTANCE Channel WITH
    Limit <- Capacity + BatchSize - 1,
    sent <- produced,
    given <- delivered,
    ended <- rpc = "over" /\ verdict["in"] = "done",
    gone <- FALSE,
    cancelled <- FALSE
\* What the local node is given are the next items, in the order they were sent.
HandedInOrder == delivered' # delivered => \A i \in (delivered + 1)..delivered' : passed'[i] = i
IsChannel == Chan!Spec /\ [][HandedInOrder]_vars
=============================================================================
