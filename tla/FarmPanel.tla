------------------------------ MODULE FarmPanel -------------------------------
(***************************************************************************)
(* The panel of a selected farm: its controls write the farm's options,    *)
(* one at a time, through combinations tq.farm refuses; the problems shown *)
(* on the card are the browser's own reading of what the library checks.   *)
(***************************************************************************)
EXTENDS Integers, FiniteSets

CONSTANT FarmNumbers      \* the numbers typed into its number fields

ASSUME FarmAssumption == FarmNumbers \subseteq Int

VARIABLE farm     \* the options, and what the farm's workers are

EmitPolicies == {"round_robin", "on_demand", "broadcast", "scatter", "key"}
CollectPolicies == {"first_come", "round_robin", "ordered", "gather"}
Ends == {"there", "off"}      \* the usual one or a function of the flow's own, or none

DefaultFarm(worker) ==
    [worker |-> worker, workers |-> 4, emit |-> "round_robin", collect |-> "none",
     ordered |-> FALSE, emitter |-> "there", collector |-> "there", key |-> FALSE,
     prefetch |-> 1, window |-> "none", capacity |-> "none", runtime |-> "threads"]

\* a node of some kind, two nodes fused, or a container
FarmInit == \E worker \in {"node", "raw", "source", "comb", "block"} : farm = DefaultFarm(worker)

-----------------------------------------------------------------------------
(* The controls (FarmFields in Properties.tsx).                            *)

SetFarmWorkers == \E n \in FarmNumbers : farm' = [farm EXCEPT !.workers = IF n < 1 THEN 1 ELSE n]
SetEmit == \E p \in EmitPolicies : farm' = [farm EXCEPT !.emit = p]
\* a key makes the farm select by key; taking it away leaves `emit' as it is
SetKey ==
    \/ farm' = [farm EXCEPT !.key = TRUE, !.emit = "key"]
    \/ farm' = [farm EXCEPT !.key = FALSE]
SetPrefetch ==
    farm.emit = "on_demand" /\ \E n \in FarmNumbers : farm' = [farm EXCEPT !.prefetch = n]
SetOrdered ==
    \/ farm' = [farm EXCEPT !.ordered = TRUE, !.collect = "none"]
    \/ farm' = [farm EXCEPT !.ordered = FALSE]
SetCollect == \E p \in CollectPolicies \union {"none"} : farm' = [farm EXCEPT !.collect = p]
SetFarmEnd ==
    \E e \in Ends : farm' = [farm EXCEPT !.emitter = e] \/ farm' = [farm EXCEPT !.collector = e]
SetRuntime ==
    \E r \in {"threads", "processes"} : farm' = [farm EXCEPT !.runtime = r]
\* empty or a good number, or one below 1
SetWindow == \E w \in {"none", "zero"} : farm' = [farm EXCEPT !.window = w]
SetCapacity == \E c \in {"none", "zero"} : farm' = [farm EXCEPT !.capacity = c]

FarmNext ==
    \/ SetFarmWorkers \/ SetEmit \/ SetKey \/ SetPrefetch \/ SetOrdered \/ SetCollect
    \/ SetFarmEnd \/ SetRuntime \/ SetCapacity \/ SetWindow

-----------------------------------------------------------------------------
(* What the two say of a farm.                                             *)

CollectOf(f) ==
    IF f.collect # "none" THEN f.collect
    ELSE IF f.ordered THEN "ordered" ELSE IF f.emit = "scatter" THEN "gather" ELSE "first_come"
Tagged(f) == CollectOf(f) \in {"ordered", "gather"}

EndsOff(f) == "off" \in {f.emitter, f.collector}
\* mutant: whether the ends are there is only asked of ordered=True
EndsMissingOrdered(f) == f.ordered /\ EndsOff(f)
EndsMissing(f) == Tagged(f) /\ EndsOff(f)

\* farmProblems: a block is anything but a node or an expression
FarmProblems(f) ==
    LET block == f.worker \in {"comb", "block"}
    IN  {p \in {"source", "workers", "key", "no key", "twice", "gather", "tagged block",
                "ends", "tagged raw", "prefetch", "window", "capacity", "processes"} :
            /\ p = "source" => f.worker = "source"
            /\ p = "workers" => f.workers < 1
            /\ p = "key" => f.key /\ f.emit \notin {"round_robin", "key"}
            /\ p = "no key" => f.emit = "key" /\ ~f.key
            /\ p = "twice" => f.ordered /\ f.collect \notin {"none", "ordered"}
            /\ p = "gather" => f.collect = "gather" /\ f.emit # "scatter"
            /\ p = "tagged block" => Tagged(f) /\ block
            /\ p = "ends" => EndsMissing(f)
            /\ p = "tagged raw" => Tagged(f) /\ f.worker = "raw"
            /\ p = "prefetch" => f.prefetch < 1
            /\ p = "window" => f.window = "zero"
            /\ p = "capacity" => f.capacity = "zero"
            /\ p = "processes" => f.runtime = "processes" /\ block}

\* Farm.__init__, in its order: the first test that fails raises.  A comb is a plain
\* node there, and a key changes what `emit' is.
LibraryRefuses(f) ==
    LET emit == IF f.key THEN "key" ELSE f.emit
        collect == IF f.collect # "none" THEN f.collect
                   ELSE IF f.ordered THEN "ordered"
                   ELSE IF emit = "scatter" THEN "gather" ELSE "first_come"
        tagged == collect \in {"ordered", "gather"}
    IN  \/ f.workers < 1 \/ f.worker = "source"
        \/ f.worker = "block" /\ f.runtime = "processes"
        \/ f.key /\ f.emit \notin {"round_robin", "key"}
        \/ emit = "key" /\ ~f.key
        \/ f.ordered /\ collect # "ordered"
        \/ collect = "gather" /\ emit # "scatter"
        \/ tagged /\ (f.worker \in {"block", "raw"} \/ EndsOff(f))
        \/ f.prefetch < 1

\* Whatever the controls are set to, in whatever order, a farm the library refuses has
\* a problem on its card: validate.ts repeats `option combinations tq.farm refuses'
\* (validate.ts:5).  And one that has a problem is refused, but for the three the browser
\* alone objects to, which tq.farm takes: a fused pair as the worker, a window below 1,
\* a capacity below 1.
AloneObjected == farm.worker = "comb" \/ "zero" \in {farm.window, farm.capacity}
PanelAgrees ==
    /\ LibraryRefuses(farm) => FarmProblems(farm) # {}
    /\ (FarmProblems(farm) # {} /\ ~AloneObjected) => LibraryRefuses(farm)
=============================================================================
