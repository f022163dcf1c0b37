-------------------------------- MODULE AiThread --------------------------------
(***************************************************************************)
(* A conversation with the AI builder: the thread of one flow, the request *)
(* its last turn is the answer to, and the controller that can abort it.   *)
(* Every event of a request lands on the thread's last answer, whichever   *)
(* that is by then.  The threads of other flows share nothing with it.     *)
(***************************************************************************)
EXTENDS Integers, Sequences, FiniteSets

CONSTANTS
    MaxAsks,     \* questions asked in the thread
    MaxEvents,   \* words and tool steps of one answer
    Hasty        \* whether a question is asked between an answer's end and its stream's

ASSUME AiThreadAssumption ==
    MaxAsks \in Nat \ {0} /\ MaxEvents \in Nat /\ Hasty \in BOOLEAN

VARIABLES
    turns,       \* the answers: [req, got, streaming, stopped, ok, flow, applied]
    controller,  \* the request Stop would abort, 0 for none
    streams,     \* requests in flight: [req, sent, ended]
    questions,   \* how many were asked
    primed       \* a question handed over from the Flows page

aiThreadVars == <<turns, controller, streams, questions, primed>>

AiThreadInit ==
    turns = <<>> /\ controller = 0 /\ streams = {} /\ questions = 0 /\ primed = FALSE

Streaming == \E t \in DOMAIN turns : turns[t].streaming

\* every event lands on the last answer, if the thread was not cleared
OnLast(change(_)) ==
    IF turns = <<>> THEN turns ELSE [turns EXCEPT ![Len(turns)] = change(@)]

-----------------------------------------------------------------------------
(* The reader: AiPanel's composer, quick actions, Stop, Clear and Apply.   *)

\* begin aborts what the controller still reaches.  That request ends there and then:
\* its `settle' closes the new turn and drops the new controller.
Asked ==
    LET r == questions + 1
        overtakes == controller # 0
    IN  /\ questions < MaxAsks /\ ~Streaming
        /\ overtakes => Hasty
        /\ questions' = r
        /\ turns' = Append(turns, [req |-> r, got |-> {}, streaming |-> ~overtakes,
                                   stopped |-> FALSE, ok |-> TRUE, flow |-> FALSE,
                                   applied |-> FALSE])
        /\ controller' = IF overtakes THEN 0 ELSE r
        /\ streams' = {s \in streams : s.req # controller}
                          \union {[req |-> r, sent |-> 0, ended |-> FALSE]}

Ask == Asked /\ UNCHANGED primed

\* a flow described on the Flows page: its question is asked as the panel opens, and is
\* lost if an answer is still arriving
Prime == ~primed /\ primed' = TRUE /\ UNCHANGED <<turns, controller, streams, questions>>
TakePrimed ==
    /\ primed /\ primed' = FALSE
    /\ Asked \/ (Streaming /\ UNCHANGED <<turns, controller, streams, questions>>)

StopTurn(t) == IF t.streaming THEN [t EXCEPT !.streaming = FALSE, !.stopped = TRUE, !.ok = FALSE]
               ELSE t

\* mutant: the turn is closed and the request goes on
StopShown ==
    /\ Streaming /\ turns' = OnLast(StopTurn) /\ controller' = 0
    /\ UNCHANGED <<streams, questions, primed>>

StopAnswer ==
    /\ Streaming /\ turns' = OnLast(StopTurn) /\ controller' = 0
    /\ streams' = {s \in streams : s.req # controller}
    /\ UNCHANGED <<questions, primed>>

Clear ==
    /\ turns # <<>> /\ turns' = <<>> /\ controller' = 0 /\ primed' = FALSE
    /\ streams' = {s \in streams : s.req # controller}
    /\ UNCHANGED questions

\* applyDraftToEditor is Editor's ApplyDraft; here the draft is marked
Apply ==
    \E t \in DOMAIN turns :
        /\ turns[t].flow /\ ~turns[t].applied
        /\ turns' = [turns EXCEPT ![t].applied = TRUE]
        /\ UNCHANGED <<controller, streams, questions, primed>>

-----------------------------------------------------------------------------
(* The request: its events, its end, and the end of its stream.            *)

Sent(s, ended) == streams' = (streams \ {s}) \union {[s EXCEPT !.sent = @ + 1, !.ended = ended]}

\* words and tool steps
EventLands ==
    \E s \in streams :
        /\ ~s.ended /\ s.sent < MaxEvents /\ Sent(s, FALSE)
        /\ turns' = OnLast(LAMBDA t : [t EXCEPT !.got = @ \union {s.req}])
        /\ UNCHANGED <<controller, questions, primed>>

FlowLands ==
    \E s \in streams :
        /\ ~s.ended /\ Sent(s, FALSE) /\ s.sent <= MaxEvents
        /\ turns' = OnLast(LAMBDA t : [t EXCEPT !.got = @ \union {s.req}, !.flow = TRUE,
                                           !.applied = FALSE])
        /\ UNCHANGED <<controller, questions, primed>>

\* `done' or `error': the turn is closed, the stream is not yet
AnswerEnds ==
    \E s \in streams, ok \in BOOLEAN :
        /\ ~s.ended /\ Sent(s, TRUE)
        /\ turns' = OnLast(LAMBDA t : [t EXCEPT !.got = @ \union {s.req}, !.streaming = FALSE,
                                           !.ok = ok])
        /\ UNCHANGED <<controller, questions, primed>>

\* settle, after the stream's end or a failure, which may even follow the answer's
StreamEnds ==
    \E s \in streams, failed \in BOOLEAN :
        /\ streams' = streams \ {s} /\ controller' = 0
        /\ turns' = OnLast(LAMBDA t : [t EXCEPT !.streaming = FALSE, !.ok = @ /\ ~failed])
        /\ UNCHANGED <<questions, primed>>

AiThreadNext ==
    \/ Ask \/ Prime \/ TakePrimed \/ StopAnswer \/ Clear \/ Apply
    \/ EventLands \/ FlowLands \/ AnswerEnds \/ StreamEnds

AiThreadSpec == AiThreadInit /\ [][AiThreadNext]_aiThreadVars

-----------------------------------------------------------------------------
\* What an answer shows comes from the question it follows; while it is arriving, Stop
\* reaches its request; and no request is in flight that has no turn to end.  `The
\* thread's last assistant turn; every event lands on that one turn' (store/ai.ts:133):
\* it must still be the turn that asked.
TurnsApart ==
    /\ \A t \in DOMAIN turns :
          /\ turns[t].got \subseteq {turns[t].req}
          /\ turns[t].streaming =>
                controller = turns[t].req /\ \E s \in streams : s.req = controller
    /\ \A s \in streams : turns # <<>> /\ turns[Len(turns)].req = s.req
=============================================================================
