------------------------------ MODULE LiveCall ------------------------------
(* One live session: its audio sockets (app/routers/live.py), the reconnect *)
(* window and the flush that turns it into a Call (app/workers/             *)
(* session_flusher.py), the agent's audio in Redis (app/services/           *)
(* agent_archive.py), the customer's buffer (app/workers/asr_worker.py) and *)
(* evaluate_live_call of app/worker.py.  Sessions do not meet each other.   *)
(* The API is one event loop: a step ends where the code awaits.            *)
EXTENDS Integers, FiniteSets, Sequences

CONSTANTS None,
          Connections,   \* 1..n, the sockets in the order in which they are opened
          StreamLimit,   \* maxlen of the Redis stream, 10000 packets in the code
          MaxChunks,     \* bound: audio packets
          MaxFaults      \* bound: restarts, failures of Redis, database, broker, model or worker

ASSUME LiveAssumption ==
    /\ Connections \subseteq Nat \ {0}
    /\ None \notin Connections
    /\ StreamLimit \in Nat \ {0}
    /\ {MaxChunks, MaxFaults} \subseteq Nat

VARIABLES session,    \* live_sessions.status
          conn,       \* the handlers: "new", "open", "left" the loop, "draining", "done"
          buffer,     \* active_asr_sessions: the connection whose buffer is registered
          task,       \* background_flush of each connection
          pending,    \* pending_flushes: the connection whose task is registered
          stream,     \* packets in the session's Redis stream, the latest that were sent
          wav,        \* packets the running flush has read from it
          sent,       \* packets accepted so far
          calls,      \* the Calls made from the session
          disturbed,  \* a socket met an older one, a running flush or the end of the session
          faults

sockets == << conn, buffer, sent >>
flushes == << task, pending, stream, wav >>
vars == << session, conn, buffer, task, pending, stream, wav, sent,
           calls, disturbed, faults >>

Init ==
    /\ session = "absent"
    /\ conn = [c \in Connections |-> "new"]
    /\ buffer = None
    /\ task = [c \in Connections |-> "none"]
    /\ pending = None
    /\ stream = 0
    /\ wav = 0
    /\ sent = 0
    /\ calls = << >>
    /\ disturbed = FALSE
    /\ faults = 0

Fault == faults < MaxFaults /\ faults' = faults + 1

\* start_live_session
StartSession ==
    /\ session = "absent"
    /\ session' = "active"
    /\ UNCHANGED << sockets, flushes, calls, disturbed, faults >>

----------------------------------------------------------------------------
(* Sockets. *)

InTurn(c) == conn[c] = "new" /\ session # "absent" /\ \A b \in Connections : b < c => conn[b] # "new"

\* Slip: a reconnect does not stop the timer of the connection before.
TimerGoesOn == task

\* A cancelled task stops at its await; a session it was flushing stays FLUSHING.
CancelPending ==
    IF pending = None THEN task ELSE [task EXCEPT ![pending] = "done"]

\* Another handler has not ended yet, or a flush is past its window.
Busy == \E b \in Connections : conn[b] \in {"open", "left", "draining"} \/ task[b] \in {"read", "delete"}

\* The socket is admitted although the session may be FLUSHING or COMPLETE.
Connect(c) ==
    /\ InTurn(c)
    /\ task' = CancelPending
    /\ conn' = [conn EXCEPT ![c] = "open"]
    /\ buffer' = c
    /\ disturbed' = (disturbed \/ Busy \/ session # "active")
    /\ UNCHANGED << session, pending, stream, wav, sent, calls, faults >>

\* A wrong token or a refused employee: the pending flush is cancelled first all the same.
Refuse(c) ==
    /\ InTurn(c)
    /\ task' = CancelPending
    /\ conn' = [conn EXCEPT ![c] = "left"]
    /\ disturbed' = (disturbed \/ Busy)
    /\ UNCHANGED << session, buffer, pending, stream, wav, sent, calls, faults >>

\* xadd with maxlen, which Redis trims approximately: above the limit the oldest packets go,
\* some or all of those that are too many.
Trimmed == IF stream < StreamLimit THEN {stream + 1} ELSE StreamLimit..(stream + 1)

\* One packet: the customer's half goes to the buffer, whose transcription is left out, the
\* agent's half to Redis.
Push(c) ==
    /\ conn[c] = "open"
    /\ sent < MaxChunks
    /\ sent' = sent + 1
    /\ stream' \in Trimmed
    /\ UNCHANGED << session, conn, buffer, task, pending, wav, calls, disturbed, faults >>

\* archive_agent_chunk fails: the packet is dropped and the call goes on.
PushNotArchived(c) ==
    /\ conn[c] = "open"
    /\ sent < MaxChunks
    /\ Fault
    /\ sent' = sent + 1
    /\ disturbed' = TRUE
    /\ UNCHANGED << session, conn, buffer, flushes, calls >>

\* The client disconnects, or the security policy or an exception ends the loop.
Leave(c) ==
    /\ conn[c] = "open"
    /\ conn' = [conn EXCEPT ![c] = "left"]
    /\ UNCHANGED << session, buffer, flushes, sent, calls, disturbed, faults >>

\* Slip: an entry in pending_flushes, even of a cancelled task, counts as a timer.
TimerUnlessPending(c) ==
    IF pending = None THEN task' = [task EXCEPT ![c] = "sleep"] /\ pending' = c
                      ELSE UNCHANGED << task, pending >>

StartTimer(c) ==
    /\ task' = [task EXCEPT ![c] = "sleep"]
    /\ pending' = c

\* finally: the registered buffer is ended, this connection's or a newer one's.
Drain(c) ==
    /\ conn[c] = "left"
    /\ buffer # None
    /\ conn' = [conn EXCEPT ![c] = "draining"]
    /\ UNCHANGED << session, buffer, flushes, sent, calls, disturbed, faults >>

Close(c) ==
    /\ conn[c] = "draining" \/ (conn[c] = "left" /\ buffer = None)
    /\ conn' = [conn EXCEPT ![c] = "done"]
    /\ buffer' = None
    \* A second handler finds the entry deleted: the KeyError skips the timer.
    /\ IF conn[c] = "draining" /\ buffer = None
       THEN UNCHANGED << task, pending >>
       ELSE StartTimer(c)
    /\ UNCHANGED << session, stream, wav, sent, calls, disturbed, faults >>

----------------------------------------------------------------------------
(* background_flush and flush_live_session. *)

\* The entry is deleted whichever task it is for.
Ends(c) ==
    /\ task' = [task EXCEPT ![c] = "done"]
    /\ pending' = None

\* Slip: a session that is being flushed, or was, is flushed again.
AnyStatus == session # "absent"

Flushable == session = "active"

WindowPasses(c) ==
    /\ task[c] = "sleep"
    /\ IF Flushable
       THEN /\ session' = "flushing"
            /\ task' = [task EXCEPT ![c] = "read"]
            /\ UNCHANGED << pending, wav >>
       ELSE Ends(c) /\ UNCHANGED << session, wav >>
    /\ UNCHANGED << sockets, stream, calls, disturbed, faults >>

\* read_agent_stream
ReadStream(c) ==
    /\ task[c] = "read"
    /\ wav' = stream
    /\ task' = [task EXCEPT ![c] = "delete"]
    /\ UNCHANGED << session, sockets, pending, stream, calls, disturbed, faults >>

\* The Call of a flush, with the agent's packets that were heard; work is its message and
\* the task that takes it.
NewCall(heard, sentToWorker) ==
    calls' = Append(calls, [audio |-> heard, published |-> sentToWorker, status |-> "pending",
                            work |-> IF sentToWorker THEN "queued" ELSE "over"])

\* flush_agent_stream, then without a further await the transcription of the agent, the
\* Call, COMPLETE and the message.
AssembleWith(c, heard) ==
    /\ task[c] = "delete"
    /\ stream' = 0
    /\ NewCall(heard, TRUE)
    /\ session' = "complete"
    /\ Ends(c)
    /\ wav' = 0
    /\ UNCHANGED sockets

Assemble(c) == AssembleWith(c, wav) /\ UNCHANGED << disturbed, faults >>

\* The transcription of the agent fails: the Call is made and published without the agent.
TranscriptionFails(c) == AssembleWith(c, 0) /\ Fault /\ disturbed' = TRUE

\* The broker refuses after the commit of COMPLETE: the handler puts ACTIVE back.
PublishFails(c) ==
    /\ task[c] = "delete"
    /\ Fault
    /\ stream' = 0
    /\ NewCall(wav, FALSE)
    /\ session' = "active"
    /\ disturbed' = TRUE
    /\ Ends(c)
    /\ wav' = 0
    /\ UNCHANGED sockets

\* Anything else fails: ACTIVE again, and the audio is gone if it was deleted before.
FlushFails(c) ==
    /\ task[c] \in {"read", "delete"}
    /\ Fault
    /\ stream' = IF task[c] = "delete" THEN 0 ELSE stream
    /\ session' = "active"
    /\ disturbed' = TRUE
    /\ Ends(c)
    /\ wav' = 0
    /\ UNCHANGED << sockets, calls >>

\* The API process is restarted; its tasks and buffers are gone.
Restart ==
    /\ session # "absent"
    /\ Fault
    /\ conn' = [c \in Connections |-> IF conn[c] = "new" THEN "new" ELSE "done"]
    /\ buffer' = None
    /\ task' = [c \in Connections |-> IF task[c] = "none" THEN "none" ELSE "done"]
    /\ pending' = None
    /\ disturbed' = TRUE
    /\ UNCHANGED << session, stream, wav, sent, calls >>

----------------------------------------------------------------------------
(* evaluate_live_call_task. *)

SetCall(k, status, work) ==
    /\ calls' = [calls EXCEPT ![k].status = status, ![k].work = work]
    /\ UNCHANGED << session, sockets, flushes, disturbed >>

StartEvaluation(k) ==
    /\ calls[k].work = "queued"
    /\ SetCall(k, "processing", "running")
    /\ UNCHANGED faults

\* Slip: the result is written and EVALUATED is not.
StaysProcessing(k) == SetCall(k, "processing", "closing")

\* The outcome, the violations and EVALUATED in one commit.
StoreEvaluation(k) == SetCall(k, "evaluated", "closing")

FinishEvaluation(k) ==
    /\ calls[k].work = "running"
    /\ StoreEvaluation(k)
    /\ UNCHANGED faults

\* The status is published and the agent's mastery updated.
CloseEvaluation(k) ==
    /\ calls[k].work = "closing"
    /\ SetCall(k, calls[k].status, "over")
    /\ UNCHANGED faults

\* No campaign, no answer of the model, a breakdown that does not validate, a status that is
\* not published; after the commit too, so that an evaluated Call becomes FAILED.
EvaluationFails(k) ==
    /\ calls[k].work \in {"running", "closing"}
    /\ Fault
    /\ SetCall(k, "failed", "over")

\* The database refuses: the handler does not roll back, so its own commit raises too and
\* the Call keeps the status that was committed last, with no task to change it.
CommitRefused(k) ==
    /\ calls[k].work \in {"queued", "running", "closing"}
    /\ Fault
    /\ SetCall(k, calls[k].status, "refused")

----------------------------------------------------------------------------

Next ==
    \/ StartSession \/ Restart
    \/ \E c \in Connections :
          \/ Connect(c) \/ Refuse(c) \/ Push(c) \/ PushNotArchived(c)
          \/ Leave(c) \/ Drain(c) \/ Close(c)
          \/ WindowPasses(c) \/ ReadStream(c) \/ Assemble(c) \/ TranscriptionFails(c)
          \/ PublishFails(c) \/ FlushFails(c)
    \/ \E k \in DOMAIN calls :
          \/ StartEvaluation(k) \/ FinishEvaluation(k) \/ CloseEvaluation(k)
          \/ EvaluationFails(k) \/ CommitRefused(k)

\* The event loop runs what is ready and the timers that are due, the worker its messages;
\* nothing makes a client connect, speak or leave.
Spec ==
    /\ Init /\ [][Next]_vars
    /\ \A c \in Connections :
          WF_vars(Drain(c)) /\ WF_vars(Close(c)) /\ WF_vars(WindowPasses(c)) /\ WF_vars(ReadStream(c))
          /\ WF_vars(Assemble(c))
    /\ \A k \in 1..Cardinality(Connections) :
          WF_vars(k \in DOMAIN calls
                     /\ (StartEvaluation(k) \/ FinishEvaluation(k) \/ CloseEvaluation(k)))

----------------------------------------------------------------------------
(* Properties. *)

CallRow == [audio : 0..MaxChunks, published : BOOLEAN,
            status : {"pending", "processing", "evaluated", "failed"},
            work : {"queued", "running", "closing", "over", "refused"}]

\* Every variable holds a value of its kind.
TypeOK ==
    /\ session \in {"absent", "active", "flushing", "complete"}
    /\ conn \in [Connections -> {"new", "open", "left", "draining", "done"}]
    /\ buffer \in Connections \cup {None} /\ pending \in Connections \cup {None}
    /\ task \in [Connections -> {"none", "sleep", "read", "delete", "done"}]
    /\ stream \in 0..MaxChunks /\ sent \in 0..MaxChunks
    /\ wav \in 0..MaxChunks
    /\ calls \in Seq(CallRow)
    /\ disturbed \in BOOLEAN /\ faults \in 0..MaxFaults

\* A session is evaluated as one call: whatever reconnects, refused sockets, failures of
\* the flush and restarts there were, at most one of its Calls was given to the worker.
OneCallIsEvaluated == Cardinality({k \in DOMAIN calls : calls[k].published}) <= 1

\* A conversation that was interrupted and resumed within the window is one recording: if
\* no socket met an older one or a running flush and nothing failed, the Call has every
\* packet the agent sent, over all the connections, or, of a conversation that is longer
\* than the stream's limit, at least that many of the latest.
QuietSessionsAreWhole ==
    (session = "complete" /\ ~disturbed) =>
        /\ Len(calls) = 1
        /\ calls[1].audio <= sent
        /\ IF sent <= StreamLimit THEN calls[1].audio = sent ELSE calls[1].audio >= StreamLimit

\* A session that everybody has left does not stay open: after the window it is taken for
\* flushing, unless somebody connects again or a failure or a restart came in between.
Abandoned == session = "active" /\ (\A c \in Connections : conn[c] \in {"new", "done"})
                 /\ \E c \in Connections : conn[c] = "done"

AbandonedSessionsEnd ==
    (Abandoned /\ faults = 0) ~>
        (session # "active" \/ faults > 0 \/ \E c \in Connections : conn[c] = "open")

\* Every call that was given to the worker is evaluated or told to have failed, whatever
\* else went wrong in its task, unless the database refused a commit of the task itself.  The
\* worker does not die here; its deaths, and the recovery after them, are in CallPipeline.
PublishedCallsSettle ==
    \A k \in 1..Cardinality(Connections) :
        (k \in DOMAIN calls /\ calls[k].published) ~>
            /\ k \in DOMAIN calls
            /\ \/ calls[k].status \in {"evaluated", "failed"}
               \/ calls[k].work = "refused"
=============================================================================
