--------------------------- MODULE LiveCallProofs ---------------------------
(* A live session, for any number of sockets, packets and faults: types,    *)
(* one Call that is evaluated, and the whole conversation in it.            *)
EXTENDS LiveCall, FiniteSetTheorems, SequenceTheorems, TLAPS

\* What the types rest on: nothing is in the stream that was not sent.
Typed == TypeOK /\ stream <= sent

Statuses == {"pending", "processing", "evaluated", "failed"}
Works == {"queued", "running", "closing", "over", "refused"}

\* A Call that is appended or changes its status keeps the type of the list.
LEMMA CallsTyped ==
    ASSUME TypeOK
    PROVE  /\ \A heard \in 0..MaxChunks, sentToWorker \in BOOLEAN :
                NewCall(heard, sentToWorker) => calls' \in Seq(CallRow)
           /\ \A k \in DOMAIN calls, status \in Statuses, work \in Works :
                SetCall(k, status, work) => calls' \in Seq(CallRow)
<1>1. calls \in Seq(CallRow)
  BY DEF TypeOK
<1>2. ASSUME NEW h \in 0..MaxChunks, NEW b \in BOOLEAN, NewCall(h, b)
      PROVE  calls' \in Seq(CallRow)
  <2>1. [audio |-> h, published |-> b, status |-> "pending",
         work |-> IF b THEN "queued" ELSE "over"] \in CallRow
    BY DEF CallRow
  <2>. QED  BY <1>1, <1>2, <2>1 DEF NewCall
<1>3. ASSUME NEW k \in DOMAIN calls, NEW s \in Statuses, NEW w \in Works, SetCall(k, s, w)
      PROVE  calls' \in Seq(CallRow)
  <2>0. calls[k] \in CallRow
    BY <1>1
  <2>1. [calls[k] EXCEPT !.status = s, !.work = w] \in CallRow
    BY <2>0 DEF CallRow, Statuses, Works
  <2>2. k \in 1..Len(calls)
    BY <1>1
  <2>3. calls' = [calls EXCEPT ![k] = [calls[k] EXCEPT !.status = s, !.work = w]]
    BY <1>3 DEF SetCall
  <2>. QED  BY <1>1, <2>1, <2>2, <2>3, ExceptSeq
<1>. QED  BY <1>2, <1>3

\* A step of an evaluation, as one of the disjuncts of Next.
Evaluates(k) ==
    \/ StartEvaluation(k) \/ FinishEvaluation(k) \/ CloseEvaluation(k)
    \/ EvaluationFails(k) \/ CommitRefused(k)

\* The evaluation of a Call changes its status and its task only.
LEMMA EvaluationSetsStatus ==
    ASSUME TypeOK, NEW k \in DOMAIN calls, Evaluates(k)
    PROVE  /\ \E status \in Statuses : \E work \in Works : SetCall(k, status, work)
           /\ UNCHANGED << session, sockets, flushes, disturbed >>
           /\ faults' \in {faults, faults + 1} /\ (faults' = faults \/ faults < MaxFaults)
<1>1. calls[k].status \in Statuses
  <2>1. calls[k] \in CallRow
    BY DEF TypeOK
  <2>. QED  BY <2>1 DEF CallRow, Statuses
<1>2. \E status \in Statuses : \E work \in Works : SetCall(k, status, work)
  <2>1. CASE StartEvaluation(k)  BY <2>1 DEF StartEvaluation, Statuses, Works
  <2>2. CASE FinishEvaluation(k)
    BY <2>2 DEF FinishEvaluation, StoreEvaluation, Statuses, Works
  <2>3. CASE CloseEvaluation(k)  BY <2>3, <1>1 DEF CloseEvaluation, Works
  <2>4. CASE EvaluationFails(k)  BY <2>4 DEF EvaluationFails, Statuses, Works
  <2>5. CASE CommitRefused(k)  BY <2>5, <1>1 DEF CommitRefused, Works
  <2>. QED  BY <2>1, <2>2, <2>3, <2>4, <2>5 DEF Evaluates
<1>3. UNCHANGED << session, sockets, flushes, disturbed >>
  BY <1>2 DEF SetCall
<1>4. faults' \in {faults, faults + 1} /\ (faults' = faults \/ faults < MaxFaults)
  BY DEF Evaluates, StartEvaluation, FinishEvaluation, CloseEvaluation, EvaluationFails,
         CommitRefused, Fault
<1>. QED  BY <1>2, <1>3, <1>4

LEMMA InitTyped == Init => Typed
<1>. SUFFICES ASSUME Init PROVE Typed
  OBVIOUS
<1>1. MaxChunks \in Nat /\ MaxFaults \in Nat
  BY LiveAssumption
<1>2. /\ conn \in [Connections -> {"new", "open", "left", "draining", "done"}]
      /\ task \in [Connections -> {"none", "sleep", "read", "delete", "done"}]
      /\ calls \in Seq(CallRow)
  BY DEF Init
<1>3. /\ session \in {"absent", "active", "flushing", "complete"}
      /\ buffer \in Connections \cup {None} /\ pending \in Connections \cup {None}
      /\ stream \in 0..MaxChunks /\ sent \in 0..MaxChunks /\ wav \in 0..MaxChunks
      /\ faults \in 0..MaxFaults /\ stream <= sent
  BY <1>1 DEF Init
<1>4. disturbed \in BOOLEAN
  BY DEF Init
<1>. QED  BY <1>2, <1>3, <1>4 DEF Typed, TypeOK

\* One action after the other keeps the types.
LEMMA StepTyped == Typed /\ [Next]_vars => Typed'
<1>. SUFFICES ASSUME Typed, [Next]_vars PROVE Typed'
  OBVIOUS
<1>0. MaxChunks \in Nat /\ MaxFaults \in Nat /\ Connections \subseteq Nat
  BY LiveAssumption
<1>. USE <1>0 DEF Typed, TypeOK, sockets, flushes, Fault
<1>1. CASE StartSession  BY <1>1 DEF StartSession
<1>2. CASE Restart  BY <1>2 DEF Restart
<1>3. ASSUME NEW c \in Connections, Connect(c) PROVE Typed'
  BY <1>3 DEF Connect, CancelPending, Busy
<1>4. ASSUME NEW c \in Connections, Refuse(c) PROVE Typed'
  BY <1>4 DEF Refuse, CancelPending, Busy
<1>5. ASSUME NEW c \in Connections, Push(c) PROVE Typed'
  <2>1. stream' \in 0..MaxChunks /\ stream' <= sent'
    BY <1>5, LiveAssumption DEF Push, Trimmed
  <2>. QED  BY <1>5, <2>1 DEF Push
<1>6. ASSUME NEW c \in Connections, PushNotArchived(c) PROVE Typed'
  BY <1>6 DEF PushNotArchived
<1>7. ASSUME NEW c \in Connections, Leave(c) PROVE Typed'
  BY <1>7 DEF Leave
<1>8. ASSUME NEW c \in Connections, Drain(c) PROVE Typed'
  BY <1>8 DEF Drain
<1>9. ASSUME NEW c \in Connections, Close(c) PROVE Typed'
  BY <1>9 DEF Close, StartTimer
<1>10. ASSUME NEW c \in Connections, WindowPasses(c) PROVE Typed'
  BY <1>10 DEF WindowPasses, Ends, Flushable
<1>11. ASSUME NEW c \in Connections, ReadStream(c) PROVE Typed'
  BY <1>11 DEF ReadStream
<1>12. ASSUME NEW c \in Connections, Assemble(c) \/ TranscriptionFails(c) PROVE Typed'
  <2>0. wav \in 0..MaxChunks /\ 0 \in 0..MaxChunks
    OBVIOUS
  <2>1. PICK heard \in 0..MaxChunks : AssembleWith(c, heard)
    BY <1>12, <2>0 DEF Assemble, TranscriptionFails
  <2>2. calls' \in Seq(CallRow)  BY <2>1, CallsTyped DEF AssembleWith
  <2>3. disturbed' \in BOOLEAN /\ faults' \in 0..MaxFaults
    <3>1. CASE Assemble(c)  BY <3>1 DEF Assemble
    <3>2. CASE TranscriptionFails(c)
      <4>1. disturbed' = TRUE /\ faults < MaxFaults /\ faults' = faults + 1
        BY <3>2 DEF TranscriptionFails
      <4>. QED  BY <4>1
    <3>. QED  BY <1>12, <3>1, <3>2
  <2>. QED  BY <2>1, <2>2, <2>3 DEF AssembleWith, Ends
<1>13. ASSUME NEW c \in Connections, PublishFails(c) PROVE Typed'
  <2>1. calls' \in Seq(CallRow)  BY <1>13, CallsTyped DEF PublishFails
  <2>. QED  BY <1>13, <2>1 DEF PublishFails, Ends
<1>14. ASSUME NEW c \in Connections, FlushFails(c) PROVE Typed'
  BY <1>14 DEF FlushFails, Ends
<1>15. ASSUME NEW k \in DOMAIN calls, Evaluates(k) PROVE Typed'
  <2>1. PICK status \in Statuses : \E work \in Works : SetCall(k, status, work)
    BY <1>15, EvaluationSetsStatus
  <2>2. calls' \in Seq(CallRow)
    BY <2>1, CallsTyped
  <2>3. UNCHANGED << session, sockets, flushes, disturbed >> /\ faults' \in 0..MaxFaults
    BY <1>15, EvaluationSetsStatus
  <2>. QED  BY <2>2, <2>3
<1>16. CASE UNCHANGED vars  BY <1>16 DEF vars
<1>. QED
  BY <1>1, <1>2, <1>3, <1>4, <1>5, <1>6, <1>7, <1>8, <1>9, <1>10, <1>11, <1>12, <1>13,
     <1>14, <1>15, <1>16 DEF Next, Evaluates

\* Every variable of a live session keeps its type, whatever sockets, failures and
\* restarts there are.
THEOREM TypeCorrect == Spec => []TypeOK
<1>1. Typed => TypeOK  BY DEF Typed
<1>. QED  BY <1>1, InitTyped, StepTyped, PTL DEF Spec

----------------------------------------------------------------------------
(* One Call that is evaluated. *)

Flushing(c) == task[c] \in {"read", "delete"}

\* The flush owns the session: FLUSHING is its lock, and COMPLETE is never left.
FlushInv ==
    /\ \A c, d \in Connections : Flushing(c) /\ Flushing(d) => c = d
    /\ \A c \in Connections : Flushing(c) => session = "flushing"
    /\ \A k \in DOMAIN calls : calls[k].published => session = "complete"
    /\ \A j, k \in DOMAIN calls : calls[j].published /\ calls[k].published => j = k

\* A change of a Call's status leaves its audio and whether it was published.
LEMMA SetCallKeeps ==
    ASSUME Typed, NEW k \in DOMAIN calls, NEW status, NEW work, SetCall(k, status, work)
    PROVE  /\ DOMAIN calls' = DOMAIN calls
           /\ Len(calls') = Len(calls)
           /\ \A j \in DOMAIN calls : calls'[j].published = calls[j].published
                                      /\ calls'[j].audio = calls[j].audio
<1>1. calls \in Seq(CallRow) /\ DOMAIN calls = 1..Len(calls)
  BY DEF Typed, TypeOK
<1>2. calls' = [calls EXCEPT ![k] = [calls[k] EXCEPT !.status = status, !.work = work]]
  BY DEF SetCall
<1>3. \A j \in DOMAIN calls : calls[j] \in CallRow
  BY <1>1
<1>4. DOMAIN calls' = DOMAIN calls
  BY <1>2
<1>5. ASSUME NEW j \in DOMAIN calls
      PROVE calls'[j].published = calls[j].published /\ calls'[j].audio = calls[j].audio
  BY <1>2, <1>3 DEF CallRow
<1>. QED  BY <1>1, <1>2, <1>4, <1>5

\* A new Call is the last of the list.
LEMMA NewCallKeeps ==
    ASSUME Typed, NEW h \in 0..MaxChunks, NEW b \in BOOLEAN, NewCall(h, b)
    PROVE  /\ DOMAIN calls' = 1..(Len(calls) + 1) /\ Len(calls') = Len(calls) + 1
           /\ DOMAIN calls = 1..Len(calls) /\ Len(calls) \in Nat
           /\ \A j \in DOMAIN calls : calls'[j] = calls[j]
           /\ calls'[Len(calls) + 1].published = b
           /\ calls'[Len(calls) + 1].audio = h
<1>1. calls \in Seq(CallRow)
  BY DEF Typed, TypeOK
<1> DEFINE row == [audio |-> h, published |-> b, status |-> "pending",
                   work |-> IF b THEN "queued" ELSE "over"]
<1>2. row \in CallRow
  BY DEF CallRow
<1>3. row.published = b /\ row.audio = h
  OBVIOUS
<1>4. calls' = Append(calls, row)
  BY DEF NewCall
<1> HIDE DEF row
<1>5. /\ DOMAIN calls' = 1..(Len(calls) + 1) /\ Len(calls') = Len(calls) + 1
      /\ DOMAIN calls = 1..Len(calls) /\ Len(calls) \in Nat
      /\ \A j \in DOMAIN calls : calls'[j] = calls[j]
      /\ calls'[Len(calls) + 1] = row
  BY <1>1, <1>2, <1>4, AppendProperties
<1>. QED  BY <1>3, <1>5

LEMMA StepFlush == Typed /\ FlushInv /\ [Next]_vars => FlushInv'
<1>. SUFFICES ASSUME Typed, FlushInv, [Next]_vars PROVE FlushInv'
  OBVIOUS
<1>0. task \in [Connections -> {"none", "sleep", "read", "delete", "done"}]
  BY DEF Typed, TypeOK
<1>. USE DEF FlushInv, Flushing
<1>1. ASSUME UNCHANGED << session, task, calls >> PROVE FlushInv'
  BY <1>1
<1>2. CASE StartSession  BY <1>2 DEF StartSession, flushes
<1>3. CASE Restart  BY <1>3, <1>0 DEF Restart
<1>4. ASSUME NEW c \in Connections, Connect(c) \/ Refuse(c) PROVE FlushInv'
  BY <1>4, <1>0 DEF Connect, Refuse, CancelPending
<1>5. ASSUME NEW c \in Connections, Push(c) \/ PushNotArchived(c) \/ Leave(c) \/ Drain(c)
      PROVE  FlushInv'
  BY <1>5, <1>1 DEF Push, PushNotArchived, Leave, Drain, flushes
<1>6. ASSUME NEW c \in Connections, Close(c) PROVE FlushInv'
  BY <1>6, <1>0 DEF Close, StartTimer
<1>7. ASSUME NEW c \in Connections, WindowPasses(c) PROVE FlushInv'
  BY <1>7, <1>0 DEF WindowPasses, Ends, Flushable
<1>8. ASSUME NEW c \in Connections, ReadStream(c) PROVE FlushInv'
  BY <1>8, <1>0 DEF ReadStream
<1>9. ASSUME NEW c \in Connections, Assemble(c) \/ TranscriptionFails(c) PROVE FlushInv'
  <2>0. wav \in 0..MaxChunks /\ 0 \in 0..MaxChunks
    BY LiveAssumption DEF Typed, TypeOK
  <2>1. PICK heard \in 0..MaxChunks :
            NewCall(heard, TRUE) /\ session' = "complete" /\ task' = [task EXCEPT ![c] = "done"]
            /\ task[c] = "delete"
    BY <1>9, <2>0 DEF Assemble, TranscriptionFails, AssembleWith, Ends
  <2>2. \A k \in DOMAIN calls : ~calls[k].published
    BY <2>1
  <2>3. \A d \in Connections : ~Flushing(d)'
    BY <2>1, <1>0
  <2>4. /\ DOMAIN calls' = 1..(Len(calls) + 1)
        /\ DOMAIN calls = 1..Len(calls) /\ Len(calls) \in Nat
        /\ \A j \in DOMAIN calls : calls'[j] = calls[j]
        /\ calls'[Len(calls) + 1].published = TRUE
    BY <2>1, NewCallKeeps
  <2>. QED  BY <2>1, <2>2, <2>3, <2>4
<1>10. ASSUME NEW c \in Connections, PublishFails(c) PROVE FlushInv'
  <2>0. wav \in 0..MaxChunks
    BY DEF Typed, TypeOK
  <2>1. NewCall(wav, FALSE) /\ task' = [task EXCEPT ![c] = "done"] /\ task[c] = "delete"
    BY <1>10 DEF PublishFails, Ends
  <2>2. \A k \in DOMAIN calls : ~calls[k].published
    BY <2>1
  <2>3. \A d \in Connections : ~Flushing(d)'
    BY <2>1, <1>0
  <2>4. /\ DOMAIN calls' = 1..(Len(calls) + 1)
        /\ DOMAIN calls = 1..Len(calls) /\ Len(calls) \in Nat
        /\ \A j \in DOMAIN calls : calls'[j] = calls[j]
        /\ calls'[Len(calls) + 1].published = FALSE
    BY <2>0, <2>1, NewCallKeeps
  <2>. QED  BY <2>1, <2>2, <2>3, <2>4
<1>11. ASSUME NEW c \in Connections, FlushFails(c) PROVE FlushInv'
  BY <1>11, <1>0 DEF FlushFails, Ends
<1>12. ASSUME NEW k \in DOMAIN calls, Evaluates(k) PROVE FlushInv'
  <2>1. PICK status \in Statuses : \E work \in Works : SetCall(k, status, work)
    BY <1>12, EvaluationSetsStatus DEF Typed
  <2>. QED  BY <2>1, <1>12, EvaluationSetsStatus, SetCallKeeps DEF flushes, Typed
<1>13. CASE UNCHANGED vars  BY <1>13, <1>1 DEF vars
<1>. QED
  BY <1>2, <1>3, <1>4, <1>5, <1>6, <1>7, <1>8, <1>9, <1>10, <1>11, <1>12, <1>13
  DEF Next, Evaluates

LEMMA AtMostOne ==
    ASSUME NEW S, \A x, y \in S : x = y
    PROVE  IsFiniteSet(S) /\ Cardinality(S) <= 1
<1>1. CASE S = {}
  BY <1>1, FS_EmptySet
<1>2. CASE S # {}
  <2>1. PICK x \in S : TRUE
    BY <1>2
  <2>2. S = {x}
    BY <2>1
  <2>3. IsFiniteSet({x}) /\ Cardinality({x}) = 1
    BY FS_Singleton
  <2>. QED  BY <2>2, <2>3
<1>. QED  BY <1>1, <1>2

\* Whatever reconnects, refused sockets, failures of the flush and restarts there are, for
\* any number of sockets, at most one Call of a session is given to the worker.
THEOREM EvaluatedOnce == Spec => []OneCallIsEvaluated
<1>1. Init => FlushInv
  BY DEF Init, FlushInv, Flushing
<1>2. FlushInv => OneCallIsEvaluated
  BY AtMostOne DEF FlushInv, OneCallIsEvaluated
<1>. QED  BY <1>1, <1>2, InitTyped, StepTyped, StepFlush, PTL DEF Spec

----------------------------------------------------------------------------
(* The whole conversation in it. *)

Here(c) == conn[c] \in {"open", "left", "draining"}

\* What a quiet session keeps of n packets: all, or at least the latest StreamLimit.
Kept(amount, n) ==
    amount <= n /\ IF n <= StreamLimit THEN amount = n ELSE amount >= StreamLimit

\* As long as nothing disturbed the session, its sockets follow one another, the timer is
\* the one in pending_flushes, and the stream keeps what was sent until it is read.
QuietInv ==
    ~disturbed =>
        /\ \A c \in Connections : task[c] \notin {"none", "done"} => pending = c
        /\ \A c, d \in Connections : Here(c) => (Here(d) => c = d) /\ task[d] \in {"none", "done"}
        /\ \A c \in Connections : conn[c] = "open" => session = "active"
        /\ session \in {"absent", "active", "flushing"} => Kept(stream, sent) /\ calls = << >>
        /\ \A c \in Connections : task[c] = "delete" => wav = stream
        /\ session = "complete" => Len(calls) = 1 /\ Kept(calls[1].audio, sent)

LEMMA StepQuiet == Typed /\ FlushInv /\ QuietInv /\ [Next]_vars => QuietInv'
<1>. SUFFICES ASSUME Typed, FlushInv, QuietInv, [Next]_vars, ~disturbed' PROVE QuietInv'
  BY DEF QuietInv
<1>0. /\ task \in [Connections -> {"none", "sleep", "read", "delete", "done"}]
      /\ conn \in [Connections -> {"new", "open", "left", "draining", "done"}]
      /\ session \in {"absent", "active", "flushing", "complete"}
      /\ stream \in Nat /\ sent \in Nat /\ wav \in Nat
      /\ None \notin Connections
  BY LiveAssumption DEF Typed, TypeOK
<1>. USE DEF QuietInv, Here
<1>2. CASE StartSession  BY <1>2 DEF StartSession, flushes, sockets
<1>3. ~Restart /\ \A c \in Connections : ~PushNotArchived(c) /\ ~PublishFails(c)
                                         /\ ~FlushFails(c) /\ ~TranscriptionFails(c)
  BY DEF Restart, PushNotArchived, PublishFails, FlushFails, TranscriptionFails
<1>4. ASSUME NEW c \in Connections, Connect(c) PROVE QuietInv'
  <2>1. ~disturbed /\ ~Busy /\ session = "active" /\ UNCHANGED << session, pending, stream, sent, wav, calls >>
    BY <1>4 DEF Connect
  <2>2. \A d \in Connections : ~Here(d) /\ task[d] \notin {"read", "delete"}
    BY <2>1 DEF Busy
  <2>3. \A d \in Connections : task'[d] \in {"none", "done"}
    BY <1>4, <1>0, <2>1, <2>2 DEF Connect, CancelPending
  <2>4. conn' = [conn EXCEPT ![c] = "open"]
    BY <1>4 DEF Connect
  <2>. QED  BY <1>0, <2>1, <2>2, <2>3, <2>4
<1>5. ASSUME NEW c \in Connections, Refuse(c) PROVE QuietInv'
  <2>1. ~disturbed /\ ~Busy /\ UNCHANGED << session, pending, stream, sent, wav, calls >>
    BY <1>5 DEF Refuse
  <2>2. \A d \in Connections : ~Here(d) /\ task[d] \notin {"read", "delete"}
    BY <2>1 DEF Busy
  <2>3. \A d \in Connections : task'[d] \in {"none", "done"}
    BY <1>5, <1>0, <2>1, <2>2 DEF Refuse, CancelPending
  <2>4. conn' = [conn EXCEPT ![c] = "left"]
    BY <1>5 DEF Refuse
  <2>. QED  BY <1>0, <2>1, <2>2, <2>3, <2>4
<1>6. ASSUME NEW c \in Connections, Push(c) PROVE QuietInv'
  <2>1. StreamLimit \in Nat \ {0}
    BY LiveAssumption
  <2>2. stream' \in Trimmed /\ sent' = sent + 1
        /\ UNCHANGED << session, conn, task, pending, wav, calls, disturbed >> /\ conn[c] = "open"
    BY <1>6 DEF Push
  <2>3. Kept(stream, sent) => Kept(stream', sent')
    BY <1>0, <2>1, <2>2 DEF Trimmed, Kept
  <2>4. ~disturbed /\ session = "active"
    BY <2>2
  <2>5. \A d \in Connections : task[d] # "delete"
    BY <2>2, <2>4
  <2>. QED  BY <2>2, <2>3, <2>4, <2>5
<1>7. ASSUME NEW c \in Connections, Leave(c) \/ Drain(c) PROVE QuietInv'
  BY <1>7, <1>0 DEF Leave, Drain, flushes
<1>8. ASSUME NEW c \in Connections, Close(c) PROVE QuietInv'
  BY <1>8, <1>0 DEF Close, StartTimer
<1>9. ASSUME NEW c \in Connections, WindowPasses(c) PROVE QuietInv'
  BY <1>9, <1>0 DEF WindowPasses, Ends, Flushable, sockets
<1>10. ASSUME NEW c \in Connections, ReadStream(c) PROVE QuietInv'
  BY <1>10, <1>0 DEF ReadStream, sockets
<1>11. ASSUME NEW c \in Connections, Assemble(c) PROVE QuietInv'
  <2>0. wav \in 0..MaxChunks
    BY DEF Typed, TypeOK
  <2>1. /\ NewCall(wav, TRUE) /\ session' = "complete" /\ task[c] = "delete"
        /\ task' = [task EXCEPT ![c] = "done"] /\ ~disturbed
        /\ UNCHANGED << conn, sent >>
    BY <1>11 DEF Assemble, AssembleWith, Ends, sockets
  <2>2. session = "flushing"
    BY <2>1 DEF FlushInv, Flushing
  <2>3. calls = << >> /\ Kept(wav, sent)
    BY <2>1, <2>2
  <2>4. Len(calls') = Len(calls) + 1 /\ calls'[Len(calls) + 1].audio = wav
    BY <2>0, <2>1, NewCallKeeps
  <2>6. Len(calls') = 1 /\ Kept(calls'[1].audio, sent)
    BY <2>3, <2>4
  <2>5. \A d \in Connections : ~Here(d) /\ task'[d] \in {"none", "done"}
    BY <1>0, <2>1
  <2>. QED  BY <2>1, <2>5, <2>6 DEF Kept
<1>12. ASSUME NEW k \in DOMAIN calls, Evaluates(k) PROVE QuietInv'
  <2>1. calls # << >> /\ UNCHANGED << session, sockets, flushes, disturbed >>
    BY <1>12, EvaluationSetsStatus DEF Typed
  <2>2. PICK status \in Statuses : \E work \in Works : SetCall(k, status, work)
    BY <1>12, EvaluationSetsStatus DEF Typed
  <2>3. 1 \in DOMAIN calls
    BY <2>1 DEF Typed, TypeOK
  <2>. QED  BY <2>1, <2>2, <2>3, SetCallKeeps, <1>0 DEF sockets, flushes, Kept
<1>13. CASE UNCHANGED vars  BY <1>13 DEF vars
<1>. QED
  BY <1>2, <1>3, <1>4, <1>5, <1>6, <1>7, <1>8, <1>9, <1>10, <1>11, <1>12, <1>13
  DEF Next, Evaluates

\* A conversation over any number of sockets, one after the other and with no failure, is
\* one Call with every packet that was sent, up to the stream's limit, and with at least
\* that many of the latest of a longer one.
THEOREM WholeConversation == Spec => []QuietSessionsAreWhole
<1>1. Init => FlushInv /\ QuietInv
  BY LiveAssumption DEF Init, FlushInv, Flushing, QuietInv, Here, Kept
<1>2. QuietInv => QuietSessionsAreWhole
  BY DEF QuietInv, QuietSessionsAreWhole, Kept
<1>. QED  BY <1>1, <1>2, InitTyped, StepTyped, StepFlush, StepQuiet, PTL DEF Spec
=============================================================================
