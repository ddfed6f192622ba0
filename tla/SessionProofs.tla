--------------------------- MODULE SessionProofs ---------------------------
(***************************************************************************)
(* Theorems about SessionWorker and BevySession.                           *)
(*                                                                         *)
(* SessionWorker, for every number of sessions, of threads that submit     *)
(* commands, and every capacity of a command queue: it keeps what it       *)
(* accepts, reports its end honestly, and implements Lifecycle step by     *)
(* step. BevySession, for every number of sessions an application attaches *)
(* and detaches: the slot uses a session the way its owner may, so the     *)
(* session keeps the promise of Lifecycle there too, frames follow the     *)
(* slot, and what has left it is over.                                     *)
(***************************************************************************)
EXTENDS BevySession, SequenceTheorems, TLAPS

\* Taking the head of a queue, or appending to it, keeps its type.
LEMMA QueueTypes ==
  ASSUME NEW S, NEW s \in Seq(S)
  PROVE  /\ <<>> \in Seq(S)
         /\ \A e \in S : Append(s, e) \in Seq(S)
         /\ s # <<>> => Head(s) \in S /\ Tail(s) \in Seq(S)
  OBVIOUS

\* What is appended to the second of two sequences is appended to both.
LEMMA AppendLast ==
  ASSUME NEW S, NEW t \in Seq(S), NEW s \in Seq(S), NEW e \in S
  PROVE  t \o Append(s, e) = Append(t \o s, e)
<1>1. /\ Append(s, e) = s \o <<e>> /\ <<e>> \in Seq(S)
      /\ t \o s \in Seq(S) /\ Append(t \o s, e) = (t \o s) \o <<e>>
  OBVIOUS
<1> QED
  BY <1>1, ConcatAssociative

\* A head moves from one sequence to the one before it.
LEMMA MoveHead ==
  ASSUME NEW S, NEW t \in Seq(S), NEW s \in Seq(S), s # <<>>
  PROVE  Append(t, Head(s)) \o Tail(s) = t \o s
<1>1. /\ Head(s) \in S /\ Tail(s) \in Seq(S) /\ <<Head(s)>> \in Seq(S)
      /\ Append(t, Head(s)) = t \o <<Head(s)>>
  OBVIOUS
<1>2. <<Head(s)>> \o Tail(s) = s
  OBVIOUS
<1> QED
  BY <1>1, <1>2, ConcatAssociative

\* After the first of two sequences comes the head of the second.
LEMMA NextElement ==
  ASSUME NEW S, NEW t \in Seq(S), NEW s \in Seq(S), s # <<>>
  PROVE  Len(t) < Len(t \o s) /\ (t \o s)[Len(t) + 1] = Head(s)
<1>1. Len(s) \in Nat /\ Len(s) > 0 /\ Len(t) \in Nat /\ Head(s) = s[1]
  OBVIOUS
<1>2. /\ Len(t \o s) = Len(t) + Len(s)
      /\ \A i \in 1 .. Len(t) + Len(s) :
           (t \o s)[i] = IF i <= Len(t) THEN t[i] ELSE s[i - Len(t)]
  OBVIOUS
<1>3. (Len(t) + 1) \in 1 .. Len(t) + Len(s) /\ ~(Len(t) + 1 <= Len(t)) /\ (Len(t) + 1) - Len(t) = 1
  BY <1>1
<1> QED
  BY <1>1, <1>2, <1>3

-----------------------------------------------------------------------------
\* The inductive invariant

\* A worker that is not live yet has been given no command and nobody has seen its end.
StartInv ==
  \A s \in Sessions :
    thread[s] \in {"none", "spawned", "starting"} =>
      /\ status[s] \in {"connecting", "preparing"} /\ result[s] = "none"
      /\ queue[s] = <<>> /\ accepted[s] = <<>> /\ taken[s] = <<>>
      /\ \A u \in Callers : found[u] # s

\* The status agrees with the thread until a join has observed the end, and from then
\* on with the result.
EndInv ==
  \A s \in Sessions :
    /\ thread[s] = "none" <=> owner[s] = "none"
    /\ thread[s] = "live" => status[s] = "live"
    /\ result[s] = "none" => status[s] \in {"connecting", "preparing", "live"}
    /\ result[s] # "none" => /\ thread[s] \in Ended
                             /\ status[s] = IF result[s] = "ok" THEN "stopped" ELSE "failed"
    /\ result[s] = "ok" => asked[s] /\ thread[s] = "ok"
    /\ cancelled[s] => asked[s] \/ result[s] # "none"
    /\ owner[s] = "dropped" => result[s] # "none"

\* A dedicated server's receiver is gone before anyone can submit, an ended worker's at
\* once.
ReceiverInv ==
  \A s \in Sessions :
    /\ thread[s] \in Ended => ~receiver[s]
    /\ kind[s] = "dedicated" /\ thread[s] # "spawned" => ~receiver[s]

WorkerInv == TypeOK /\ StartInv /\ EndInv /\ ReceiverInv /\ AcceptedIsKept

\* The invariant holds before any session is opened.
LEMMA WorkerInit == Init => WorkerInv
<1> SUFFICES ASSUME Init PROVE WorkerInv
  OBVIOUS
<1>1. TypeOK
  BY QueueTypes, SessionAssumption DEF Init, TypeOK, Running, Ended
<1>2. StartInv
  BY SessionAssumption DEF Init, StartInv
<1>3. EndInv
  BY DEF Init, EndInv, Ended
<1>4. ReceiverInv
  BY DEF Init, ReceiverInv, Ended
<1>5. AcceptedIsKept
  <2>1. <<>> \o <<>> = <<>>
    OBVIOUS
  <2> QED
    BY <2>1 DEF Init, AcceptedIsKept
<1> QED
  BY <1>1, <1>2, <1>3, <1>4, <1>5 DEF WorkerInv

\* The variables keep their types.
LEMMA TypeStep == TypeOK /\ [Next]_vars => TypeOK'
<1> SUFFICES ASSUME TypeOK, [Next]_vars PROVE TypeOK'
  OBVIOUS
<1> USE DEF TypeOK, Running, Ended
<1>1. ASSUME NEW s \in Sessions, NEW k \in Kinds, StartSession(s, k) PROVE TypeOK'
  BY <1>1, SessionAssumption DEF StartSession, worker, control, commands, call, history
<1>2. ASSUME NEW s \in Sessions, BeginWork(s) PROVE TypeOK'
  BY <1>2 DEF BeginWork, HasReceiver, worker, control, commands, call, history
<1>3. ASSUME NEW s \in Sessions, Prepare(s) PROVE TypeOK'
  BY <1>3 DEF Prepare, Published, worker, control, commands, call, history
<1>4. ASSUME NEW s \in Sessions, GoLive(s) PROVE TypeOK'
  BY <1>4 DEF GoLive, worker, control, commands, call, history
<1>5. ASSUME NEW s \in Sessions, Drain(s) PROVE TypeOK'
  <2>1. /\ queue[s] \in Seq(Callers) /\ queue[s] # <<>>
        /\ taken[s] \in Seq(Callers) /\ discarded[s] \in Seq(Callers)
    BY <1>5 DEF Drain
  <2>2. Head(queue[s]) \in Callers /\ Tail(queue[s]) \in Seq(Callers)
    BY <2>1, QueueTypes
  <2>3. /\ Append(taken[s], Head(queue[s])) \in Seq(Callers)
        /\ Append(discarded[s], Head(queue[s])) \in Seq(Callers)
    BY <2>1, <2>2, QueueTypes
  <2>4. /\ queue' \in [Sessions -> Seq(Callers)]
        /\ taken' \in [Sessions -> Seq(Callers)]
        /\ discarded' \in [Sessions -> Seq(Callers)]
    BY <1>5, <2>2, <2>3 DEF Drain
  <2> QED
    BY <1>5, <2>4 DEF Drain, worker, control, commands, call, history
<1>6. ASSUME NEW s \in Sessions, SeeCancel(s) \/ Fail(s) \/ Panic(s) PROVE TypeOK'
  <2>1. PICK how \in Ended : Return(s, how)
    BY <1>6 DEF SeeCancel, Fail, Panic
  <2>2. queue' \in [Sessions -> Seq(Callers)]
    BY <2>1, QueueTypes DEF Return
  <2> QED
    BY <2>1, <2>2 DEF Return, worker, control, commands, call, history
<1>7. ASSUME NEW u \in Callers, NEW s \in Sessions, CheckFlag(u, s) PROVE TypeOK'
  BY <1>7 DEF CheckFlag, worker, control, commands, call, history
<1>8. ASSUME NEW u \in Callers, CheckLive(u) PROVE TypeOK'
  BY <1>8, SessionAssumption DEF CheckLive, worker, control, commands, call, history
<1>9. ASSUME NEW u \in Callers, Send(u) PROVE TypeOK'
  <2>1. found[u] \in Sessions
    BY <1>9 DEF Send
  <2>2. /\ Append(queue[found[u]], u) \in Seq(Callers)
        /\ Append(accepted[found[u]], u) \in Seq(Callers)
    BY <2>1, QueueTypes
  <2>3. queue' \in [Sessions -> Seq(Callers)]
    <3>1. queue' = queue \/ queue' = [queue EXCEPT ![found[u]] = Append(queue[found[u]], u)]
      BY <1>9 DEF Send
    <3> QED
      BY <2>2, <3>1
  <2>4. accepted' \in [Sessions -> Seq(Callers)]
    <3>1. \/ accepted' = accepted
          \/ accepted' = [accepted EXCEPT ![found[u]] = Append(accepted[found[u]], u)]
      BY <1>9 DEF Send
    <3> QED
      BY <2>2, <3>1
  <2> QED
    BY <1>9, <2>3, <2>4 DEF Send, worker, control, commands, call, history
<1>10. ASSUME NEW s \in Sessions, Poll(s) PROVE TypeOK'
  BY <1>10 DEF Poll, Join, Verdict, worker, control, commands, call, history
<1>11. ASSUME NEW s \in Sessions, CallJoin(s) PROVE TypeOK'
  BY <1>11 DEF CallJoin, worker, control, commands, call, history
<1>12. ASSUME NEW s \in Sessions, Cancel(s) PROVE TypeOK'
  BY <1>12 DEF Cancel, RequestCancel, worker, control, commands, call, history
<1>13. ASSUME NEW s \in Sessions, CallShutdown(s) PROVE TypeOK'
  BY <1>13 DEF CallShutdown, RequestCancel, worker, control, commands, call, history
<1>14. ASSUME NEW s \in Sessions, Joined(s) PROVE TypeOK'
  BY <1>14 DEF Joined, Join, Verdict, worker, control, commands, call, history
<1>15. CASE UNCHANGED vars
  BY <1>15 DEF vars, worker, control, commands, call, history
<1> QED
  BY <1>1, <1>2, <1>3, <1>4, <1>5, <1>6, <1>7, <1>8, <1>9, <1>10, <1>11, <1>12,
     <1>13, <1>14, <1>15 DEF Next, WorkerStep, Submission, OwnerStep

\* Nothing is accepted before the session is live.
LEMMA StartStep == TypeOK /\ StartInv /\ EndInv /\ [Next]_vars => StartInv'
<1> SUFFICES ASSUME TypeOK, StartInv, EndInv, [Next]_vars PROVE StartInv'
  OBVIOUS
<1> USE DEF TypeOK, StartInv, EndInv, Running, Ended
<1>1. ASSUME NEW s \in Sessions, NEW k \in Kinds, StartSession(s, k) PROVE StartInv'
  BY <1>1 DEF StartSession, worker, control, commands, call, history
<1>2. ASSUME NEW s \in Sessions, BeginWork(s) PROVE StartInv'
  BY <1>2 DEF BeginWork, HasReceiver, worker, control, commands, call, history
<1>3. ASSUME NEW s \in Sessions, Prepare(s) PROVE StartInv'
  BY <1>3 DEF Prepare, Published, worker, control, commands, call, history
<1>4. ASSUME NEW s \in Sessions, GoLive(s) PROVE StartInv'
  BY <1>4 DEF GoLive, worker, control, commands, call, history
<1>5. ASSUME NEW s \in Sessions, Drain(s) PROVE StartInv'
  BY <1>5 DEF Drain, worker, control, commands, call, history
<1>6. ASSUME NEW s \in Sessions, SeeCancel(s) \/ Fail(s) \/ Panic(s) PROVE StartInv'
  BY <1>6 DEF SeeCancel, Fail, Panic, Return, worker, control, commands, call, history
<1>7. ASSUME NEW u \in Callers, NEW s \in Sessions, CheckFlag(u, s) PROVE StartInv'
  BY <1>7 DEF CheckFlag, worker, control, commands, call, history
<1>8. ASSUME NEW u \in Callers, CheckLive(u) PROVE StartInv'
  BY <1>8, SessionAssumption DEF CheckLive, worker, control, commands, call, history
<1>9. ASSUME NEW u \in Callers, Send(u) PROVE StartInv'
  <2>1. /\ found[u] \in Sessions
        /\ thread[found[u]] \notin {"none", "spawned", "starting"}
    BY <1>9 DEF Send
  <2>2. \A s \in Sessions \ {found[u]} : queue'[s] = queue[s] /\ accepted'[s] = accepted[s]
    BY <1>9 DEF Send
  <2> QED
    BY <1>9, <2>1, <2>2, SessionAssumption DEF Send, worker, control, commands, call, history
<1>10. ASSUME NEW s \in Sessions, Poll(s) PROVE StartInv'
  BY <1>10 DEF Poll, Join, Verdict, worker, control, commands, call, history
<1>11. ASSUME NEW s \in Sessions, CallJoin(s) PROVE StartInv'
  BY <1>11 DEF CallJoin, worker, control, commands, call, history
<1>12. ASSUME NEW s \in Sessions, Cancel(s) PROVE StartInv'
  BY <1>12 DEF Cancel, RequestCancel, worker, control, commands, call, history
<1>13. ASSUME NEW s \in Sessions, CallShutdown(s) PROVE StartInv'
  BY <1>13 DEF CallShutdown, RequestCancel, worker, control, commands, call, history
<1>14. ASSUME NEW s \in Sessions, Joined(s) PROVE StartInv'
  <2>1. /\ thread[s] \notin {"none", "spawned", "starting"}
        /\ \A x \in Sessions \ {s} : status'[x] = status[x] /\ result'[x] = result[x]
    BY <1>14 DEF Joined, Join, control
  <2> QED
    BY <1>14, <2>1 DEF Joined, worker, control, commands, call, history
<1>15. CASE UNCHANGED vars
  BY <1>15 DEF vars, worker, control, commands, call, history
<1> QED
  BY <1>1, <1>2, <1>3, <1>4, <1>5, <1>6, <1>7, <1>8, <1>9, <1>10, <1>11, <1>12,
     <1>13, <1>14, <1>15 DEF Next, WorkerStep, Submission, OwnerStep

\* An end is observed once, and then the status is the result's.
LEMMA EndStep == TypeOK /\ StartInv /\ EndInv /\ [Next]_vars => EndInv'
<1> SUFFICES ASSUME TypeOK, StartInv, EndInv, [Next]_vars PROVE EndInv'
  OBVIOUS
<1> USE DEF TypeOK, StartInv, EndInv, Running, Ended
<1>1. ASSUME NEW s \in Sessions, NEW k \in Kinds, StartSession(s, k) PROVE EndInv'
  BY <1>1 DEF StartSession, worker, control, commands, call, history
<1>2. ASSUME NEW s \in Sessions, BeginWork(s) PROVE EndInv'
  BY <1>2 DEF BeginWork, HasReceiver, worker, control, commands, call, history
<1>3. ASSUME NEW s \in Sessions, Prepare(s) PROVE EndInv'
  BY <1>3 DEF Prepare, Published, worker, control, commands, call, history
<1>4. ASSUME NEW s \in Sessions, GoLive(s) PROVE EndInv'
  BY <1>4 DEF GoLive, worker, control, commands, call, history
<1>5. ASSUME NEW s \in Sessions, Drain(s) PROVE EndInv'
  BY <1>5 DEF Drain, worker, control, commands, call, history
<1>6. ASSUME NEW s \in Sessions, SeeCancel(s) \/ Fail(s) \/ Panic(s) PROVE EndInv'
  BY <1>6 DEF SeeCancel, Fail, Panic, Return, worker, control, commands, call, history
<1>7. ASSUME NEW u \in Callers, NEW s \in Sessions, CheckFlag(u, s) PROVE EndInv'
  BY <1>7 DEF CheckFlag, worker, control, commands, call, history
<1>8. ASSUME NEW u \in Callers, CheckLive(u) PROVE EndInv'
  BY <1>8, SessionAssumption DEF CheckLive, worker, control, commands, call, history
<1>9. ASSUME NEW u \in Callers, Send(u) PROVE EndInv'
  BY <1>9 DEF Send, worker, control, commands, call, history
<1>10. ASSUME NEW s \in Sessions, Poll(s) PROVE EndInv'
  BY <1>10 DEF Poll, Join, Verdict, worker, control, commands, call, history
<1>11. ASSUME NEW s \in Sessions, CallJoin(s) PROVE EndInv'
  BY <1>11 DEF CallJoin, worker, control, commands, call, history
<1>12. ASSUME NEW s \in Sessions, Cancel(s) PROVE EndInv'
  BY <1>12 DEF Cancel, RequestCancel, worker, control, commands, call, history
<1>13. ASSUME NEW s \in Sessions, CallShutdown(s) PROVE EndInv'
  BY <1>13 DEF CallShutdown, RequestCancel, worker, control, commands, call, history
<1>14. ASSUME NEW s \in Sessions, Joined(s) PROVE EndInv'
  BY <1>14 DEF Joined, Join, Verdict, worker, control, commands, call, history
<1>15. CASE UNCHANGED vars
  BY <1>15 DEF vars, worker, control, commands, call, history
<1> QED
  BY <1>1, <1>2, <1>3, <1>4, <1>5, <1>6, <1>7, <1>8, <1>9, <1>10, <1>11, <1>12,
     <1>13, <1>14, <1>15 DEF Next, WorkerStep, Submission, OwnerStep

\* No receiver comes back.
LEMMA ReceiverStep == TypeOK /\ ReceiverInv /\ [Next]_vars => ReceiverInv'
<1> SUFFICES ASSUME TypeOK, ReceiverInv, [Next]_vars PROVE ReceiverInv'
  OBVIOUS
<1> USE DEF TypeOK, ReceiverInv, Running, Ended
<1>1. ASSUME NEW s \in Sessions, NEW k \in Kinds, StartSession(s, k) PROVE ReceiverInv'
  BY <1>1 DEF StartSession, worker, control, commands, call, history
<1>2. ASSUME NEW s \in Sessions, BeginWork(s) PROVE ReceiverInv'
  BY <1>2 DEF BeginWork, HasReceiver, worker, control, commands, call, history
<1>3. ASSUME NEW s \in Sessions, Prepare(s) PROVE ReceiverInv'
  BY <1>3 DEF Prepare, Published, worker, control, commands, call, history
<1>4. ASSUME NEW s \in Sessions, GoLive(s) PROVE ReceiverInv'
  BY <1>4 DEF GoLive, worker, control, commands, call, history
<1>5. ASSUME NEW s \in Sessions, Drain(s) PROVE ReceiverInv'
  BY <1>5 DEF Drain, worker, control, commands, call, history
<1>6. ASSUME NEW s \in Sessions, SeeCancel(s) \/ Fail(s) \/ Panic(s) PROVE ReceiverInv'
  <2>1. PICK how \in Ended : Return(s, how)
    BY <1>6 DEF SeeCancel, Fail, Panic
  <2> QED
    BY <2>1 DEF Return, control, history
<1>7. ASSUME NEW u \in Callers, NEW s \in Sessions, CheckFlag(u, s) PROVE ReceiverInv'
  BY <1>7 DEF CheckFlag, worker, control, commands, call, history
<1>8. ASSUME NEW u \in Callers, CheckLive(u) PROVE ReceiverInv'
  BY <1>8, SessionAssumption DEF CheckLive, worker, control, commands, call, history
<1>9. ASSUME NEW u \in Callers, Send(u) PROVE ReceiverInv'
  BY <1>9 DEF Send, worker, control, commands, call, history
<1>10. ASSUME NEW s \in Sessions, Poll(s) PROVE ReceiverInv'
  BY <1>10 DEF Poll, Join, Verdict, worker, control, commands, call, history
<1>11. ASSUME NEW s \in Sessions, CallJoin(s) PROVE ReceiverInv'
  BY <1>11 DEF CallJoin, worker, control, commands, call, history
<1>12. ASSUME NEW s \in Sessions, Cancel(s) PROVE ReceiverInv'
  BY <1>12 DEF Cancel, RequestCancel, worker, control, commands, call, history
<1>13. ASSUME NEW s \in Sessions, CallShutdown(s) PROVE ReceiverInv'
  BY <1>13 DEF CallShutdown, RequestCancel, worker, control, commands, call, history
<1>14. ASSUME NEW s \in Sessions, Joined(s) PROVE ReceiverInv'
  BY <1>14 DEF Joined, Join, Verdict, worker, control, commands, call, history
<1>15. CASE UNCHANGED vars
  BY <1>15 DEF vars, worker, control, commands, call, history
<1> QED
  BY <1>1, <1>2, <1>3, <1>4, <1>5, <1>6, <1>7, <1>8, <1>9, <1>10, <1>11, <1>12,
     <1>13, <1>14, <1>15 DEF Next, WorkerStep, Submission, OwnerStep

\* What was accepted before the step is kept by it, and what it accepts joins the queue.
LEMMA KeptStep == TypeOK /\ StartInv /\ EndInv /\ ReceiverInv /\ AcceptedIsKept /\ [Next]_vars => AcceptedIsKept'
<1> SUFFICES ASSUME TypeOK, StartInv, EndInv, ReceiverInv, AcceptedIsKept, [Next]_vars PROVE AcceptedIsKept'
  OBVIOUS
<1> USE DEF TypeOK, StartInv, EndInv, ReceiverInv, AcceptedIsKept, Running, Ended
<1>1. ASSUME NEW s \in Sessions, NEW k \in Kinds, StartSession(s, k) PROVE AcceptedIsKept'
  BY <1>1 DEF StartSession, worker, control, commands, call, history
<1>2. ASSUME NEW s \in Sessions, BeginWork(s) PROVE AcceptedIsKept'
  BY <1>2 DEF BeginWork, HasReceiver, worker, control, commands, call, history
<1>3. ASSUME NEW s \in Sessions, Prepare(s) PROVE AcceptedIsKept'
  BY <1>3 DEF Prepare, Published, worker, control, commands, call, history
<1>4. ASSUME NEW s \in Sessions, GoLive(s) PROVE AcceptedIsKept'
  BY <1>4 DEF GoLive, worker, control, commands, call, history
<1>5. ASSUME NEW s \in Sessions, Drain(s) PROVE AcceptedIsKept'
  <2>1. /\ thread[s] = "live" /\ accepted[s] = taken[s] \o queue[s]
        /\ queue[s] \in Seq(Callers) /\ queue[s] # <<>> /\ taken[s] \in Seq(Callers)
    BY <1>5 DEF Drain
  <2>2. Append(taken[s], Head(queue[s])) \o Tail(queue[s]) = accepted[s]
    BY ONLY <2>1, MoveHead
  <2>3. /\ taken' = [taken EXCEPT ![s] = Append(@, Head(queue[s]))]
        /\ queue' = [queue EXCEPT ![s] = Tail(@)]
        /\ UNCHANGED <<discarded, accepted, receiver, kind>>
    BY <1>5, <2>1 DEF Drain, worker, control, commands, call, history
  <2>4. taken'[s] \o queue'[s] = accepted'[s]
    <3>1. taken'[s] = Append(taken[s], Head(queue[s])) /\ queue'[s] = Tail(queue[s])
      BY <2>3
    <3> QED
      BY <2>2, <2>3, <3>1, Zenon
  <2>5. \A x \in Sessions \ {s} : taken'[x] = taken[x] /\ queue'[x] = queue[x]
    BY <2>3
  <2>6. SUFFICES ASSUME NEW x \in Sessions
        PROVE  /\ discarded'[x] = <<>>
               /\ receiver'[x] => accepted'[x] = taken'[x] \o queue'[x]
               /\ kind'[x] = "dedicated" => accepted'[x] = <<>>
    OBVIOUS
  <2> HIDE DEF TypeOK, StartInv, EndInv, ReceiverInv, Running, Ended
  <2>7. CASE x = s
    BY <2>3, <2>4, <2>7
  <2>8. CASE x # s
    BY <2>3, <2>5, <2>8
  <2> QED
    BY <2>7, <2>8
<1>6. ASSUME NEW s \in Sessions, SeeCancel(s) \/ Fail(s) \/ Panic(s) PROVE AcceptedIsKept'
  <2>1. PICK how \in Ended : Return(s, how)
    BY <1>6 DEF SeeCancel, Fail, Panic
  <2>2. /\ ~receiver'[s] /\ UNCHANGED <<discarded, accepted, taken, kind>>
        /\ \A x \in Sessions \ {s} : receiver'[x] = receiver[x] /\ queue'[x] = queue[x]
    BY <2>1 DEF Return, worker, control, commands, call, history
  <2> QED
    <3>1. \A x \in Sessions : receiver'[x] => x # s /\ receiver[x] /\ queue'[x] = queue[x]
      BY <2>2
    <3> HIDE DEF TypeOK, StartInv, EndInv, ReceiverInv, Running, Ended
    <3> QED
      BY <2>2, <3>1
<1>7. ASSUME NEW u \in Callers, NEW s \in Sessions, CheckFlag(u, s) PROVE AcceptedIsKept'
  BY <1>7 DEF CheckFlag, worker, control, commands, call, history
<1>8. ASSUME NEW u \in Callers, CheckLive(u) PROVE AcceptedIsKept'
  BY <1>8, SessionAssumption DEF CheckLive, worker, control, commands, call, history
<1>9. ASSUME NEW u \in Callers, Send(u) PROVE AcceptedIsKept'
  <2> SUFFICES ASSUME NEW s \in Sessions, s = found[u],
                      ~ UNCHANGED <<queue, accepted>>
               PROVE  AcceptedIsKept'
    <3>1. found[u] \in Sessions
      BY <1>9 DEF Send
    <3>2. UNCHANGED <<discarded, taken, kind, receiver>>
      BY <1>9 DEF Send, worker, control, commands, call, history
    <3>3. CASE UNCHANGED <<queue, accepted>>
      <4> HIDE DEF TypeOK, StartInv, EndInv, ReceiverInv, Running, Ended
      <4> QED
        BY <3>2, <3>3
    <3> QED
      BY <3>1, <3>3
  <2>1. /\ receiver[s]
        /\ queue' = [queue EXCEPT ![s] = Append(@, u)]
        /\ accepted' = [accepted EXCEPT ![s] = Append(@, u)]
        /\ UNCHANGED <<discarded, taken, kind, receiver>>
    BY <1>9 DEF Send, worker, control, commands, call, history
  <2>2. kind[s] # "dedicated"
    BY <2>1, <1>9
  <2>3. /\ accepted[s] = taken[s] \o queue[s]
        /\ queue[s] \in Seq(Callers) /\ taken[s] \in Seq(Callers)
    BY <2>1
  <2>4. taken[s] \o Append(queue[s], u) = Append(accepted[s], u)
    BY <2>3, AppendLast
  <2>5. /\ accepted'[s] = Append(accepted[s], u) /\ queue'[s] = Append(queue[s], u)
        /\ \A x \in Sessions \ {s} : accepted'[x] = accepted[x] /\ queue'[x] = queue[x]
    BY <2>1
  <2>6. accepted'[s] = taken'[s] \o queue'[s]
    BY <2>1, <2>4, <2>5
  <2>7. SUFFICES ASSUME NEW x \in Sessions
        PROVE  /\ discarded'[x] = <<>>
               /\ receiver'[x] => accepted'[x] = taken'[x] \o queue'[x]
               /\ kind'[x] = "dedicated" => accepted'[x] = <<>>
    OBVIOUS
  <2> HIDE DEF TypeOK, StartInv, EndInv, ReceiverInv, Running, Ended
  <2>8. CASE x = s
    BY <2>1, <2>2, <2>6, <2>8
  <2>9. CASE x # s
    BY <2>1, <2>5, <2>9
  <2> QED
    BY <2>8, <2>9
<1>10. ASSUME NEW s \in Sessions, Poll(s) PROVE AcceptedIsKept'
  BY <1>10 DEF Poll, Join, Verdict, worker, control, commands, call, history
<1>11. ASSUME NEW s \in Sessions, CallJoin(s) PROVE AcceptedIsKept'
  BY <1>11 DEF CallJoin, worker, control, commands, call, history
<1>12. ASSUME NEW s \in Sessions, Cancel(s) PROVE AcceptedIsKept'
  BY <1>12 DEF Cancel, RequestCancel, worker, control, commands, call, history
<1>13. ASSUME NEW s \in Sessions, CallShutdown(s) PROVE AcceptedIsKept'
  BY <1>13 DEF CallShutdown, RequestCancel, worker, control, commands, call, history
<1>14. ASSUME NEW s \in Sessions, Joined(s) PROVE AcceptedIsKept'
  BY <1>14 DEF Joined, Join, Verdict, worker, control, commands, call, history
<1>15. CASE UNCHANGED vars
  BY <1>15 DEF vars, worker, control, commands, call, history
<1> QED
  BY <1>1, <1>2, <1>3, <1>4, <1>5, <1>6, <1>7, <1>8, <1>9, <1>10, <1>11, <1>12,
     <1>13, <1>14, <1>15 DEF Next, WorkerStep, Submission, OwnerStep


\* It outlasts every step.
LEMMA WorkerStable == WorkerInv /\ [Next]_vars => WorkerInv'
  BY TypeStep, StartStep, EndStep, ReceiverStep, KeptStep DEF WorkerInv

\* It holds of every session.
LEMMA WorkerAlways == Spec => []WorkerInv
  BY WorkerInit, WorkerStable, PTL DEF Spec

-----------------------------------------------------------------------------
\* Theorems

\* The variables keep their types.
THEOREM SessionTypeCorrect == Spec => []TypeOK
  BY WorkerAlways, PTL DEF WorkerInv

\* A command whose submission succeeded is taken in order or waits, as long as the
\* worker holds its receiver.
THEOREM Kept == Spec => []AcceptedIsKept
  BY WorkerAlways, PTL DEF WorkerInv

\* Stopped is never reported of a session that failed or that nobody asked to stop.
THEOREM Honest == Spec => []EndIsHonest
<1>1. WorkerInv => EndIsHonest
  BY DEF WorkerInv, TypeOK, EndInv, EndIsHonest, Ended
<1> QED
  BY <1>1, WorkerAlways, PTL

-----------------------------------------------------------------------------
\* The refinement

\* Before anything is started every session looks new.
LEMMA PromiseInit == Init => Promise!Init
  BY DEF Init, Promise!Init, View

\* What a step of a worker, a handle or a sender looks like to the owner.
LEMMA PromiseStep == WorkerInv /\ [Next]_vars => [Promise!Next]_(Promise!vars)
<1> SUFFICES ASSUME WorkerInv, [Next]_vars PROVE [Promise!Next]_(Promise!vars)
  OBVIOUS
<1>0. TypeOK /\ StartInv /\ EndInv /\ ReceiverInv /\ AcceptedIsKept
  BY DEF WorkerInv
<1>1. ASSUME NEW s \in Sessions, NEW k \in Kinds, StartSession(s, k) PROVE Promise!Begin(s)
  BY <1>0, <1>1 DEF StartSession, control, commands, history, TypeOK, StartInv, EndInv, View, Promise!Begin
<1>2. ASSUME NEW s \in Sessions, BeginWork(s) PROVE UNCHANGED Promise!vars
  BY <1>2 DEF BeginWork, control, history, View, Promise!vars
<1>3. ASSUME NEW s \in Sessions, Prepare(s) PROVE UNCHANGED Promise!vars
  <2>1. /\ status[s] \in {"connecting", "preparing"} /\ owner[s] # "none"
        /\ status' = [status EXCEPT ![s] = "preparing"]
        /\ UNCHANGED <<owner, history>>
    BY <1>0, <1>3 DEF Prepare, Published, StartInv, EndInv, history
  <2>2. View' = View
    BY <2>1, <1>0 DEF View, TypeOK
  <2> QED
    BY <2>1, <2>2 DEF history, Promise!vars
<1>4. ASSUME NEW s \in Sessions, GoLive(s) PROVE Promise!GoLive(s)
  <2>1. /\ status[s] \in {"connecting", "preparing"} /\ owner[s] # "none"
        /\ status' = [status EXCEPT ![s] = "live"] /\ UNCHANGED <<owner, history>>
    BY <1>0, <1>4 DEF GoLive, history, TypeOK, StartInv, EndInv
  <2>2. View[s] = "starting" /\ View' = [View EXCEPT ![s] = "live"]
    BY <1>0, <2>1 DEF View, TypeOK
  <2> QED
    BY <2>1, <2>2 DEF history, Promise!GoLive
<1>5. ASSUME NEW s \in Sessions, Drain(s) PROVE Promise!Take(s)
  <2>1. /\ thread[s] = "live" /\ accepted[s] = taken[s] \o queue[s]
        /\ queue[s] \in Seq(Callers) /\ queue[s] # <<>> /\ taken[s] \in Seq(Callers)
    BY <1>0, <1>5 DEF Drain, TypeOK, StartInv, AcceptedIsKept
  <2>2. /\ Len(taken[s]) < Len(accepted[s])
        /\ accepted[s][Len(taken[s]) + 1] = Head(queue[s])
    <3>1. /\ Len(taken[s]) < Len(taken[s] \o queue[s])
          /\ (taken[s] \o queue[s])[Len(taken[s]) + 1] = Head(queue[s])
      BY ONLY <2>1, NextElement, Zenon
    <3> QED
      BY ONLY <2>1, <3>1
  <2>3. /\ taken' = [taken EXCEPT ![s] = Append(@, Head(queue[s]))]
        /\ UNCHANGED <<asked, accepted>> /\ View' = View
    BY <1>5, <2>1 DEF Drain, control, View
  <2>4. View[s] = "live"
    BY <1>0, <2>1 DEF EndInv, View
  <2> QED
    BY <2>2, <2>3, <2>4 DEF Promise!Take
<1>6. ASSUME NEW s \in Sessions, SeeCancel(s) \/ Fail(s) \/ Panic(s)
      PROVE  UNCHANGED Promise!vars
  BY <1>6 DEF SeeCancel, Fail, Panic, Return, control, history, View, Promise!vars
<1>7. ASSUME NEW u \in Callers, CheckLive(u) \/ \E s \in Sessions : CheckFlag(u, s)
      PROVE  UNCHANGED Promise!vars
  BY <1>7 DEF CheckFlag, CheckLive, control, history, View, Promise!vars
<1>8. ASSUME NEW u \in Callers, Send(u)
      PROVE  UNCHANGED Promise!vars \/ \E s \in Sessions : Promise!Accept(s, u)
  <2>1. /\ found[u] \in Sessions /\ View' = View /\ UNCHANGED <<asked, taken>>
        /\ thread[found[u]] \notin {"none", "spawned", "starting"}
    BY <1>0, <1>8 DEF Send, control, TypeOK, StartInv, View
  <2>2. CASE UNCHANGED accepted
    BY <2>1, <2>2 DEF Promise!vars
  <2>3. CASE ~ UNCHANGED accepted
    <3>1. /\ receiver[found[u]]
          /\ accepted' = [accepted EXCEPT ![found[u]] = Append(@, u)]
      BY <1>8, <2>3 DEF Send
    <3>2. thread[found[u]] = "live"
      BY <1>0, <2>1, <3>1 DEF TypeOK, ReceiverInv, Running, Ended
    <3>3. View[found[u]] = "live"
      BY <1>0, <2>1, <3>2 DEF EndInv, View
    <3> QED
      BY <2>1, <3>1, <3>3 DEF Promise!Accept
  <2> QED
    BY <2>2, <2>3
<1>9. ASSUME NEW s \in Sessions, Join(s), owner[s] # "none",
             \/ UNCHANGED owner
             \/ \E o \in {"holds", "dropped"} : owner' = [owner EXCEPT ![s] = o],
             UNCHANGED history
      PROVE  UNCHANGED Promise!vars \/ Promise!Stop(s) \/ Promise!Fail(s)
  <2>1. CASE UNCHANGED status
    BY <1>0, <1>9, <2>1 DEF TypeOK, history, View, Promise!vars
  <2>2. CASE ~ UNCHANGED status
    <3>1. /\ result[s] = "none" /\ status[s] \in {"connecting", "preparing", "live"}
          /\ \/ asked[s] /\ status' = [status EXCEPT ![s] = "stopped"]
             \/ status' = [status EXCEPT ![s] = "failed"]
      BY <1>0, <1>9, <2>2 DEF Join, Verdict, control, EndInv
    <3>2. View[s] \in {"starting", "live"}
      BY <1>9, <3>1 DEF View
    <3>3. CASE asked[s] /\ status' = [status EXCEPT ![s] = "stopped"]
      <4>1. owner'[s] # "none" /\ \A x \in Sessions \ {s} : owner'[x] = owner[x]
        BY <1>0, <1>9 DEF TypeOK
      <4>2. status'[s] = "stopped" /\ \A x \in Sessions \ {s} : status'[x] = status[x]
        BY <1>0, <3>3 DEF TypeOK
      <4>3. View' = [View EXCEPT ![s] = "stopped"]
        BY <4>1, <4>2 DEF View
      <4> QED
        BY <1>9, <3>2, <3>3, <4>3 DEF history, Promise!Stop
    <3>4. CASE status' = [status EXCEPT ![s] = "failed"]
      <4>1. owner'[s] # "none" /\ \A x \in Sessions \ {s} : owner'[x] = owner[x]
        BY <1>0, <1>9 DEF TypeOK
      <4>2. status'[s] = "failed" /\ \A x \in Sessions \ {s} : status'[x] = status[x]
        BY <1>0, <3>4 DEF TypeOK
      <4>3. View' = [View EXCEPT ![s] = "failed"]
        BY <4>1, <4>2 DEF View
      <4> QED
        BY <1>9, <3>2, <3>4, <4>3 DEF history, Promise!Fail
    <3> QED
      BY <3>1, <3>3, <3>4
  <2> QED
    BY <2>1, <2>2
<1>10. ASSUME NEW s \in Sessions, Poll(s) \/ Joined(s)
       PROVE  UNCHANGED Promise!vars \/ Promise!Stop(s) \/ Promise!Fail(s)
  <2>1. /\ Join(s) /\ owner[s] # "none" /\ UNCHANGED history
        /\ \/ UNCHANGED owner
           \/ \E o \in {"holds", "dropped"} : owner' = [owner EXCEPT ![s] = o]
    BY <1>10 DEF Poll, Joined
  <2> QED
    BY <1>9, <2>1
<1>11. ASSUME NEW s \in Sessions, CallJoin(s) PROVE UNCHANGED Promise!vars
  <2>1. View' = View
    BY <1>0, <1>11 DEF CallJoin, control, TypeOK, View
  <2> QED
    BY <1>11, <2>1 DEF CallJoin, history, Promise!vars
<1>12. ASSUME NEW s \in Sessions, Cancel(s) PROVE Promise!Ask(s)
  BY <1>12 DEF Cancel, RequestCancel, View, Promise!Ask
<1>13. ASSUME NEW s \in Sessions, CallShutdown(s) PROVE Promise!Ask(s)
  <2>1. View' = View
    BY <1>0, <1>13 DEF CallShutdown, TypeOK, View
  <2> QED
    BY <1>13, <2>1 DEF CallShutdown, RequestCancel, Promise!Ask
<1>14. CASE UNCHANGED vars
  BY <1>14 DEF vars, control, history, View, Promise!vars
<1> QED
  BY <1>1, <1>2, <1>3, <1>4, <1>5, <1>6, <1>7, <1>8, <1>10, <1>11, <1>12, <1>13, <1>14
  DEF Next, WorkerStep, Submission, OwnerStep, Promise!Next

\* Whatever the worker, the owner and the submitting threads do, in whatever order, the
\* handle shows a session that starts, goes live and ends once, and that takes accepted
\* commands in order.
THEOREM Implements == Spec => KeepsPromise
<1>1. Spec => Promise!Init /\ [][Promise!Next]_(Promise!vars)
  BY WorkerAlways, PromiseInit, PromiseStep, PTL DEF Spec
<1> QED
  BY <1>1 DEF KeepsPromise, Promise!Spec

-----------------------------------------------------------------------------
\* The inductive invariant

BevyTypeOK ==
  /\ slot \in Sessions \cup {NoSession} /\ retained \in Sessions \cup {NoSession}
  /\ last \in Sessions \cup {NoSession} /\ resource \in Sessions \cup {NoSession}
  /\ deferred \in Sessions \cup {NoSession, "none"}
  /\ generation \in Nat /\ seen \in Int
  /\ lock \in {"free", "detach", "guard", "owner"}
  /\ guard \in {"held", "dropping", "dropped"}
  /\ app \in {"new", "running", "exiting", "over", "dropped"}

\* The end of a session has been observed.
Over(s) == result[s] # "none" /\ cancelled[s]

\* Nothing is installed before the App runs. Who waits inside the slot holds its
\* session, and nobody waits there but on behalf of something that still exists.
OwnerInv ==
  /\ app = "new" => /\ slot = NoSession /\ lock = "free" /\ guard = "held"
                    /\ seen = -1 /\ deferred = "none" /\ resource = NoSession
  /\ lock # "free" => slot # NoSession /\ owner[slot] = "joins"
  /\ (lock = "free" /\ slot # NoSession) =>
       \/ owner[slot] = "holds"
       \/ app = "dropped" /\ guard = "dropped" /\ owner[slot] = "dropped"
  /\ lock = "owner" => app = "over" /\ guard = "dropped"
  /\ lock = "guard" => guard # "dropped"
  /\ guard = "dropping" => lock = "guard"

\* Every end that was observed is marked in the flag as well, and everything that names
\* a session the slot no longer holds names one whose end was observed.
LeftInv ==
  /\ \A s \in Sessions : result[s] # "none" => cancelled[s]
  /\ (resource # NoSession /\ resource # slot) => Over(resource)
  /\ (deferred \notin {"none", NoSession} /\ deferred # slot) => Over(deferred)
  /\ retained # NoSession => Over(retained)
  /\ last # NoSession => Over(last)
  /\ (slot = NoSession /\ last # NoSession) => retained = last
  /\ (app = "dropped" /\ guard = "dropped" /\ slot # NoSession) => Over(slot)

\* A frame that has seen the present generation has the slot's session as its resources,
\* or has queued it; an end it shows is the slot's.
SeenInv ==
  /\ seen <= generation
  /\ (seen = generation /\ deferred = "none") => resource = slot
  /\ (seen = generation /\ deferred # "none") => deferred = slot
  /\ (seen = generation /\ state \in {"stopped", "failed"}) =>
       IF slot # NoSession THEN status[slot] = state ELSE RetainedStatus = state

BevyInv == WorkerInv /\ BevyTypeOK /\ OwnerInv /\ LeftInv /\ SeenInv

\* An application starts with sessions nobody has opened.
LEMMA BevyStart == BevyInit => BevyInv
<1> SUFFICES ASSUME BevyInit PROVE BevyInv
  OBVIOUS
<1>1. WorkerInv
  BY WorkerInit DEF BevyInit
<1>2. BevyTypeOK
  BY DEF BevyInit, BevyTypeOK
<1>3. OwnerInv
  BY DEF BevyInit, OwnerInv
<1>4. LeftInv
  BY DEF BevyInit, Init, LeftInv
<1>5. SeenInv
  BY DEF BevyInit, SeenInv
<1> QED
  BY <1>1, <1>2, <1>3, <1>4, <1>5 DEF BevyInv

-----------------------------------------------------------------------------
\* The sessions in the slot

\* The owner waits for the end and lets go of the handle at once.
LetGo(s) ==
  /\ owner[s] = "joins" /\ Join(s)
  /\ owner' = [owner EXCEPT ![s] = "dropped"]
  /\ UNCHANGED <<worker, commands, call, history>>

\* What a session sees of a step of the application is a step of its owner, of its
\* worker or of nobody.
SessionStep == [Next]_vars \/ \E s \in Sessions : LetGo(s)

\* A worker's step, or a start, touches neither the slot nor a handle somebody has.
LEMMA OutsideShape ==
  ASSUME WorkerInv, Outside
  PROVE  /\ [Next]_vars /\ UNCHANGED bevyOnly
         /\ \A s \in Sessions : owner[s] # "none" => owner'[s] = owner[s]
<1>1. UNCHANGED bevyOnly
  BY DEF Outside
<1>2. ASSUME NEW s \in Sessions, NEW k \in Kinds, StartSession(s, k)
      PROVE  Next /\ \A x \in Sessions : owner[x] # "none" => owner'[x] = owner[x]
  <2>1. owner[s] = "none" /\ owner' = [owner EXCEPT ![s] = "holds"]
    BY <1>2 DEF StartSession, WorkerInv, EndInv
  <2>2. owner \in [Sessions -> {"none", "holds", "joins", "drops", "dropped"}]
    BY DEF WorkerInv, TypeOK
  <2>3. Next
    BY <1>2 DEF Next
  <2> QED
    BY <2>1, <2>2, <2>3
<1>3. ASSUME NEW s \in Sessions, WorkerStep(s) \/ Cancel(s) PROVE Next /\ owner' = owner
  <2>1. Next
    BY <1>3 DEF Next, OwnerStep
  <2>2. owner' = owner
    BY <1>3 DEF WorkerStep, BeginWork, Prepare, GoLive, Drain, SeeCancel, Fail, Panic, Return, Cancel
  <2> QED
    BY <2>1, <2>2
<1> QED
  BY <1>1, <1>2, <1>3 DEF Outside

\* The beginning of a shutdown is the owner's, of a session the slot holds.
LEMMA BeginShape ==
  ASSUME BevyInv, NEW who, BeginShutdown(who), app # "dropped" \/ guard # "dropped"
  PROVE  /\ lock = "free" /\ lock' = who /\ slot \in Sessions
         /\ CallShutdown(slot) /\ owner' = [owner EXCEPT ![slot] = "joins"]
         /\ result' = result /\ status' = status
         /\ UNCHANGED <<slot, retained, generation, frameVars, last>>
<1>1. /\ lock = "free" /\ lock' = who /\ slot # NoSession /\ RequestCancel(slot)
      /\ owner' = [owner EXCEPT ![slot] = "joins"]
      /\ UNCHANGED <<worker, status, commands, result, call, accepted, taken, discarded,
                     slot, retained, generation, frameVars, last>>
  BY DEF BeginShutdown
<1>2. slot \in Sessions
  BY <1>1 DEF BevyInv, BevyTypeOK
<1>3. owner[slot] = "holds"
  BY <1>1 DEF BevyInv, OwnerInv
<1>4. CallShutdown(slot)
  BY <1>1, <1>3 DEF CallShutdown
<1> QED
  BY <1>1, <1>2, <1>4

\* Every step of the application is a step of the sessions, or lets go of one.
LEMMA Steps == ASSUME BevyInv, [BevyNext]_bevyVars PROVE SessionStep
<1>0. /\ \A s \in Sessions : CallShutdown(s) => Next
      /\ \A s \in Sessions : Cancel(s) => Next
      /\ \A s \in Sessions : Joined(s) => Next
      /\ \A s \in Sessions : Poll(s) => Next
  BY DEF Next, OwnerStep
<1>t. BevyTypeOK /\ OwnerInv /\ LeftInv /\ WorkerInv
  BY DEF BevyInv
<1>1. CASE Outside
  BY <1>1, <1>t, OutsideShape DEF SessionStep
<1>2. ASSUME NEW s \in Sessions \cup {NoSession}, Install(s) PROVE UNCHANGED vars
  BY <1>2 DEF Install
<1>3. ASSUME NEW s \in Sessions, Attach(s) PROVE Next \/ UNCHANGED vars
  <2>1. CASE slot = NoSession
    BY <1>3, <2>1 DEF Attach, vars, control, history
  <2>2. CASE slot # NoSession
    BY <1>0, <1>3, <2>2 DEF Attach, CallShutdown
  <2> QED
    BY <2>1, <2>2
<1>4. ASSUME NEW s \in Sessions, DropUnattached(s) \/ FinishDrop(s) PROVE Next
  BY <1>0, <1>4 DEF DropUnattached, FinishDrop
<1>5. CASE Detach
  BY <1>0, <1>5, BeginShape DEF Detach, SessionStep
<1>6. CASE GuardShutdown
  BY <1>0, <1>6, BeginShape DEF GuardShutdown, SessionStep
<1>7. CASE GuardDropEmpty \/ ApplyDeferred \/ SendExit \/ UNCHANGED bevyVars
  BY <1>7 DEF GuardDropEmpty, ApplyDeferred, SendExit, bevyVars, SessionStep
<1>8. CASE EndShutdown
  <2>1. /\ lock # "free" /\ Join(slot)
        /\ owner' = [owner EXCEPT ![slot] = IF Releases(lock) \/ lock = "owner" THEN "dropped" ELSE "holds"]
        /\ UNCHANGED <<worker, commands, call, history>>
    BY <1>8 DEF EndShutdown
  <2>2. slot \in Sessions /\ owner[slot] = "joins"
    BY <1>t, <2>1 DEF BevyTypeOK, OwnerInv
  <2>3. CASE Releases(lock) \/ lock = "owner"
    <3>1. LetGo(slot)
      BY <2>1, <2>2, <2>3 DEF LetGo
    <3> QED
      BY <2>2, <3>1 DEF SessionStep
  <2>4. CASE ~(Releases(lock) \/ lock = "owner")
    <3>1. owner' = [owner EXCEPT ![slot] = IF @ = "joins" THEN "holds" ELSE "dropped"]
      BY <2>1, <2>2, <2>4
    <3>2. Joined(slot)
      BY <2>1, <2>2, <3>1 DEF Joined
    <3> QED
      BY <1>0, <2>2, <3>2 DEF SessionStep
  <2> QED
    BY <2>3, <2>4
<1>9. CASE Observe
  <2>1. /\ app # "dropped" /\ lock = "free"
        /\ IF slot # NoSession /\ thread[slot] \in Ended THEN Join(slot) ELSE UNCHANGED <<result, control>>
        /\ UNCHANGED <<worker, commands, owner, call, history>>
    BY <1>9 DEF Observe
  <2>2. CASE slot # NoSession /\ thread[slot] \in Ended
    <3>1. slot \in Sessions /\ owner[slot] = "holds"
      BY <1>t, <2>1, <2>2 DEF BevyTypeOK, OwnerInv
    <3>2. Poll(slot)
      BY <2>1, <2>2, <3>1 DEF Poll
    <3> QED
      BY <1>0, <3>1, <3>2 DEF SessionStep
  <2>3. CASE ~(slot # NoSession /\ thread[slot] \in Ended)
    BY <2>1, <2>3 DEF SessionStep, vars
  <2> QED
    BY <2>2, <2>3
<1>10. CASE CancelOnExit
  <2>1. /\ IF resource # NoSession THEN RequestCancel(resource) ELSE UNCHANGED <<cancelled, asked>>
        /\ UNCHANGED <<worker, status, commands, result, owner, call, accepted, taken, discarded>>
    BY <1>10 DEF CancelOnExit
  <2>2. CASE resource = NoSession
    BY <2>1, <2>2 DEF SessionStep, vars, control, history
  <2>3. CASE resource # NoSession
    <3>1. resource \in Sessions
      BY <1>t, <2>3 DEF BevyTypeOK
    <3>2. owner[resource] # "none"
      <4>1. CASE resource = slot
        BY <1>t, <2>3, <3>1, <4>1, <1>10 DEF OwnerInv, CancelOnExit
      <4>2. CASE resource # slot
        <5>1. result[resource] # "none"
          BY <1>t, <2>3, <4>2 DEF LeftInv, Over
        <5>2. thread[resource] \in Ended
          BY <1>t, <3>1, <5>1 DEF WorkerInv, EndInv
        <5> QED
          BY <1>t, <3>1, <5>2 DEF WorkerInv, EndInv, Ended
      <4> QED
        BY <4>1, <4>2
    <3>3. Cancel(resource)
      BY <2>1, <2>3, <3>2 DEF Cancel
    <3> QED
      BY <1>0, <3>1, <3>3 DEF SessionStep
  <2> QED
    BY <2>2, <2>3
<1>11. CASE DropApp
  <2>1. \/ app = "over" /\ BeginShutdown("owner")
        \/ UNCHANGED vars
    BY <1>11 DEF DropApp
  <2> QED
    BY <1>0, <2>1, BeginShape DEF SessionStep
<1> QED
  BY <1>1, <1>2, <1>3, <1>4, <1>5, <1>6, <1>7, <1>8, <1>9, <1>10, <1>11 DEF BevyNext, SessionStep
\* The invariant of the sessions is that of SessionWorker.
LEMMA WorkerKept == WorkerInv /\ SessionStep => WorkerInv'
<1>1. ASSUME WorkerInv, NEW s \in Sessions, LetGo(s) PROVE WorkerInv'
  <2>0. TypeOK /\ StartInv /\ EndInv /\ ReceiverInv /\ AcceptedIsKept
    BY <1>1 DEF WorkerInv
  <2>1. /\ owner[s] = "joins" /\ thread[s] \in Ended
        /\ owner' = [owner EXCEPT ![s] = "dropped"]
        /\ UNCHANGED <<kind, thread, receiver, queue, asking, found, asked, accepted, taken,
                       discarded>>
    BY <1>1 DEF LetGo, Join, worker, commands, call, history
  <2>2. CASE result[s] # "none"
    <3>1. UNCHANGED <<result, cancelled, status>>
      BY <1>1, <2>2 DEF LetGo, Join, control
    <3>2. TypeOK'
      BY <2>0, <2>1, <3>1 DEF TypeOK
    <3>3. StartInv' /\ ReceiverInv' /\ AcceptedIsKept'
      BY <2>0, <2>1, <3>1 DEF StartInv, ReceiverInv, AcceptedIsKept
    <3>4. EndInv'
      BY <2>0, <2>1, <2>2, <3>1 DEF EndInv, TypeOK, Ended
    <3> QED
      BY <3>2, <3>3, <3>4 DEF WorkerInv
  <2>3. CASE result[s] = "none"
    <3>1. /\ result' = [result EXCEPT ![s] = Verdict(s)]
          /\ status' = [status EXCEPT ![s] = IF Verdict(s) = "ok" THEN "stopped" ELSE "failed"]
          /\ cancelled' = [cancelled EXCEPT ![s] = TRUE]
      BY <1>1, <2>3 DEF LetGo, Join
    <3>2. TypeOK'
      BY <2>0, <2>1, <3>1 DEF TypeOK, Verdict
    <3>3. StartInv'
      BY <2>0, <2>1, <3>1 DEF StartInv, Ended
    <3>4. ReceiverInv' /\ AcceptedIsKept'
      BY <2>0, <2>1 DEF ReceiverInv, AcceptedIsKept
    <3>5. EndInv'
      BY <2>0, <2>1, <2>3, <3>1 DEF EndInv, TypeOK, Ended, Verdict
    <3> QED
      BY <3>2, <3>3, <3>4, <3>5 DEF WorkerInv
  <2> QED
    BY <2>2, <2>3
<1> QED
  BY <1>1, WorkerStable DEF SessionStep

\* Once observed, an end never changes; the flag is never reset, and every end is
\* observed with the flag.
Final(s) ==
  /\ result[s] # "none" => result'[s] = result[s] /\ status'[s] = status[s]
  /\ cancelled[s] => cancelled'[s]
  /\ result'[s] = result[s] \/ cancelled'[s]

\* A session that is over keeps its result and its status.
LEMMA EndIsFinal == ASSUME WorkerInv, SessionStep, NEW s \in Sessions PROVE Final(s)
<1>0. /\ result \in [Sessions -> {"none", "ok", "failed"}]
      /\ cancelled \in [Sessions -> BOOLEAN]
      /\ status \in [Sessions -> {"connecting", "preparing", "live", "stopped", "failed"}]
  BY DEF WorkerInv, TypeOK
<1>1. ASSUME UNCHANGED <<result, cancelled, status>> PROVE Final(s)
  BY <1>1 DEF Final
<1>2. ASSUME NEW x \in Sessions, Join(x) PROVE Final(s)
  <2>1. CASE result[x] # "none"
    BY <1>1, <1>2, <2>1 DEF Join, control
  <2>2. CASE result[x] = "none"
    BY <1>0, <1>2, <2>2 DEF Join, Final
  <2> QED
    BY <2>1, <2>2
<1>3. ASSUME NEW x \in Sessions, RequestCancel(x), UNCHANGED <<result, status>> PROVE Final(s)
  BY <1>0, <1>3 DEF RequestCancel, Final
<1>4. ASSUME NEW x \in Sessions, thread[x] = "starting", UNCHANGED <<result, cancelled>>,
             NEW st, status' = [status EXCEPT ![x] = st]
      PROVE  Final(s)
  <2>1. result[x] = "none"
    BY <1>4 DEF WorkerInv, StartInv
  <2> QED
    BY <1>0, <1>4, <2>1 DEF Final
<1>5. ASSUME NEW x \in Sessions, NEW k \in Kinds, StartSession(x, k) PROVE Final(s)
  BY <1>1, <1>5 DEF StartSession, control
<1>6. ASSUME NEW x \in Sessions, WorkerStep(x) PROVE Final(s)
  <2>1. CASE Prepare(x) \/ GoLive(x)
    <3>1. PICK st : thread[x] = "starting" /\ UNCHANGED <<result, cancelled>> /\ status' = [status EXCEPT ![x] = st]
      BY <2>1 DEF Prepare, GoLive
    <3> QED
      BY <1>4, <3>1
  <2>2. CASE BeginWork(x) \/ Drain(x) \/ SeeCancel(x) \/ Fail(x) \/ Panic(x)
    BY <1>1, <2>2 DEF BeginWork, Drain, SeeCancel, Fail, Panic, Return, control
  <2> QED
    BY <1>6, <2>1, <2>2 DEF WorkerStep
<1>7. ASSUME NEW x \in Sessions, OwnerStep(x) PROVE Final(s)
  <2>1. CASE Poll(x) \/ Joined(x)
    BY <1>2, <2>1 DEF Poll, Joined
  <2>2. CASE CallJoin(x)
    BY <1>1, <2>2 DEF CallJoin, control
  <2>3. CASE Cancel(x) \/ CallShutdown(x)
    BY <1>3, <2>3 DEF Cancel, CallShutdown
  <2> QED
    BY <1>7, <2>1, <2>2, <2>3 DEF OwnerStep
<1>8. CASE Submission
  BY <1>1, <1>8 DEF Submission, Send, CheckFlag, CheckLive, control
<1>9. CASE UNCHANGED vars
  BY <1>1, <1>9 DEF vars, control
<1>10. ASSUME NEW x \in Sessions, LetGo(x) PROVE Final(s)
  BY <1>2, <1>10 DEF LetGo
<1> QED
  BY <1>5, <1>6, <1>7, <1>8, <1>9, <1>10 DEF SessionStep, Next

\* It stays over.
LEMMA OverStays ==
  ASSUME WorkerInv, SessionStep, NEW s \in Sessions, Over(s) PROVE Over(s)'
  BY EndIsFinal DEF Over, Final

-----------------------------------------------------------------------------
\* The steps of the application

\* The variables of the application keep their types.
LEMMA BevyTypeStep == ASSUME BevyInv, [BevyNext]_bevyVars PROVE BevyTypeOK'
<1> USE DEF BevyTypeOK, slotVars, frameVars, bevyOnly
<1>0. BevyTypeOK
  BY DEF BevyInv
<1>1. CASE Outside
  BY <1>0, <1>1 DEF Outside
<1>2. ASSUME NEW s \in Sessions \cup {NoSession}, Install(s) PROVE BevyTypeOK'
  BY <1>0, <1>2 DEF Install
<1>3. ASSUME NEW s \in Sessions, Attach(s) PROVE BevyTypeOK'
  BY <1>0, <1>3 DEF Attach, NextGeneration
<1>4. ASSUME NEW s \in Sessions, DropUnattached(s) \/ FinishDrop(s) PROVE BevyTypeOK'
  BY <1>0, <1>4 DEF DropUnattached, FinishDrop
<1>5. CASE Detach
  BY <1>0, <1>5 DEF Detach, BeginShutdown
<1>6. CASE GuardShutdown
  BY <1>0, <1>6 DEF GuardShutdown, BeginShutdown
<1>7. CASE GuardDropEmpty \/ ApplyDeferred \/ SendExit \/ CancelOnExit
  BY <1>0, <1>7 DEF GuardDropEmpty, ApplyDeferred, SendExit, CancelOnExit
<1>8. CASE EndShutdown
  BY <1>0, <1>8 DEF EndShutdown, NextGeneration
<1>9. CASE Observe
  BY <1>0, <1>9 DEF Observe
<1>10. CASE DropApp
  BY <1>0, <1>10 DEF DropApp, BeginShutdown
<1>11. CASE UNCHANGED bevyVars
  BY <1>0, <1>11 DEF bevyVars
<1> QED
  BY <1>1, <1>2, <1>3, <1>4, <1>5, <1>6, <1>7, <1>8, <1>9, <1>10, <1>11 DEF BevyNext
\* The slot holds the handle of its session whenever nobody waits in it.
LEMMA OwnerKept == ASSUME BevyInv, [BevyNext]_bevyVars PROVE OwnerInv'
<1>0. OwnerInv /\ BevyTypeOK /\ WorkerInv
  BY DEF BevyInv
<1>o. owner \in [Sessions -> {"none", "holds", "joins", "drops", "dropped"}]
  BY <1>0 DEF WorkerInv, TypeOK
<1>a. ASSUME UNCHANGED <<slot, lock, guard, seen, deferred, resource>>,
             app' = app \/ (app \in {"running", "exiting"} /\ app' \in {"exiting", "over"}),
             slot # NoSession => owner'[slot] = owner[slot]
      PROVE  OwnerInv'
  BY <1>0, <1>a DEF OwnerInv
<1>1. CASE Outside
  <2>1. slot # NoSession => owner'[slot] = owner[slot]
    <3>1. slot # NoSession => slot \in Sessions /\ owner[slot] # "none"
      BY <1>0 DEF BevyTypeOK, OwnerInv
    <3>2. \A s \in Sessions : owner[s] # "none" => owner'[s] = owner[s]
      BY <1>0, <1>1, OutsideShape
    <3> QED
      BY <3>1, <3>2
  <2> QED
    BY <1>0, <1>1, <1>a, <2>1, OutsideShape DEF bevyOnly, slotVars, frameVars
<1>2. ASSUME NEW s \in Sessions \cup {NoSession}, Install(s) PROVE OwnerInv'
  <2>1. /\ app = "new" /\ app' = "running" /\ slot' = s /\ (s # NoSession => owner[s] = "holds")
        /\ UNCHANGED <<lock, guard, owner>>
    BY <1>2 DEF Install, vars
  <2> QED
    BY <1>0, <2>1 DEF OwnerInv
<1>3. ASSUME NEW s \in Sessions, Attach(s) PROVE OwnerInv'
  <2>1. /\ app \notin {"new", "dropped"} /\ lock = "free" /\ owner[s] = "holds" /\ s # slot
        /\ UNCHANGED <<lock, guard, app>>
    BY <1>3 DEF Attach
  <2>2. CASE slot = NoSession
    BY <1>0, <1>3, <2>1, <2>2 DEF OwnerInv, Attach
  <2>3. CASE slot # NoSession
    <3>1. slot' = slot /\ owner'[slot] = owner[slot]
      BY <1>0, <1>o, <1>3, <2>1, <2>3 DEF Attach, BevyTypeOK
    <3> QED
      BY <1>0, <2>1, <2>3, <3>1 DEF OwnerInv
  <2> QED
    BY <2>2, <2>3
<1>4. ASSUME NEW s \in Sessions, DropUnattached(s) \/ FinishDrop(s) PROVE OwnerInv'
  <2>1. UNCHANGED bevyOnly
    BY <1>4 DEF DropUnattached, FinishDrop
  <2>2. \E how : owner' = [owner EXCEPT ![s] = how]
    <3>1. CASE DropUnattached(s)
      BY <3>1 DEF DropUnattached, CallShutdown
    <3>2. CASE FinishDrop(s)
      BY <3>2 DEF FinishDrop, Joined
    <3> QED
      BY <1>4, <3>1, <3>2
  <2>3. slot # NoSession => slot # s
    BY <1>0, <1>4 DEF DropUnattached, FinishDrop, OwnerInv, BevyTypeOK
  <2>4. slot # NoSession => owner'[slot] = owner[slot]
    BY <1>0, <1>o, <2>2, <2>3 DEF BevyTypeOK
  <2> QED
    BY <1>a, <2>1, <2>4 DEF bevyOnly, slotVars, frameVars
<1>5. ASSUME NEW who, BeginShutdown(who), app # "dropped" \/ guard # "dropped"
      PROVE  /\ slot \in Sessions /\ slot # NoSession /\ owner'[slot] = "joins" /\ lock = "free" /\ lock' = who
             /\ app # "new" /\ UNCHANGED <<slot, seen, deferred, resource>>
  <2>1. /\ slot \in Sessions /\ owner' = [owner EXCEPT ![slot] = "joins"] /\ lock = "free" /\ lock' = who
        /\ UNCHANGED <<slot, frameVars>>
    BY <1>5, BeginShape
  <2>2. slot # NoSession
    BY <2>1, SessionAssumption
  <2> QED
    BY <1>0, <1>o, <2>1, <2>2 DEF OwnerInv, frameVars
<1>6. CASE Detach
  <2>1. app \notin {"new", "dropped"} /\ BeginShutdown("detach") /\ UNCHANGED <<guard, app>>
    BY <1>6 DEF Detach
  <2> QED
    BY <1>0, <1>5, <2>1 DEF OwnerInv
<1>7. CASE GuardShutdown
  <2>1. guard = "held" /\ BeginShutdown("guard") /\ guard' \in {"held", "dropping"} /\ app' = app
    BY <1>7 DEF GuardShutdown
  <2> QED
    BY <1>0, <1>5, <2>1 DEF OwnerInv
<1>8. CASE GuardDropEmpty
  <2>1. /\ app # "new" /\ guard = "held" /\ lock = "free" /\ slot = NoSession /\ guard' = "dropped"
        /\ UNCHANGED <<slot, lock, app>>
    BY <1>8 DEF GuardDropEmpty, slotVars
  <2> QED
    BY <1>0, <2>1 DEF OwnerInv
<1>9. CASE EndShutdown
  <2>1. /\ lock # "free" /\ lock' = "free"
        /\ owner' = [owner EXCEPT ![slot] = IF lock = "detach" \/ lock = "owner" THEN "dropped" ELSE "holds"]
        /\ slot' = (IF lock = "detach" THEN NoSession ELSE slot)
        /\ guard' = (IF guard = "dropping" THEN "dropped" ELSE guard)
        /\ app' = (IF lock = "owner" THEN "dropped" ELSE app)
    BY <1>9 DEF EndShutdown, Releases
  <2>2. slot \in Sessions /\ app # "new"
    BY <1>0, <2>1 DEF BevyTypeOK, OwnerInv
  <2>3. owner'[slot] = IF lock = "detach" \/ lock = "owner" THEN "dropped" ELSE "holds"
    BY <1>o, <2>1, <2>2
  <2>4. app' # "new" /\ guard' # "dropping"
    BY <1>0, <2>1, <2>2 DEF BevyTypeOK
  <2>5. slot' # NoSession => \/ owner'[slot'] = "holds"
                             \/ app' = "dropped" /\ guard' = "dropped" /\ owner'[slot'] = "dropped"
    BY <1>0, <2>1, <2>3 DEF OwnerInv
  <2> QED
    BY <2>1, <2>4, <2>5 DEF OwnerInv
<1>10. CASE Observe \/ ApplyDeferred
  <2>1. UNCHANGED <<owner, slot, lock, guard, app>>
    BY <1>10 DEF Observe, ApplyDeferred, vars, slotVars
  <2>2. app # "new"
    BY <1>0, <1>10 DEF Observe, ApplyDeferred, OwnerInv
  <2> QED
    BY <1>0, <2>1, <2>2 DEF OwnerInv
<1>11. CASE SendExit \/ CancelOnExit
  <2>1. UNCHANGED <<owner, slot, lock, guard, seen, deferred, resource>>
        /\ app \in {"running", "exiting"} /\ app' \in {"exiting", "over"}
    BY <1>11 DEF SendExit, CancelOnExit, vars, slotVars, frameVars
  <2> QED
    BY <1>a, <2>1
<1>12. CASE DropApp
  <2>1. CASE guard = "dropped" /\ BeginShutdown("owner") /\ UNCHANGED app
    BY <1>0, <1>5, <1>12, <2>1 DEF DropApp, OwnerInv
  <2>2. CASE (guard # "dropped" \/ slot = NoSession) /\ app' = "dropped" /\ UNCHANGED <<vars, slotVars, frameVars, last>>
    BY <1>0, <1>12, <2>2 DEF DropApp, OwnerInv, vars, slotVars
  <2> QED
    BY <1>12, <2>1, <2>2 DEF DropApp
<1>13. CASE UNCHANGED bevyVars
  <2>1. UNCHANGED <<owner, slot, lock, guard, app, seen, deferred, resource>>
    BY <1>13 DEF bevyVars, bevyOnly, slotVars, frameVars, vars
  <2> QED
    BY <1>a, <2>1
<1> QED
  BY <1>1, <1>2, <1>3, <1>4, <1>6, <1>7, <1>8, <1>9, <1>10, <1>11, <1>12, <1>13 DEF BevyNext
\* What the slot, the frames and the retained result name stays over once it is, and a
\* session leaves the slot only when its end is observed.
LEMMA LeftKept == ASSUME BevyInv, [BevyNext]_bevyVars PROVE LeftInv'
<1>0. OwnerInv /\ LeftInv /\ SeenInv /\ BevyTypeOK /\ WorkerInv /\ SessionStep
  BY Steps DEF BevyInv
<1>f. \A s \in Sessions : result'[s] # "none" => cancelled'[s]
  BY <1>0, EndIsFinal DEF LeftInv, Final
<1>s. \A s \in Sessions : Over(s) => Over(s)'
  BY <1>0, OverStays
<1>t. NoSession \notin Sessions /\ "none" \notin Sessions /\ NoSession # "none"
  BY SessionAssumption, BevyAssumption
<1>a. ASSUME UNCHANGED <<slot, retained, resource, deferred, last>>,
             (app' = "dropped" /\ guard' = "dropped" /\ slot # NoSession) =>
               (app = "dropped" /\ guard = "dropped")
      PROVE  LeftInv'
  <2>1. /\ (resource' # NoSession /\ resource' # slot') => Over(resource)'
        /\ (deferred' \notin {"none", NoSession} /\ deferred' # slot') => Over(deferred)'
        /\ retained' # NoSession => Over(retained)'
        /\ last' # NoSession => Over(last)'
        /\ (slot' = NoSession /\ last' # NoSession) => retained' = last'
        /\ (app' = "dropped" /\ guard' = "dropped" /\ slot' # NoSession) => Over(slot)'
    BY <1>0, <1>a, <1>s DEF LeftInv, BevyTypeOK, Over
  <2> QED
    BY <1>f, <2>1 DEF LeftInv, Over
<1>1. CASE Outside
  <2>1. UNCHANGED <<slot, retained, resource, deferred, last, app, guard>>
    BY <1>1 DEF Outside, bevyOnly, slotVars, frameVars
  <2> QED
    BY <1>a, <2>1
<1>2. ASSUME NEW s \in Sessions \cup {NoSession}, Install(s) PROVE LeftInv'
  <2>1. /\ app = "new" /\ app' = "running" /\ slot' = s /\ resource' = s
        /\ UNCHANGED <<retained, deferred, last>>
    BY <1>2 DEF Install
  <2>2. deferred = "none" /\ slot = NoSession
    BY <1>0, <2>1 DEF OwnerInv
  <2> QED
    BY <1>0, <1>f, <1>s, <2>1, <2>2 DEF LeftInv, BevyTypeOK, Over
<1>3. ASSUME NEW s \in Sessions, Attach(s) PROVE LeftInv'
  <2>1. UNCHANGED <<resource, deferred, last, app, guard>> /\ app # "dropped"
    BY <1>3 DEF Attach, frameVars
  <2>2. CASE slot = NoSession
    <3>1. slot' = s /\ retained' = NoSession
      BY <1>3, <2>2 DEF Attach
    <3> QED
      BY <1>0, <1>f, <1>s, <1>t, <2>1, <2>2, <3>1 DEF LeftInv, BevyTypeOK, Over
  <2>3. CASE slot # NoSession
    <3>1. UNCHANGED <<slot, retained>>
      BY <1>3, <2>3 DEF Attach
    <3> QED
      BY <1>a, <2>1, <3>1
  <2> QED
    BY <2>2, <2>3
<1>4. ASSUME NEW s \in Sessions, DropUnattached(s) \/ FinishDrop(s) PROVE LeftInv'
  <2>1. UNCHANGED <<slot, retained, resource, deferred, last, app, guard>>
    BY <1>4 DEF DropUnattached, FinishDrop, bevyOnly, slotVars, frameVars
  <2> QED
    BY <1>a, <2>1
<1>5. ASSUME NEW who, BeginShutdown(who) PROVE UNCHANGED <<slot, retained, resource, deferred, last>>
  BY <1>5 DEF BeginShutdown, frameVars
<1>6. CASE Detach
  <2>1. UNCHANGED <<slot, retained, resource, deferred, last, app, guard>>
    BY <1>5, <1>6 DEF Detach
  <2> QED
    BY <1>a, <2>1
<1>7. CASE GuardShutdown
  <2>1. UNCHANGED <<slot, retained, resource, deferred, last>> /\ guard' # "dropped"
    BY <1>5, <1>7 DEF GuardShutdown
  <2> QED
    BY <1>a, <2>1
<1>8. CASE GuardDropEmpty
  <2>1. UNCHANGED <<slot, retained, resource, deferred, last>> /\ slot = NoSession
    BY <1>8 DEF GuardDropEmpty, slotVars, frameVars
  <2> QED
    BY <1>a, <2>1
<1>9. CASE EndShutdown
  <2>1. /\ lock # "free" /\ Join(slot) /\ retained' = slot /\ last' = slot
        /\ slot' = (IF Releases(lock) THEN NoSession ELSE slot)
        /\ UNCHANGED <<resource, deferred>>
    BY <1>9 DEF EndShutdown, frameVars
  <2>2. slot \in Sessions
    BY <1>0, <2>1 DEF BevyTypeOK, OwnerInv
  <2>3. result'[slot] # "none" /\ cancelled'[slot]
    <3>1. result \in [Sessions -> {"none", "ok", "failed"}]
      BY <1>0 DEF WorkerInv, TypeOK
    <3>2. result'[slot] # "none"
      BY <2>1, <2>2, <3>1 DEF Join, Verdict
    <3>3. cancelled'[slot]
      BY <1>f, <2>2, <3>2
    <3> QED
      BY <3>2, <3>3
  <2> QED
    BY <1>0, <1>f, <1>s, <1>t, <2>1, <2>2, <2>3 DEF LeftInv, BevyTypeOK, Over
<1>10. CASE Observe
  <2>1. /\ deferred = "none" /\ deferred' \in {slot, "none"}
        /\ UNCHANGED <<slot, retained, resource, last, app, guard>>
    BY <1>10 DEF Observe, slotVars
  <2> QED
    BY <1>0, <1>f, <1>s, <1>t, <2>1 DEF LeftInv, BevyTypeOK, Over
<1>11. CASE ApplyDeferred
  <2>1. /\ deferred # "none" /\ resource' = deferred /\ deferred' = "none"
        /\ UNCHANGED <<slot, retained, last, app, guard>>
    BY <1>11 DEF ApplyDeferred, slotVars
  <2> QED
    BY <1>0, <1>f, <1>s, <1>t, <2>1 DEF LeftInv, BevyTypeOK, Over
<1>12. CASE SendExit \/ CancelOnExit
  <2>1. UNCHANGED <<slot, retained, resource, deferred, last>> /\ app' # "dropped"
    BY <1>12 DEF SendExit, CancelOnExit, slotVars, frameVars
  <2> QED
    BY <1>a, <2>1
<1>13. CASE DropApp
  <2>1. UNCHANGED <<slot, retained, resource, deferred, last, guard>>
    BY <1>5, <1>13 DEF DropApp, slotVars, frameVars
  <2>2. app' = app \/ guard # "dropped" \/ slot = NoSession
    BY <1>13 DEF DropApp
  <2> QED
    BY <1>a, <2>1, <2>2
<1>14. CASE UNCHANGED bevyVars
  <2>1. UNCHANGED <<slot, retained, resource, deferred, last, app, guard>>
    BY <1>14 DEF bevyVars, bevyOnly, slotVars, frameVars
  <2> QED
    BY <1>a, <2>1
<1> QED
  BY <1>1, <1>2, <1>3, <1>4, <1>6, <1>7, <1>8, <1>9, <1>10, <1>11, <1>12, <1>13, <1>14 DEF BevyNext
\* The frames keep up with the generation, and an end they show stays the slot's.
LEMMA SeenKept == ASSUME BevyInv, [BevyNext]_bevyVars PROVE SeenInv'
<1>0. OwnerInv /\ LeftInv /\ SeenInv /\ BevyTypeOK /\ WorkerInv /\ SessionStep
  BY Steps DEF BevyInv
<1>f. \A s \in Sessions : result[s] # "none" => result'[s] = result[s] /\ status'[s] = status[s]
  BY <1>0, EndIsFinal DEF Final
<1>e. \A s \in Sessions : status[s] \in {"stopped", "failed"} <=> result[s] # "none"
  BY <1>0 DEF WorkerInv, TypeOK, EndInv
<1>t. NoSession \notin Sessions /\ "none" \notin Sessions /\ NoSession # "none"
  BY SessionAssumption, BevyAssumption
<1>n. generation \in Nat /\ seen \in Int
  BY <1>0 DEF BevyTypeOK
\* An end that is shown stays the end of the same session.
<1>k. ASSUME seen = generation, state \in {"stopped", "failed"}
      PROVE  /\ slot # NoSession => status'[slot] = state
             /\ slot = NoSession =>
                  state = IF retained = NoSession \/ result'[retained] = "ok" THEN "stopped" ELSE "failed"
  <2>1. CASE slot # NoSession
    <3>1. slot \in Sessions /\ status[slot] = state
      BY <1>0, <1>k, <2>1 DEF BevyTypeOK, SeenInv
    <3> QED
      BY <1>e, <1>f, <1>k, <2>1, <3>1
  <2>2. CASE slot = NoSession
    <3>1. state = IF retained = NoSession \/ result[retained] = "ok" THEN "stopped" ELSE "failed"
      BY <1>0, <1>k, <2>2 DEF SeenInv, RetainedStatus
    <3>2. retained # NoSession => result'[retained] = result[retained]
      BY <1>0, <1>f DEF LeftInv, Over, BevyTypeOK
    <3> QED
      BY <2>2, <3>1, <3>2
  <2> QED
    BY <2>1, <2>2
<1>a. ASSUME UNCHANGED <<slot, retained, generation, seen, deferred, resource, state>> PROVE SeenInv'
  <2>1. (seen = generation /\ state \in {"stopped", "failed"}) =>
          IF slot # NoSession THEN status'[slot] = state
          ELSE state = IF retained = NoSession \/ result'[retained] = "ok" THEN "stopped" ELSE "failed"
    BY <1>k
  <2> QED
    BY <1>0, <1>a, <2>1 DEF SeenInv, RetainedStatus
<1>b. ASSUME generation' = generation + 1, seen' = seen PROVE SeenInv'
  <2>1. seen' <= generation' /\ seen' # generation'
    BY <1>0, <1>b, <1>n DEF SeenInv
  <2> QED
    BY <2>1 DEF SeenInv
<1>1. CASE Outside
  <2>1. UNCHANGED <<slot, retained, generation, seen, deferred, resource, state>>
    BY <1>1 DEF Outside, bevyOnly, slotVars, frameVars
  <2> QED
    BY <1>a, <2>1
<1>2. ASSUME NEW s \in Sessions \cup {NoSession}, Install(s) PROVE SeenInv'
  <2>1. app = "new" /\ UNCHANGED <<generation, seen>>
    BY <1>2 DEF Install
  <2>2. seen' <= generation' /\ seen' # generation'
    BY <1>0, <1>n, <2>1 DEF OwnerInv
  <2> QED
    BY <2>2 DEF SeenInv
<1>3. ASSUME NEW s \in Sessions, Attach(s) PROVE SeenInv'
  <2>1. UNCHANGED <<seen, deferred, resource, state>>
    BY <1>3 DEF Attach, frameVars
  <2>2. CASE slot = NoSession
    BY <1>3, <1>b, <2>1, <2>2 DEF Attach, NextGeneration
  <2>3. CASE slot # NoSession
    BY <1>3, <1>a, <2>1, <2>3 DEF Attach
  <2> QED
    BY <2>2, <2>3
<1>4. ASSUME NEW s \in Sessions, DropUnattached(s) \/ FinishDrop(s) PROVE SeenInv'
  <2>1. UNCHANGED <<slot, retained, generation, seen, deferred, resource, state>>
    BY <1>4 DEF DropUnattached, FinishDrop, bevyOnly, slotVars, frameVars
  <2> QED
    BY <1>a, <2>1
<1>5. CASE Detach \/ GuardShutdown \/ GuardDropEmpty \/ SendExit \/ CancelOnExit \/ DropApp
  <2>1. UNCHANGED <<slot, retained, generation, seen, deferred, resource, state>>
    BY <1>5 DEF Detach, GuardShutdown, GuardDropEmpty, SendExit, CancelOnExit, DropApp, BeginShutdown,
                slotVars, frameVars
  <2> QED
    BY <1>a, <2>1
<1>6. CASE EndShutdown
  <2>1. /\ lock # "free" /\ retained' = slot
        /\ slot' = (IF Releases(lock) THEN NoSession ELSE slot)
        /\ generation' = (IF Releases(lock) THEN generation + 1 ELSE generation)
        /\ UNCHANGED <<seen, deferred, resource, state>>
    BY <1>6 DEF EndShutdown, NextGeneration, frameVars
  <2>2. CASE Releases(lock)
    BY <1>b, <2>1, <2>2
  <2>3. CASE ~Releases(lock)
    <3>1. slot # NoSession /\ UNCHANGED <<slot, generation>>
      BY <1>0, <2>1, <2>3 DEF OwnerInv
    <3>2. (seen = generation /\ state \in {"stopped", "failed"}) => status'[slot] = state
      BY <1>k, <3>1
    <3> QED
      BY <1>0, <2>1, <3>1, <3>2 DEF SeenInv
  <2> QED
    BY <2>2, <2>3
<1>7. CASE Observe
  <2>1. /\ deferred = "none" /\ state' = ObservedState
        /\ deferred' = (IF seen # generation THEN slot ELSE "none") /\ seen' = generation
        /\ UNCHANGED <<slot, retained, generation, resource>>
    BY <1>7 DEF Observe, slotVars
  <2>2. /\ slot # NoSession => state' = status'[slot]
        /\ slot = NoSession =>
             state' = IF retained = NoSession \/ result'[retained] = "ok" THEN "stopped" ELSE "failed"
    <3>1. retained # NoSession => result'[retained] = result[retained]
      BY <1>0, <1>f DEF LeftInv, Over, BevyTypeOK
    <3> QED
      BY <2>1, <3>1 DEF ObservedState, RetainedStatus
  <2>3. deferred' = "none" => resource = slot
    BY <1>0, <1>t, <2>1 DEF SeenInv, BevyTypeOK
  <2>4. deferred' # "none" => deferred' = slot
    BY <2>1
  <2> QED
    BY <1>n, <2>1, <2>2, <2>3, <2>4 DEF SeenInv, RetainedStatus
<1>8. CASE ApplyDeferred
  <2>1. /\ deferred # "none" /\ resource' = deferred /\ deferred' = "none"
        /\ UNCHANGED <<slot, retained, generation, seen, state, status, result>>
    BY <1>8 DEF ApplyDeferred, slotVars, vars, control
  <2> QED
    BY <1>0, <2>1 DEF SeenInv, RetainedStatus
<1>9. CASE UNCHANGED bevyVars
  <2>1. UNCHANGED <<slot, retained, generation, seen, deferred, resource, state>>
    BY <1>9 DEF bevyVars, bevyOnly, slotVars, frameVars
  <2> QED
    BY <1>a, <2>1
<1> QED
  BY <1>1, <1>2, <1>3, <1>4, <1>5, <1>6, <1>7, <1>8, <1>9 DEF BevyNext

\* The invariant holds of every application.
LEMMA BevyAlways == BevySpec => []BevyInv
<1>1. BevyInv /\ [BevyNext]_bevyVars => BevyInv'
  <2> SUFFICES ASSUME BevyInv, [BevyNext]_bevyVars PROVE BevyInv'
    OBVIOUS
  <2>1. WorkerInv'
    BY Steps, WorkerKept DEF BevyInv
  <2>2. BevyTypeOK' /\ OwnerInv' /\ LeftInv' /\ SeenInv'
    BY BevyTypeStep, OwnerKept, LeftKept, SeenKept
  <2> QED
    BY <2>1, <2>2 DEF BevyInv
<1> QED
  BY <1>1, BevyStart, PTL DEF BevySpec

-----------------------------------------------------------------------------
\* Theorems

\* Through any sequence of attach and detach between two frames, a frame that has
\* followed the slot shows what it holds, or the end of the session that left it last
\* (session.rs of synctick-bevy, observe and SessionController::detach).
THEOREM FollowsSlot == BevySpec => []FrameFollowsSlot
<1>1. BevyInv => FrameFollowsSlot
  BY DEF BevyInv, SeenInv, LeftInv, FrameFollowsSlot
<1> QED
  BY <1>1, BevyAlways, PTL

\* A session that has left the slot is over, one that runs has an owner, and none that
\* was ever attached runs once the App and the guard are gone (SessionController, Drop
\* for SessionGuard and OwnedSession).
THEOREM LeftIsOver == BevySpec => []DetachedIsOver
<1>1. BevyInv => DetachedIsOver
  <2> SUFFICES ASSUME BevyInv PROVE DetachedIsOver
    OBVIOUS
  <2>0. LeftInv /\ OwnerInv /\ BevyTypeOK /\ TypeOK /\ EndInv
    BY DEF BevyInv, WorkerInv
  <2>1. (resource # NoSession /\ resource # slot) => cancelled[resource] /\ result[resource] # "none"
    BY <2>0 DEF LeftInv, Over
  <2>2. ASSUME NEW s \in Sessions, thread[s] \in Running PROVE owner[s] \in {"holds", "joins", "drops"}
    BY <2>0, <2>2 DEF TypeOK, EndInv, Running, Ended
  <2>3. ASSUME app = "dropped", guard = "dropped", NEW s \in Sessions, s \in {slot, last}
        PROVE  thread[s] \in Ended
    <3>1. result[s] # "none"
      BY <2>0, <2>3, SessionAssumption DEF LeftInv, Over
    <3> QED
      BY <2>0, <3>1 DEF EndInv
  <2> QED
    BY <2>1, <2>2, <2>3 DEF DetachedIsOver
<1> QED
  BY <1>1, BevyAlways, PTL

\* A session in an application ends as honestly as one on its own: Stopped is reported
\* only of a session somebody asked to stop and that did not fail, and a dropped handle
\* leaves no running thread, whoever of the controller, the guard and the App dropped it.
THEOREM HonestInApp == BevySpec => []EndIsHonest
<1>1. BevyInv => EndIsHonest
  BY DEF BevyInv, WorkerInv, TypeOK, EndInv, EndIsHonest, Ended
<1> QED
  BY <1>1, BevyAlways, PTL

\* The step in which the slot's owner lets go of the handle as its end is observed.
LEMMA LetGoKeepsPromise ==
  ASSUME WorkerInv, NEW s \in Sessions, LetGo(s)
  PROVE  [Promise!Next]_(Promise!vars)
<1>0. TypeOK /\ EndInv
  BY DEF WorkerInv
<1>1. /\ owner[s] = "joins" /\ thread[s] \in Ended
      /\ owner' = [owner EXCEPT ![s] = "dropped"]
      /\ UNCHANGED <<asked, accepted, taken>>
  BY DEF LetGo, Join, history
<1>2. CASE result[s] # "none"
  <2>1. status' = status
    BY <1>2 DEF LetGo, Join, control
  <2>2. View' = View
    BY <1>0, <1>1, <2>1 DEF View, TypeOK
  <2> QED
    BY <1>1, <2>2 DEF Promise!vars
<1>3. CASE result[s] = "none"
  <2>1. /\ status' = [status EXCEPT ![s] = IF Verdict(s) = "ok" THEN "stopped" ELSE "failed"]
        /\ status[s] \in {"connecting", "preparing", "live"}
    BY <1>0, <1>3 DEF LetGo, Join, EndInv
  <2>2. View[s] \in {"starting", "live"}
    BY <1>0, <1>1, <2>1 DEF View, TypeOK
  <2>3. CASE Verdict(s) = "ok"
    <3>1. View' = [View EXCEPT ![s] = "stopped"]
      BY <1>0, <1>1, <2>1, <2>3 DEF View, TypeOK
    <3>2. asked[s]
      BY <1>0, <1>3, <2>3 DEF Verdict, EndInv
    <3> QED
      BY <1>1, <2>2, <3>1, <3>2 DEF Promise!Stop, Promise!Next
  <2>4. CASE Verdict(s) # "ok"
    <3>1. View' = [View EXCEPT ![s] = "failed"]
      BY <1>0, <1>1, <2>1, <2>4 DEF View, TypeOK
    <3> QED
      BY <1>1, <2>2, <3>1 DEF Promise!Fail, Promise!Next
  <2> QED
    BY <2>3, <2>4
<1> QED
  BY <1>2, <1>3

\* Sessions that an application attaches, detaches, cancels on exit and drops keep, to
\* whoever looks at them, the promise of Lifecycle: the slot never shows one back at its
\* start, live again, or ended in two ways.
THEOREM PromiseInApp == BevySpec => KeepsPromise
<1>1. BevyInv /\ [BevyNext]_bevyVars => [Promise!Next]_(Promise!vars)
  <2> SUFFICES ASSUME BevyInv, [BevyNext]_bevyVars PROVE [Promise!Next]_(Promise!vars)
    OBVIOUS
  <2>1. SessionStep /\ WorkerInv
    BY Steps DEF BevyInv
  <2> QED
    BY <2>1, PromiseStep, LetGoKeepsPromise DEF SessionStep
<1>2. BevyInit => Promise!Init
  BY PromiseInit DEF BevyInit
<1>3. BevySpec => Promise!Init /\ [][Promise!Next]_(Promise!vars)
  BY <1>1, <1>2, BevyAlways, PTL DEF BevySpec
<1> QED
  BY <1>3 DEF KeepsPromise, Promise!Spec
=============================================================================
