--------------------------- MODULE SessionWorker ---------------------------
(***************************************************************************)
(* A session as its owner sees it: the worker thread (session.rs,          *)
(* SessionWorker), the control it shares with the handle and every clone   *)
(* of the command sender (session.rs, SessionControl), the handle and the  *)
(* senders (api.rs, SessionHandle and CommandSender::submit). What the     *)
(* worker does is that of run_server and run_client as far as it shows     *)
(* here: it drains the command queue, publishes its status and ends.       *)
(*                                                                         *)
(* A definition marked "Mutant" is the form a plausible bug would give the *)
(* definition after it; it is no part of the model.                        *)
(***************************************************************************)
EXTENDS Integers, Sequences

CONSTANTS
  Sessions,   \* the sessions the application starts
  Callers,    \* threads holding a clone of the command sender; a caller's
              \* commands are told apart by the caller alone
  NoSession,  \* "no call is in progress"
  Kinds,      \* of host, dedicated_server and connect, those used
  Capacity,   \* command_capacity
  MaxAccepted \* bound: commands a session accepts

ASSUME SessionAssumption ==
  /\ NoSession \notin Sessions
  /\ Kinds \subseteq {"host", "dedicated", "replica"}
  /\ Capacity \in Nat \ {0}
  /\ MaxAccepted \in Nat

VARIABLES
  kind,      \* which call started the session
  thread,    \* the worker: "none", "spawned", "starting", "live", or how it ended
  cancelled, \* SessionControl's flag
  status,    \* SessionControl's status; "preparing" is Loading, Waiting or AwaitingStart
  receiver,  \* the worker's end of the command queue is alive
  queue,     \* the command queue
  result,    \* the SessionWorker's retained result
  owner,     \* the handle's owner: "none", "holds", "joins", "drops", "dropped"
  asking,    \* the session a caller has found not cancelled, before it looks further
  found,     \* the session a caller has found live, and is about to send to
  asked,     \* the owner or a control clone cancelled (history)
  accepted,  \* commands submit has returned Ok for (history)
  taken,     \* commands the live worker has drained (history)
  discarded  \* commands drained before the session was live (history)

worker   == <<kind, thread>>
control  == <<cancelled, status>>
commands == <<receiver, queue>>
call     == <<asking, found>>
history  == <<asked, accepted, taken, discarded>>
vars     == <<worker, control, commands, result, owner, call, history>>

Running == {"spawned", "starting", "live"}
Ended   == {"ok", "error", "panic"}

Init ==
  /\ kind = [s \in Sessions |-> "none"]
  /\ thread = [s \in Sessions |-> "none"]
  /\ cancelled = [s \in Sessions |-> FALSE]
  /\ status = [s \in Sessions |-> "connecting"]
  /\ receiver = [s \in Sessions |-> TRUE]
  /\ queue = [s \in Sessions |-> <<>>]
  /\ result = [s \in Sessions |-> "none"]
  /\ owner = [s \in Sessions |-> "none"]
  /\ asking = [u \in Callers |-> NoSession] /\ found = [u \in Callers |-> NoSession]
  /\ asked = [s \in Sessions |-> FALSE]
  /\ accepted = [s \in Sessions |-> <<>>]
  /\ taken = [s \in Sessions |-> <<>>]
  /\ discarded = [s \in Sessions |-> <<>>]

-----------------------------------------------------------------------------
\* The worker thread

\* host, dedicated_server or connect, once the configuration is valid.
StartSession(s, k) ==
  /\ thread[s] = "none"
  /\ kind' = [kind EXCEPT ![s] = k]
  /\ thread' = [thread EXCEPT ![s] = "spawned"]
  /\ owner' = [owner EXCEPT ![s] = "holds"]
  /\ UNCHANGED <<control, commands, result, call, history>>

\* A dedicated server drops its receiver: its command handle stays disabled.
HasReceiver(s) == kind[s] # "dedicated"

BeginWork(s) ==
  /\ thread[s] = "spawned"
  /\ thread' = [thread EXCEPT ![s] = "starting"]
  /\ receiver' = [receiver EXCEPT ![s] = HasReceiver(s)]
  /\ UNCHANGED <<kind, control, queue, result, owner, call, history>>

\* Mutant: a replica that has announced itself ready reports Live at once.
Announced(s) == {"preparing", "live"}

\* The statuses published before the session is live.
Published(s) == {"preparing"}

\* Loading, receiving a save, waiting at the barrier: the status follows.
Prepare(s) ==
  /\ thread[s] = "starting"
  /\ \E st \in Published(s) : status' = [status EXCEPT ![s] = st]
  /\ UNCHANGED <<worker, cancelled, commands, result, owner, call, history>>

\* The barrier opened (run_session), or Start arrived (start_live).
GoLive(s) ==
  /\ thread[s] = "starting"
  /\ thread' = [thread EXCEPT ![s] = "live"]
  /\ status' = [status EXCEPT ![s] = "live"]
  /\ UNCHANGED <<kind, cancelled, commands, result, owner, call, history>>

\* drain_local and forward_inputs: before the session is live commands are thrown
\* away, afterwards they go into a tick or to the authority.
Drain(s) ==
  /\ thread[s] \in {"starting", "live"} /\ receiver[s] /\ queue[s] # <<>>
  /\ queue' = [queue EXCEPT ![s] = Tail(@)]
  /\ IF thread[s] = "live"
       THEN /\ taken' = [taken EXCEPT ![s] = Append(@, Head(queue[s]))]
            /\ UNCHANGED discarded
       ELSE /\ discarded' = [discarded EXCEPT ![s] = Append(@, Head(queue[s]))]
            /\ UNCHANGED taken
  /\ UNCHANGED <<worker, control, receiver, result, owner, call, asked, accepted>>

\* The worker's closure returns or unwinds: its receiver is dropped, and with it the
\* commands nobody has drained.
Return(s, how) ==
  /\ thread' = [thread EXCEPT ![s] = how]
  /\ receiver' = [receiver EXCEPT ![s] = FALSE]
  /\ queue' = [queue EXCEPT ![s] = <<>>]
  /\ UNCHANGED <<kind, control, result, owner, call, history>>

\* Mutant: nobody looks at the flag while the session starts.
SeeCancelLive(s) == thread[s] = "live" /\ cancelled[s] /\ Return(s, "ok")

\* Every loop of run_server and run_client ends well only by finding the flag set.
SeeCancel(s) == thread[s] \in {"starting", "live"} /\ cancelled[s] /\ Return(s, "ok")

Fail(s) == thread[s] \in {"starting", "live"} /\ Return(s, "error")

Panic(s) == thread[s] \in {"starting", "live"} /\ Return(s, "panic")

-----------------------------------------------------------------------------
\* CommandSender::submit. The flag is read, then the status, then the command is sent:
\* the session may be cancelled, go live or end in between. A refused submission changes
\* nothing.

\* A call whose session is not cancelled goes on; any other one returns at once.
CheckFlag(u, s) ==
  /\ asking[u] = NoSession /\ found[u] = NoSession /\ owner[s] # "none"
  /\ ~cancelled[s]
  /\ asking' = [asking EXCEPT ![u] = s]
  /\ UNCHANGED <<worker, control, commands, result, owner, found, history>>

\* Live, or NotLive or Stopped.
CheckLive(u) ==
  /\ asking[u] # NoSession
  /\ found' = [found EXCEPT ![u] = IF status[asking[u]] = "live" THEN asking[u] ELSE NoSession]
  /\ asking' = [asking EXCEPT ![u] = NoSession]
  /\ UNCHANGED <<worker, control, commands, result, owner, history>>

\* try_send: Ok, Full or Stopped.
Send(u) ==
  /\ found[u] # NoSession
  /\ LET s == found[u]
     IN IF receiver[s] /\ Len(queue[s]) < Capacity /\ Len(accepted[s]) < MaxAccepted
          THEN /\ queue' = [queue EXCEPT ![s] = Append(@, u)]
               /\ accepted' = [accepted EXCEPT ![s] = Append(@, u)]
          ELSE UNCHANGED <<queue, accepted>>
  /\ found' = [found EXCEPT ![u] = NoSession]
  /\ UNCHANGED <<worker, control, receiver, result, owner, asking, asked, taken, discarded>>

-----------------------------------------------------------------------------
\* The handle. join observes how the thread ended, publishes it and keeps it.

\* Mutant: a cancelled session has stopped, however it ended.
VerdictCancelled(s) == IF cancelled[s] THEN "ok" ELSE "failed"

Verdict(s) == IF thread[s] = "ok" /\ cancelled[s] THEN "ok" ELSE "failed"

\* Mutant: a join repeated after a failure finds the flag set and reports Stopped.
RejoinStops(s) ==
  /\ thread[s] \in Ended
  /\ result' = [result EXCEPT ![s] = Verdict(s)]
  /\ status' = [status EXCEPT ![s] = IF cancelled[s] THEN "stopped" ELSE "failed"]
  /\ cancelled' = [cancelled EXCEPT ![s] = TRUE]

\* SessionWorker::join on a thread that has ended; a repeated join changes nothing.
Join(s) ==
  /\ thread[s] \in Ended
  /\ IF result[s] # "none"
       THEN UNCHANGED <<result, control>>
       ELSE /\ result' = [result EXCEPT ![s] = Verdict(s)]
            /\ status' = [status EXCEPT ![s] = IF Verdict(s) = "ok" THEN "stopped" ELSE "failed"]
            /\ cancelled' = [cancelled EXCEPT ![s] = TRUE]

\* SessionWorker::poll joins only a thread that has finished, so it never waits.
Poll(s) ==
  /\ owner[s] = "holds"
  /\ Join(s)
  /\ UNCHANGED <<worker, commands, owner, call, history>>

\* SessionHandle::join: the owner waits.
CallJoin(s) ==
  /\ owner[s] = "holds"
  /\ owner' = [owner EXCEPT ![s] = "joins"]
  /\ UNCHANGED <<worker, control, commands, result, call, history>>

RequestCancel(s) ==
  /\ cancelled' = [cancelled EXCEPT ![s] = TRUE]
  /\ asked' = [asked EXCEPT ![s] = TRUE]

\* SessionHandle::cancel, or cancel on a clone of the control, at any time.
Cancel(s) ==
  /\ owner[s] # "none"
  /\ RequestCancel(s)
  /\ UNCHANGED <<worker, status, commands, result, owner, call, accepted, taken, discarded>>

\* SessionHandle::shutdown (and then the owner holds the handle still) and its Drop.
CallShutdown(s) ==
  /\ owner[s] = "holds"
  /\ RequestCancel(s)
  /\ \E how \in {"joins", "drops"} : owner' = [owner EXCEPT ![s] = how]
  /\ UNCHANGED <<worker, status, commands, result, call, accepted, taken, discarded>>

\* The thread has ended and the waiting owner goes on.
Joined(s) ==
  /\ owner[s] \in {"joins", "drops"}
  /\ Join(s)
  /\ owner' = [owner EXCEPT ![s] = IF @ = "joins" THEN "holds" ELSE "dropped"]
  /\ UNCHANGED <<worker, commands, call, history>>

-----------------------------------------------------------------------------
WorkerStep(s) ==
  BeginWork(s) \/ Prepare(s) \/ GoLive(s) \/ Drain(s) \/ SeeCancel(s) \/ Fail(s) \/ Panic(s)

Submission ==
  \E u \in Callers : CheckLive(u) \/ Send(u) \/ \E s \in Sessions : CheckFlag(u, s)

OwnerStep(s) == Poll(s) \/ CallJoin(s) \/ Cancel(s) \/ CallShutdown(s) \/ Joined(s)

Next ==
  \/ \E s \in Sessions, k \in Kinds : StartSession(s, k)
  \/ \E s \in Sessions : WorkerStep(s) \/ OwnerStep(s)
  \/ Submission

\* The operating system runs a worker that is not blocked, and lets a join return once
\* its thread has ended. The loops poll the flag in every iteration, so a worker that
\* goes on finds it; nothing makes the owner call, or a worker go live or fail.
Fairness ==
  \A s \in Sessions :
    WF_vars(BeginWork(s)) /\ WF_vars(SeeCancel(s)) /\ WF_vars(Joined(s))

Spec == Init /\ [][Next]_vars /\ Fairness

-----------------------------------------------------------------------------
\* Properties

TypeOK ==
  /\ kind \in [Sessions -> {"none"} \cup Kinds]
  /\ thread \in [Sessions -> {"none"} \cup Running \cup Ended]
  /\ cancelled \in [Sessions -> BOOLEAN] /\ asked \in [Sessions -> BOOLEAN]
  /\ receiver \in [Sessions -> BOOLEAN]
  /\ status \in [Sessions -> {"connecting", "preparing", "live", "stopped", "failed"}]
  /\ result \in [Sessions -> {"none", "ok", "failed"}]
  /\ owner \in [Sessions -> {"none", "holds", "joins", "drops", "dropped"}]
  /\ asking \in [Callers -> Sessions \cup {NoSession}]
  /\ found \in [Callers -> Sessions \cup {NoSession}]
  /\ queue \in [Sessions -> Seq(Callers)] /\ accepted \in [Sessions -> Seq(Callers)]
  /\ taken \in [Sessions -> Seq(Callers)] /\ discarded \in [Sessions -> Seq(Callers)]

\* A command whose submission succeeded is never thrown away with the input of the
\* startup phase: whenever a worker drains before it is live, the queue is empty. As
\* long as the worker holds its receiver each of them has been drained or waits, in the
\* order of acceptance; they are lost only with the worker. A dedicated server accepts
\* none, at whatever moment of its start one is submitted (run_server.rs, drain_local;
\* run_client.rs, forward_inputs; api.rs, submit and dedicated_server).
AcceptedIsKept ==
  \A s \in Sessions :
    /\ discarded[s] = <<>>
    /\ receiver[s] => accepted[s] = taken[s] \o queue[s]
    /\ kind[s] = "dedicated" => accepted[s] = <<>>

\* Stopped is reported only for a session somebody asked to stop and whose worker
\* returned without an error: a cancellation that races a failure does not hide it,
\* and a session that ends by itself has failed. Whoever has seen the handle dropped
\* finds the thread ended and its end published (session.rs, SessionWorker::join;
\* api.rs, Drop for SessionHandle).
EndIsHonest ==
  \A s \in Sessions :
    /\ status[s] = "stopped" => asked[s] /\ thread[s] = "ok"
    /\ owner[s] = "dropped" => thread[s] \in Ended /\ status[s] \in {"stopped", "failed"}

\* An owner that waits after asking for the end gets it (api.rs, shutdown and Drop).
ShutdownReturns ==
  \A s \in Sessions :
    (owner[s] \in {"joins", "drops"} /\ asked[s]) ~> owner[s] \in {"holds", "dropped"}

\* The session the handle promises. An ended worker whose end nobody has observed
\* still looks the way it last did.
View ==
  [s \in Sessions |->
     IF owner[s] = "none" THEN "new"
     ELSE IF status[s] \in {"connecting", "preparing"} THEN "starting"
     ELSE status[s]]

Promise == INSTANCE Lifecycle WITH Commands <- Callers, view <- View

KeepsPromise == Promise!Spec
=============================================================================
