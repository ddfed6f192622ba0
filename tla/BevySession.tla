---------------------------- MODULE BevySession ----------------------------
(***************************************************************************)
(* The slot through which a Bevy application owns its sessions             *)
(* (synctick-bevy/src/session.rs): the controller that attaches and        *)
(* detaches them, the guard kept outside the App, the resources the        *)
(* systems of a frame see, and the drop of everything at the end. The      *)
(* sessions are those of SessionWorker.                                    *)
(*                                                                         *)
(* The slot's mutex is held across a join. lock names who holds it while   *)
(* waiting; every other operation on the slot then waits for it.           *)
(***************************************************************************)
EXTENDS SessionWorker

VARIABLES
  slot,       \* SessionSlot.handle: a session or NoSession
  retained,   \* the session SessionSlot.result comes from; NoSession for Ok(())
  generation, \* SessionSlot.generation
  lock,       \* who waits for a join inside the slot: "free", "detach", "guard", "owner"
  guard,      \* the SessionGuard: "held", "dropping" or "dropped"
  app,        \* the App: "new", "running", "exiting" (AppExit was sent), "over", "dropped"
  seen,       \* observe's Local generation, -1 for None
  deferred,   \* the resources observe has queued: "none" or a session or NoSession
  resource,   \* the session of SessionCommands and SessionCancellation
  state,      \* SessionState: a status
  last        \* the session last detached from or shut down in the slot (history)

ASSUME BevyAssumption == "none" \notin Sessions \cup {NoSession}

slotVars  == <<slot, retained, generation, lock>>
frameVars == <<seen, deferred, resource, state>>
bevyOnly  == <<slotVars, guard, app, frameVars, last>>
bevyVars  == <<vars, bevyOnly>>

\* SessionSlot.result as a status (observe); a new slot holds Ok(()).
RetainedStatus == IF retained = NoSession \/ result[retained] = "ok" THEN "stopped" ELSE "failed"

BevyInit ==
  /\ Init
  /\ slot = NoSession /\ retained = NoSession /\ generation = 0 /\ lock = "free"
  /\ guard = "held" /\ app = "new"
  /\ seen = -1 /\ deferred = "none" /\ resource = NoSession /\ state = "stopped"
  /\ last = NoSession

\* SessionPlugin::idle, or SessionPlugin::new over a session, and Plugin::build: the
\* resources of a session that is there from the start do not wait for a frame.
Install(s) ==
  /\ app = "new" /\ app' = "running"
  /\ s # NoSession => owner[s] = "holds"
  /\ slot' = s /\ resource' = s
  /\ state' = IF s = NoSession THEN "stopped" ELSE status[s]
  /\ UNCHANGED <<vars, retained, generation, lock, guard, seen, deferred, last>>

-----------------------------------------------------------------------------
\* The slot

\* Mutant: the generation only counts detached sessions.
SameGeneration == generation

NextGeneration == generation + 1

\* SessionController::attach. The handle of a session the slot refuses is dropped,
\* which cancels and joins it; an occupied slot is left as it is.
Attach(s) ==
  /\ app \notin {"new", "dropped"} /\ lock = "free" /\ owner[s] = "holds" /\ s # slot
  /\ IF slot = NoSession
       THEN /\ slot' = s /\ retained' = NoSession /\ generation' = NextGeneration
            /\ UNCHANGED <<owner, cancelled, asked>>
       ELSE /\ RequestCancel(s)
            /\ owner' = [owner EXCEPT ![s] = "drops"]
            /\ UNCHANGED <<slot, retained, generation>>
  /\ UNCHANGED <<worker, status, commands, result, call, accepted, taken, discarded,
                 lock, guard, app, frameVars, last>>

\* SessionSlot::shutdown begins: the slot's session is cancelled and then awaited.
BeginShutdown(who) ==
  /\ lock = "free" /\ slot # NoSession
  /\ lock' = who
  /\ RequestCancel(slot)
  /\ owner' = [owner EXCEPT ![slot] = "joins"]
  /\ UNCHANGED <<worker, status, commands, result, call, accepted, taken, discarded,
                 slot, retained, generation, frameVars, last>>

\* Mutant: the handle is handed back to the caller and the session goes on.
DetachHandle ==
  /\ app \notin {"new", "dropped"} /\ lock = "free" /\ slot # NoSession
  /\ slot' = NoSession /\ last' = slot /\ retained' = slot /\ generation' = NextGeneration
  /\ UNCHANGED <<vars, lock, guard, app, frameVars>>

\* SessionController::detach. On an empty slot it only returns the retained result.
Detach == app \notin {"new", "dropped"} /\ BeginShutdown("detach") /\ UNCHANGED <<guard, app>>

\* Mutant: the guard relies on cancel_on_exit.
GuardIgnores ==
  /\ guard = "held" /\ lock = "free"
  /\ guard' = "dropped"
  /\ UNCHANGED <<vars, slotVars, app, frameVars, last>>

\* SessionGuard::shutdown, and its Drop.
GuardShutdown ==
  /\ guard = "held"
  /\ BeginShutdown("guard")
  /\ guard' \in {"held", "dropping"}
  /\ UNCHANGED app

\* A drop of the guard over an empty slot.
GuardDropEmpty ==
  /\ app # "new" /\ guard = "held" /\ lock = "free" /\ slot = NoSession
  /\ guard' = "dropped"
  /\ UNCHANGED <<vars, slotVars, app, frameVars, last>>

\* Only detach takes the handle out of the slot: after the guard's shutdown the
\* finished session still occupies it.
Releases(who) == who = "detach"

\* The join returns: the result is retained and the slot unlocked.
EndShutdown ==
  /\ lock # "free"
  /\ Join(slot)
  /\ owner' = [owner EXCEPT ![slot] = IF Releases(lock) \/ lock = "owner" THEN "dropped" ELSE "holds"]
  /\ retained' = slot /\ last' = slot
  /\ slot' = IF Releases(lock) THEN NoSession ELSE slot
  /\ generation' = IF Releases(lock) THEN NextGeneration ELSE generation
  /\ guard' = IF guard = "dropping" THEN "dropped" ELSE guard
  /\ app' = IF lock = "owner" THEN "dropped" ELSE app
  /\ lock' = "free"
  /\ UNCHANGED <<worker, commands, call, history, frameVars>>

-----------------------------------------------------------------------------
\* The frame: PreUpdate (observe and, at its end, the commands it queued), the systems
\* of the application, and cancel_on_exit in Last

\* What observe writes to SessionState.
ObservedState == IF slot # NoSession THEN status'[slot] ELSE RetainedStatus

\* observe: poll the slot's session, take its status, and queue the exchange of the
\* resources if the slot's content has changed since the last frame.
Observe ==
  /\ app \in {"running", "exiting"} /\ lock = "free" /\ deferred = "none"
  /\ IF slot # NoSession /\ thread[slot] \in Ended
       THEN Join(slot)
       ELSE UNCHANGED <<result, control>>
  /\ state' = ObservedState
  /\ deferred' = IF seen # generation THEN slot ELSE "none"
  /\ seen' = generation
  /\ UNCHANGED <<worker, commands, owner, call, history, slotVars, guard, app, resource, last>>

ApplyDeferred ==
  /\ deferred # "none"
  /\ resource' = deferred /\ deferred' = "none"
  /\ UNCHANGED <<vars, slotVars, guard, app, seen, state, last>>

\* A system sends AppExit.
SendExit ==
  /\ app = "running"
  /\ app' = "exiting"
  /\ UNCHANGED <<vars, slotVars, guard, frameVars, last>>

\* cancel_on_exit: the frame is the last one. It reaches the session the resources are
\* of, which may be another than the slot's, or none.
CancelOnExit ==
  /\ app = "exiting"
  /\ app' = "over"
  /\ IF resource # NoSession THEN RequestCancel(resource) ELSE UNCHANGED <<cancelled, asked>>
  /\ UNCHANGED <<worker, status, commands, result, owner, call, accepted, taken, discarded,
                 slotVars, guard, frameVars, last>>

\* The App is gone, and with it the controller and the plugin. If the guard is gone as
\* well, this was the last reference to the slot: OwnedSession's Drop.
DropApp ==
  /\ app = "over" /\ lock = "free"
  /\ \/ guard = "dropped" /\ BeginShutdown("owner") /\ UNCHANGED app
     \/ /\ guard # "dropped" \/ slot = NoSession
        /\ app' = "dropped"
        /\ UNCHANGED <<vars, slotVars, frameVars, last>>
  /\ UNCHANGED guard

-----------------------------------------------------------------------------
\* The owner of a session the slot does not hold yet may only drop it.
DropUnattached(s) ==
  /\ s # slot /\ owner[s] = "holds"
  /\ CallShutdown(s) /\ owner'[s] = "drops"
  /\ UNCHANGED bevyOnly

FinishDrop(s) ==
  /\ owner[s] = "drops" /\ Joined(s)
  /\ UNCHANGED bevyOnly

\* Everything the workers and the holders of a control clone do. Submissions, which the
\* slot does not notice, are left to SessionWorker.
Outside ==
  /\ \/ \E s \in Sessions, k \in Kinds : StartSession(s, k)
     \/ \E s \in Sessions : WorkerStep(s) \/ Cancel(s)
  /\ UNCHANGED bevyOnly

BevyNext ==
  \/ Outside
  \/ \E s \in Sessions \cup {NoSession} : Install(s)
  \/ \E s \in Sessions : Attach(s) \/ DropUnattached(s) \/ FinishDrop(s)
  \/ Detach \/ GuardShutdown \/ GuardDropEmpty \/ EndShutdown
  \/ Observe \/ ApplyDeferred \/ SendExit \/ CancelOnExit \/ DropApp

\* A frame that has begun goes on, an App that was told to exit is over in the end, a
\* join returns, and main drops what it holds: the guard once the App has returned.
BevyFairness ==
  /\ \A s \in Sessions :
       /\ WF_bevyVars(BeginWork(s) /\ UNCHANGED bevyOnly)
       /\ WF_bevyVars(SeeCancel(s) /\ UNCHANGED bevyOnly)
  /\ \A s \in Sessions : WF_bevyVars(FinishDrop(s))
  /\ WF_bevyVars(EndShutdown) /\ WF_bevyVars(ApplyDeferred) /\ WF_bevyVars(CancelOnExit)
  /\ WF_bevyVars(app \in {"over", "dropped"} /\ GuardShutdown /\ guard' = "dropping")
  /\ WF_bevyVars(app \in {"over", "dropped"} /\ GuardDropEmpty)

BevySpec == BevyInit /\ [][BevyNext]_bevyVars /\ BevyFairness

-----------------------------------------------------------------------------
\* Properties

\* Once a frame has followed the slot, it shows what the slot holds, through any
\* sequence of attach and detach between two frames: the resources are of its session;
\* a status shown as ended is the end of that session, or of the one that left, and
\* neither a failure shown as a stop nor a new session shown as ended. An empty slot
\* keeps the result of the session that left it last, whatever was refused meanwhile
\* (observe; SessionController::detach: "repeated calls return the same result until
\* another session is attached").
FrameFollowsSlot ==
  /\ (seen = generation /\ deferred = "none") => resource = slot
  /\ (seen = generation /\ lock = "free" /\ state \in {"stopped", "failed"})
       => IF slot # NoSession THEN status[slot] = state ELSE RetainedStatus = state
  /\ (slot = NoSession /\ last # NoSession) => retained = last

\* What has left the slot is over. The systems of a frame may hold the resources of such
\* a session: nothing they submit goes to a session other than the one they were given,
\* and nothing is accepted. A session that runs is in the slot, or with the code that is
\* about to attach or drop it; once the guard and the App are gone, none runs that was
\* ever attached (SessionController::attach and detach; Drop for SessionGuard and
\* OwnedSession).
DetachedIsOver ==
  /\ (resource # NoSession /\ resource # slot) => cancelled[resource] /\ result[resource] # "none"
  /\ \A s \in Sessions :
       thread[s] \in Running => owner[s] \in {"holds", "joins", "drops"}
  /\ (app = "dropped" /\ guard = "dropped" /\ lock = "free") =>
       \A s \in Sessions : s \in {slot, last} => thread[s] \in Ended

\* An App that exits takes its session with it as long as main keeps the guard, even
\* when cancel_on_exit found the resources of another session or none (SessionGuard).
ExitEndsSession ==
  \A s \in Sessions :
    (app = "exiting" /\ guard = "held" /\ slot = s) ~> thread[s] \in Ended
=============================================================================
