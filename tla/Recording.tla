----------------------------- MODULE Recording -----------------------------
(***************************************************************************)
(* The replay log behind a session: how run_server (run_server.rs) loads a *)
(* save, mirrors it into a new recording, serves it to the clients and     *)
(* records the live ticks, and what replay.rs makes of the file when a     *)
(* later session or the replay command reads it. Sessions follow one       *)
(* another over the same files; each may be cancelled, fail or crash, and  *)
(* what its BufWriter still holds is then lost.                            *)
(*                                                                         *)
(* A file is a sequence of cells. The header and every record take two     *)
(* cells, so that a file can end inside either; a record's cells are its   *)
(* length prefix and its payload. The simulation's state is the sequence   *)
(* of records it was computed from, and its hash is that state.            *)
(*                                                                         *)
(* A definition marked "Mutant" is the form a plausible bug would give the *)
(* definition after it; it is no part of the model.                        *)
(***************************************************************************)
EXTENDS Integers, SequencesExt

CONSTANTS
  Paths,        \* names in the file system
  NoPath,       \* an option that is not set
  Absent,       \* "no such file"
  Games,        \* initializations a header may carry
  OwnGame,      \* the one of sim.header()
  ForeignGames, \* those sim.initialize refuses
  Inputs,       \* the commands of one tick, taken as one value
  Interval,     \* hash_interval(): ticks between two flushes
  InitialFiles, \* the files found when the first session starts
  MaxLog,       \* bound: ticks of a session's log
  MaxGrowth,    \* bound: cells another process appends to a file
  MaxSessions   \* bound: sessions run one after another

ASSUME NamesAssumption ==
  /\ NoPath \notin Paths
  /\ OwnGame \in Games \ ForeignGames
  /\ ForeignGames \subseteq Games

ASSUME BoundsAssumption ==
  /\ Interval \in Nat \ {0}
  /\ MaxLog \in Nat /\ MaxGrowth \in Nat /\ MaxSessions \in Nat

Record     == [tick : Nat, inputs : Inputs]
HeaderCell == [part : {1, 2}, game : Games]
RecordCell == [part : {1, 2}, tick : Nat, inputs : Inputs]
Cell       == HeaderCell \cup RecordCell

\* Which half of the header or of a record cell i is.
Half(i) == IF i % 2 = 1 THEN 1 ELSE 2

\* What a ReplayWriter may have left in a file: a header, then records, the last of
\* them or the header itself cut short. Nothing is said of games, ticks or commands.
IsLog(cells) ==
  /\ cells \in Seq(Cell)
  /\ \A i \in DOMAIN cells :
       /\ cells[i] \in IF i <= 2 THEN HeaderCell ELSE RecordCell
       /\ cells[i].part = Half(i)
       /\ i % 2 = 0 => cells[i] = [cells[i - 1] EXCEPT !.part = 2]

ASSUME FilesAssumption ==
  /\ Absent \notin Seq(Cell)
  /\ \A found \in InitialFiles :
       /\ found \in [Paths -> Seq(Cell) \cup {Absent}]
       /\ \A p \in Paths : found[p] # Absent => IsLog(found[p])

VARIABLES
  files,     \* the file system: path -> cells, or Absent
  pc,        \* where run_server is; "idle" between sessions
  load,      \* ServerCfg.load_path
  record,    \* ServerCfg.record_path
  game,      \* the header in force
  pos,       \* cells the ReplayReader has consumed
  buffer,    \* cells in the ReplayWriter's BufWriter
  log,       \* the records the simulation has advanced through
  attempted, \* those appended to the writer, had there been one (history)
  base,      \* how many of log were loaded (history)
  cancelled, \* SessionControl's flag
  grown,     \* another process has extended the load file (history)
  save,      \* the bytes run_session serves
  joined,    \* a client holds the served save and was released
  outcome,   \* how the last session ended
  sessions,  \* sessions started so far
  growth     \* cells appended by other processes

config  == <<load, record, game>>
reader  == <<pos, base, grown>>
bounds  == <<sessions, growth>>
vars    == <<files, pc, config, reader, buffer, log, attempted, cancelled, save, joined,
             outcome, bounds>>

-----------------------------------------------------------------------------
\* The file format

\* What ReplayWriter::create and append write for a game and its records.
Encode(g, records) ==
  [i \in 1..(2 + 2 * Len(records)) |->
     IF i <= 2 THEN [part |-> Half(i), game |-> g]
     ELSE [part |-> Half(i), tick |-> records[(i - 1) \div 2].tick,
                             inputs |-> records[(i - 1) \div 2].inputs]]

Header(g)   == <<[part |-> 1, game |-> g], [part |-> 2, game |-> g]>>
Cells(r)    == <<[part |-> 1, tick |-> r.tick, inputs |-> r.inputs],
                 [part |-> 2, tick |-> r.tick, inputs |-> r.inputs]>>

\* The record a reader of cells gets at position i.
RecordAt(cells, i) == [tick |-> cells[i].tick, inputs |-> cells[i].inputs]

\* Records of a file that can be read before its end or a torn record.
Readable(cells) ==
  IF Len(cells) < 2 THEN <<>>
  ELSE [k \in 1..((Len(cells) - 2) \div 2) |-> RecordAt(cells, 2 * k + 1)]

\* Where the recording of a session stands, buffered cells included.
Written == files[record] \o buffer

-----------------------------------------------------------------------------
Init ==
  /\ files \in InitialFiles
  /\ pc = "idle" /\ load = NoPath /\ record = NoPath /\ game = OwnGame
  /\ pos = 0 /\ base = 0 /\ grown = FALSE
  /\ buffer = <<>> /\ log = <<>> /\ attempted = <<>>
  /\ cancelled = FALSE /\ save = <<>> /\ joined = FALSE
  /\ outcome = "none" /\ sessions = 0 /\ growth = 0

\* ReplayWriter::create opens with create_new.
Creatable(path) == files[path] = Absent

\* The header in force: the source's when there is one.
HeaderOf(l) == IF l = NoPath THEN OwnGame ELSE files[l][1].game

\* The options under which run_server reaches run_session: the source opens and
\* its header is read in full, the simulation accepts it, the recording is new.
Startable(l, r) ==
  /\ l # NoPath => /\ files[l] # Absent /\ Len(files[l]) >= 2
                   /\ HeaderOf(l) \notin ForeignGames
  /\ r # NoPath => Creatable(r)

\* run_server up to run_session.
StartSession(l, r) ==
  /\ pc = "idle" /\ sessions < MaxSessions /\ Startable(l, r)
  /\ pc' = IF l = NoPath THEN "loaded" ELSE "loading"
  /\ load' = l /\ record' = r /\ game' = HeaderOf(l)
  /\ pos' = IF l = NoPath THEN 0 ELSE 2
  /\ files' = IF r = NoPath THEN files ELSE [files EXCEPT ![r] = <<>>]
  /\ buffer' = IF r = NoPath THEN <<>> ELSE Header(game')
  /\ base' = 0 /\ grown' = FALSE /\ log' = <<>> /\ attempted' = <<>>
  /\ cancelled' = FALSE /\ save' = <<>> /\ joined' = FALSE /\ outcome' = "none"
  /\ sessions' = sessions + 1
  /\ UNCHANGED growth

\* A session that is refused has touched no file, unless it is the header that the
\* new recording could not take.
Refuse(l, r) ==
  /\ pc = "idle" /\ sessions < MaxSessions
  /\ \/ ~Startable(l, r) /\ UNCHANGED files
     \/ /\ Startable(l, r) /\ r # NoPath
        /\ \E n \in 0..1 : files' = [files EXCEPT ![r] = SubSeq(Header(HeaderOf(l)), 1, n)]
  /\ outcome' = "refused" /\ record' = NoPath
  /\ sessions' = sessions + 1
  /\ UNCHANGED <<pc, load, game, reader, buffer, log, attempted, cancelled, save, joined, growth>>

\* ReplayWriter::append, without a writer nothing.
AppendRecord(r) ==
  /\ attempted' = Append(attempted, r)
  /\ buffer' = IF record = NoPath THEN buffer ELSE buffer \o Cells(r)

\* The session's function returns: run_server's final flush is next.
Return(why) == pc' = "ending" /\ outcome' = why

\* replay_batch stops between two ticks, and every other loop between two rounds, when
\* it finds the session cancelled. replay_into then returns as it does at the end.
CancelSeen ==
  /\ cancelled
  /\ \/ pc \in {"loading", "loaded", "waiting", "live"} /\ Return("cancelled")
     \/ pc = "replaying" /\ pc' = "replayed" /\ UNCHANGED outcome
  /\ UNCHANGED <<files, config, reader, buffer, log, attempted, cancelled, save, joined, bounds>>

\* The replay command: the same reader and the same batches, nothing is recorded.
StartReplay(l) ==
  /\ pc = "idle" /\ sessions < MaxSessions /\ Startable(l, NoPath)
  /\ pc' = "replaying"
  /\ load' = l /\ record' = NoPath /\ game' = HeaderOf(l) /\ pos' = 2
  /\ base' = 0 /\ grown' = FALSE /\ log' = <<>> /\ attempted' = <<>>
  /\ cancelled' = FALSE /\ save' = <<>> /\ joined' = FALSE /\ outcome' = "none"
  /\ sessions' = sessions + 1
  /\ UNCHANGED <<files, buffer, growth>>

\* ReplayOutcome's flag is read after the last record.
ReplayVerdict == IF cancelled THEN "cancelled" ELSE "complete"

ReportReplay ==
  /\ pc = "replayed"
  /\ outcome' = ReplayVerdict /\ pc' = "idle"
  /\ UNCHANGED <<files, config, reader, buffer, log, attempted, cancelled, save, joined, bounds>>

\* Mutant: a torn record ends the log as its clean end would.
AtEndOrTorn == pos + 2 > Len(files[load])

\* next_record finds the end of the source, and not the middle of a record.
AtEnd == pos = Len(files[load])

\* Mutant: the record is mirrored before its tick is checked.
MirrorFirst(r) == AppendRecord(r)

\* A rejected tick must never enter a recording.
Rejected(r) == UNCHANGED <<buffer, attempted>>

\* One round of replay_batch over one record: the end of the source, a torn record, a
\* tick out of order, a tick the simulation fails after it was mirrored, or a tick
\* replayed.
ReplayRecord ==
  /\ pc \in {"loading", "replaying"} /\ ~cancelled
  /\ IF AtEnd
       THEN /\ pc' = IF pc = "loading" THEN "loaded" ELSE "replayed"
            /\ UNCHANGED <<pos, base, buffer, log, attempted, outcome>>
     ELSE IF pos + 2 > Len(files[load])
       THEN /\ Return("torn")
            /\ UNCHANGED <<pos, base, buffer, log, attempted>>
     ELSE LET r == RecordAt(files[load], pos + 1)
          IN /\ pos' = pos + 2
             /\ \/ /\ r.tick # Len(log) + 1
                   /\ Rejected(r) /\ Return("disordered")
                   /\ UNCHANGED <<base, log>>
                \/ /\ r.tick = Len(log) + 1
                   /\ AppendRecord(r)
                   /\ \/ /\ log' = Append(log, r) /\ base' = base + 1
                         /\ UNCHANGED <<pc, outcome>>
                      \/ /\ Return("simulation")
                         /\ UNCHANGED <<base, log>>
  /\ UNCHANGED <<files, config, cancelled, grown, save, joined, bounds>>

\* Mutant: the mirror is read back without being flushed.
ServeUnflushed ==
  /\ pc = "loaded" /\ ~cancelled
  /\ save' = IF record # NoPath THEN files[record]
             ELSE IF load # NoPath THEN files[load]
             ELSE Header(game)
  /\ pc' = "waiting"
  /\ UNCHANGED <<files, config, reader, buffer, log, attempted, cancelled, joined,
                 outcome, bounds>>

\* The mirror is flushed and read back; a session without a recording sends the file
\* it loaded, read a second time; a new one sends a header. metadata.tick and
\* metadata.hash are those of the simulation, so of log.
ServeSave ==
  /\ pc = "loaded" /\ ~cancelled
  /\ files' = IF record = NoPath THEN files ELSE [files EXCEPT ![record] = Written]
  /\ buffer' = <<>>
  /\ save' = IF record # NoPath THEN files'[record]
             ELSE IF load # NoPath THEN files[load]
             ELSE Header(game)
  /\ pc' = "waiting"
  /\ UNCHANGED <<config, reader, log, attempted, cancelled, joined, outcome, bounds>>

\* A client's replay of the save yields the tick and the hash of Start
\* (startup.rs, receive_start).
SaveAccepted == Len(save) % 2 = 0 /\ Readable(save) = log

\* The barrier opens (a client that refuses the save leaves it closed) and
\* run_session publishes the state it goes live with.
GoLive ==
  /\ pc = "waiting" /\ ~cancelled
  /\ \/ SaveAccepted /\ joined' = TRUE \* with one expected client
     \/ joined' = FALSE                \* with none
  /\ pc' = "live"
  /\ UNCHANGED <<files, config, reader, buffer, log, attempted, cancelled, save, outcome, bounds>>

\* Reading the source, draining the local commands, binding the socket, waiting for the
\* clients, publishing or the tick loop fails.
SessionFails ==
  /\ pc \in {"loading", "replaying", "loaded", "waiting", "live"}
  /\ Return("failed")
  /\ UNCHANGED <<files, config, reader, buffer, log, attempted, cancelled, save, joined, bounds>>

Sealed(t) == t % Interval = 0

\* Mutant: the recording is only flushed when the session ends.
NeverFlushed(t) == FALSE

\* Whether the tick loop flushes the recording after tick t.
FlushedAfter(t) == Sealed(t)

\* The tick loop records tick t and advances through it.
LiveTick(inputs) ==
  /\ pc = "live" /\ ~cancelled /\ Len(log) < MaxLog
  /\ LET r == [tick |-> Len(log) + 1, inputs |-> inputs]
     IN /\ AppendRecord(r)
        /\ \/ /\ log' = Append(log, r)
              /\ pc' = IF FlushedAfter(r.tick) THEN "flush" ELSE "live"
              /\ UNCHANGED outcome
           \/ /\ Return("simulation")
              /\ UNCHANGED log
  /\ UNCHANGED <<files, config, reader, cancelled, save, joined, bounds>>

\* The flush at a hash boundary.
FlushTick ==
  /\ pc = "flush"
  /\ files' = IF record = NoPath THEN files ELSE [files EXCEPT ![record] = Written]
  /\ buffer' = <<>> /\ pc' = "live"
  /\ UNCHANGED <<config, reader, log, attempted, cancelled, save, joined, outcome, bounds>>

\* The BufWriter is full and writes some of what it holds.
Spill ==
  /\ pc # "idle" /\ record # NoPath
  /\ \E n \in 1..Len(buffer) :
       /\ files' = [files EXCEPT ![record] = @ \o SubSeq(buffer, 1, n)]
       /\ buffer' = SubSeq(buffer, n + 1, Len(buffer))
  /\ UNCHANGED <<pc, config, reader, log, attempted, cancelled, save, joined, outcome, bounds>>

\* The file refuses bytes (the disk is full). append fails before the length, or
\* between it and the payload; a flush fails. The session ends with the error.
WriteFails ==
  /\ record # NoPath
  /\ \/ /\ pc = "live" /\ ~cancelled /\ Len(log) < MaxLog
        /\ \E i \in Inputs :
             LET r == [tick |-> Len(log) + 1, inputs |-> i]
             IN /\ attempted' = Append(attempted, r)
                /\ buffer' \in {buffer, Append(buffer, Cells(r)[1])}
     \/ /\ pc = "loading" /\ ~cancelled /\ pos + 2 <= Len(files[load])
        /\ LET r == RecordAt(files[load], pos + 1)
           IN /\ r.tick = Len(log) + 1
              /\ attempted' = Append(attempted, r)
              /\ buffer' \in {buffer, Append(buffer, Cells(r)[1])}
     \/ /\ pc \in {"loaded", "flush"}
        /\ UNCHANGED <<buffer, attempted>>
  /\ Return("io")
  /\ UNCHANGED <<files, config, reader, log, cancelled, save, joined, bounds>>

\* run_server's last flush: it empties the buffer, or fails, and then some of the
\* buffer is written as the writer is dropped.
EndSession ==
  /\ pc = "ending"
  /\ \E n \in 0..Len(buffer) :
       /\ files' = IF record = NoPath THEN files
                   ELSE [files EXCEPT ![record] = @ \o SubSeq(buffer, 1, n)]
       /\ outcome' = IF n < Len(buffer) THEN "io" ELSE outcome
  /\ buffer' = <<>> /\ pc' = "idle"
  /\ UNCHANGED <<config, reader, log, attempted, cancelled, save, joined, bounds>>

\* The process dies; what the writer had not written is gone.
Crash ==
  /\ pc # "idle"
  /\ buffer' = <<>> /\ pc' = "idle" /\ outcome' = "crashed"
  /\ UNCHANGED <<files, config, reader, log, attempted, cancelled, save, joined, bounds>>

\* SessionControl::cancel, at any time.
RequestCancel ==
  /\ pc # "idle" /\ ~cancelled
  /\ cancelled' = TRUE
  /\ UNCHANGED <<files, pc, config, reader, buffer, log, attempted, save, joined, outcome, bounds>>

\* Another process that records into the file this session loads appends a cell: the
\* second half of a torn record, or the first half of the next one.
OtherRecorder ==
  /\ pc # "idle" /\ load # NoPath /\ growth < MaxGrowth
  /\ LET cells == files[load]
         next  == Len(Readable(cells)) + 1
     IN \E cell \in IF Len(cells) % 2 = 1 THEN {[cells[Len(cells)] EXCEPT !.part = 2]}
                     ELSE [part : {1}, tick : {next}, inputs : Inputs] :
          files' = [files EXCEPT ![load] = Append(@, cell)]
  /\ grown' = TRUE /\ growth' = growth + 1
  /\ UNCHANGED <<pc, config, pos, base, buffer, log, attempted, cancelled, save, joined,
                 outcome, sessions>>

Done == pc = "idle" /\ sessions = MaxSessions /\ UNCHANGED vars

Next ==
  \/ \E l, r \in Paths \cup {NoPath} : StartSession(l, r) \/ Refuse(l, r)
  \/ \E l \in Paths : StartReplay(l)
  \/ ReportReplay \/ CancelSeen \/ ReplayRecord \/ ServeSave \/ GoLive \/ SessionFails
  \/ \E i \in Inputs : LiveTick(i)
  \/ FlushTick \/ Spill \/ WriteFails \/ EndSession \/ Crash
  \/ RequestCancel \/ OtherRecorder \/ Done

Spec == Init /\ [][Next]_vars

-----------------------------------------------------------------------------
\* Properties

TypeOK ==
  /\ files \in [Paths -> Seq(Cell) \cup {Absent}]
  /\ pc \in {"idle", "loading", "loaded", "waiting", "live", "flush", "ending",
            "replaying", "replayed"}
  /\ load \in Paths \cup {NoPath} /\ record \in Paths \cup {NoPath} /\ game \in Games
  /\ pos \in Nat /\ base \in Nat /\ sessions \in Nat /\ growth \in Nat
  /\ buffer \in Seq(Cell) /\ log \in Seq(Record) /\ attempted \in Seq(Record)
  /\ cancelled \in BOOLEAN /\ grown \in BOOLEAN /\ joined \in BOOLEAN
  /\ save \in Seq(Cell)
  /\ outcome \in {"none", "refused", "cancelled", "torn", "disordered", "simulation",
                  "failed", "io", "crashed", "complete"}

\* Whatever a session runs into, its recording holds the header of the session and,
\* in order and without a gap, ticks it attempted: the loaded ones first, under the
\* loaded header, then the live ones, at most the last of them cut short or failed by the
\* simulation. A later session that reads the file therefore replays this session's
\* history and nothing else (run_server.rs, run_server and tick_loop; replay.rs,
\* replay_batch: "a rejected tick must never enter a recording").
RecordingIsHistory ==
  record # NoPath =>
    /\ IsPrefix(Written, Encode(game, attempted))
    /\ \A i \in DOMAIN attempted : attempted[i].tick = i
    /\ IsPrefix(log, attempted) /\ Len(attempted) <= Len(log) + 1
    /\ load # NoPath => game = files[load][1].game

\* A session that has gone live from a save has replayed all of it: a torn record is an
\* error and never the silent end of the log (replay.rs, next_record).
NeverShortened ==
  (pc \in {"waiting", "live", "flush"} /\ load # NoPath /\ ~grown)
     => Encode(game, SubSeq(log, 1, base)) = files[load]

\* A replay reported as complete has replayed the whole file. The flag may be set after
\* the last record: then a complete replay is reported as cancelled, never the reverse
\* (api.rs, replay).
CompleteIsComplete ==
  (pc = "idle" /\ outcome = "complete" /\ ~grown) => Encode(game, log) = files[load]

\* No reader takes part of a recording for all of it, be it to resume or to watch it.
ReadInFull == NeverShortened /\ CompleteIsComplete

\* The save served to the clients is the one the authority's tick and hash come from,
\* although it is read from a file after the replay. Only without a recording of its
\* own can another process make them differ (run_server.rs, run_session).
ServedIsReplayed ==
  (pc = "waiting" /\ (record # NoPath \/ ~grown)) => save = Encode(game, log)

\* A client that is released holds the history the authority goes live with, even if
\* the file was extended between the replay and the second read.
ReleasedAgree == joined => IsPrefix(Readable(save), log)

\* The clients are given the authority's history: the bytes it serves are that history
\* whenever nobody else may write them, and else no client is released with another.
ServedAgree == ServedIsReplayed /\ ReleasedAgree

\* A process failure loses at most the ticks since the last flush, and never a tick of
\* the save the session was resumed from (replay.rs, ReplayWriter). It concerns sessions
\* that reached the live phase and whose writer did not fail.
LossIsBounded ==
  (record # NoPath /\ (pc \in {"live", "flush"} \/ (pc = "idle" /\ outcome = "crashed" /\ save # <<>>)))
    => /\ Len(attempted) - Len(Readable(files[record])) <= Interval
       /\ Len(Readable(files[record])) >= base
=============================================================================
