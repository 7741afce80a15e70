------------------------------ MODULE EventLog ------------------------------
(***************************************************************************)
(* The event bus of a bridge process, its persistence sink, and the way    *)
(* the process starts and stops them (runtime/src/event-bus/               *)
(* in-memory-event-bus.ts and persistence-sink.ts, bridge/src/             *)
(* server-entry.ts).                                                       *)
(*                                                                         *)
(* An event is known by the sequence number the bus gave it and by an id   *)
(* that is never given twice.  The sink gathers events in a buffer, writes *)
(* the buffer to a log as a batch, by a timer or when it is full, and then *)
(* saves the last sequence it has seen as its cursor: three awaited calls  *)
(* of the file system.  A new process emits its first event, reads the     *)
(* cursor, and imports the events of the log that lie in the replay window. *)
(***************************************************************************)
EXTENDS Naturals, SequencesExt

CONSTANTS
    Batch,        \* flushBatchSize
    MaxEvents,    \* bound on the events ever emitted
    MaxLives,     \* bound on the processes, one after the other
    MaxFail,      \* bound on failing calls of the file system
    CleanExit,    \* TRUE: a process ends only when its shutdown is over
    FullWindow,   \* TRUE: the replay window covers the whole log
    SlowStart     \* TRUE: the first flush may come before the cursor is read

Parameters ==
    /\ {Batch, MaxLives} \subseteq Nat \ {0}
    /\ {MaxEvents, MaxFail} \subseteq Nat
    /\ {CleanExit, FullWindow, SlowStart} \subseteq BOOLEAN

ASSUME EventLogAssumption == Parameters

VARIABLES
    phase,        \* what the process is doing
    sequence,     \* the bus's counter
    sink,         \* the persistence sink
    log,          \* the log file
    cursor,       \* the sink's entry in the cursors file
    saving,       \* the shutdown's own rewrite of the cursors file
    emitted,      \* events emitted so far, by all processes
    fresh,        \* the events this process emitted
    lives, failures

vars == <<phase, sequence, sink, log, cursor, saving, emitted, fresh, lives, failures>>

Event == [sequence : 1 .. MaxEvents, id : 1 .. MaxEvents]

FreshSink == [buffer |-> <<>>, batch |-> <<>>, last |-> 0, timer |-> FALSE, pc |-> "idle",
              pending |-> 0]

TypeOK ==
    /\ phase \in {"down", "starting", "initialized", "live", "stopping", "disposed"}
    /\ sequence \in 0 .. MaxEvents
    /\ sink \in [buffer : Seq(Event), batch : Seq(Event), last : 0 .. MaxEvents, timer : BOOLEAN,
                 pc : {"idle", "append", "load", "save"}, pending : 0 .. MaxEvents]
    /\ log \in Seq(Event)
    /\ cursor \in 0 .. MaxEvents
    /\ saving \in [pc : {"none", "load", "save", "done"}, value : 0 .. MaxEvents]
    /\ emitted \in 0 .. MaxEvents
    /\ fresh \subseteq Event
    /\ lives \in 0 .. MaxLives /\ failures \in 0 .. MaxFail

NotSaving == [pc |-> "none", value |-> 0]

Init ==
    /\ phase = "down"
    /\ sequence = 0
    /\ sink = FreshSink
    /\ log = <<>>
    /\ cursor = 0
    /\ saving = NotSaving
    /\ emitted = 0
    /\ fresh = {}
    /\ lives = 0 /\ failures = 0

-----------------------------------------------------------------------------
(* The sink's synchronous parts. *)

\* flush, up to its first await: nothing if a flush runs or there is nothing.
BeginFlush(k) ==
    IF k.pc # "idle" \/ k.buffer = <<>> THEN k
    ELSE [k EXCEPT !.pc = "append", !.batch = k.buffer, !.buffer = <<>>, !.timer = FALSE]

SkipsNext(k, e) ==
    LET fed == [k EXCEPT !.buffer = Append(@, e), !.last = e.sequence] IN
    IF e.sequence <= k.last + 1 THEN k
    ELSE IF Len(fed.buffer) >= Batch THEN BeginFlush(fed)
    ELSE [fed EXCEPT !.timer = TRUE]

\* onEvent: sequences up to the last one seen are taken for persisted.
OnEvent(k, e) ==
    LET fed == [k EXCEPT !.buffer = Append(@, e), !.last = e.sequence] IN
    IF e.sequence <= k.last THEN k
    ELSE IF Len(fed.buffer) >= Batch THEN BeginFlush(fed)
    ELSE [fed EXCEPT !.timer = TRUE]

-----------------------------------------------------------------------------
(* The bus. *)

\* emit, on a sink in state k.
EmitTo(k) ==
    LET e == [sequence |-> sequence + 1, id |-> emitted + 1] IN
    /\ emitted < MaxEvents
    /\ sequence' = sequence + 1
    /\ emitted' = emitted + 1
    /\ fresh' = fresh \cup {e}
    /\ sink' = OnEvent(k, e)

ImportLast(events) == IF events = <<>> THEN sequence ELSE Last(events).sequence

\* importEvent for each event of a replay: the counter never falls behind one.
Import(events) ==
    Max({sequence} \cup {e.sequence : e \in Range(events)})

-----------------------------------------------------------------------------
(* A process from its start to its end. *)

\* system.bridge_starting is emitted before the cursor is read.
Start ==
    /\ phase = "down"
    /\ lives < MaxLives
    /\ lives' = lives + 1
    /\ phase' = "starting"
    /\ EmitTo(FreshSink)
    /\ UNCHANGED <<log, cursor, saving, failures>>

InitSink ==
    /\ phase = "starting"
    /\ phase' = "initialized"
    /\ sink' = [sink EXCEPT !.last = cursor]
    /\ UNCHANGED <<sequence, log, cursor, saving, emitted, fresh, lives, failures>>

\* replay: the events not older than the window, which are the log's last ones.
Replay(from) ==
    LET events == SubSeq(log, from, Len(log)) IN
    /\ phase = "initialized"
    /\ FullWindow => from = 1
    /\ phase' = "live"
    /\ sequence' = Import(events)
    /\ sink' = FoldLeft(OnEvent, sink, events)
    /\ UNCHANGED <<log, cursor, saving, emitted, fresh, lives, failures>>

\* Until the process is gone: the sessions killed on shutdown emit as well.
Emit ==
    /\ phase \in {"live", "stopping", "disposed"}
    /\ EmitTo(sink)
    /\ UNCHANGED <<phase, log, cursor, saving, lives, failures>>

\* gracefulShutdown emits system.bridge_stopping, and then awaits the server.
Stop ==
    /\ phase = "live"
    /\ phase' = "stopping"
    /\ EmitTo(sink)
    /\ UNCHANGED <<log, cursor, saving, lives, failures>>

\* dispose, not awaited, and next to it the rewrite of the cursors file for the
\* sake of another sink's entry.
Dispose ==
    /\ phase = "stopping"
    /\ phase' = "disposed"
    /\ sink' = BeginFlush([sink EXCEPT !.timer = FALSE])
    /\ saving' = [saving EXCEPT !.pc = "load"]
    /\ UNCHANGED <<sequence, log, cursor, emitted, fresh, lives, failures>>

ShutdownLoad ==
    /\ saving.pc = "load"
    /\ saving' = [pc |-> "save", value |-> cursor]
    /\ UNCHANGED <<phase, sequence, sink, log, cursor, emitted, fresh, lives, failures>>

ShutdownSave ==
    /\ saving.pc = "save"
    /\ cursor' = saving.value
    /\ saving' = [saving EXCEPT !.pc = "done"]
    /\ UNCHANGED <<phase, sequence, sink, log, emitted, fresh, lives, failures>>

\* The process exits, or dies: what it had in memory is gone.
End ==
    /\ phase # "down"
    /\ CleanExit => /\ phase = "disposed"
                    /\ sink.pc = "idle"
                    /\ saving.pc = "done"
    /\ phase' = "down"
    /\ sequence' = 0
    /\ sink' = FreshSink
    /\ saving' = NotSaving
    /\ fresh' = {}
    /\ UNCHANGED <<log, cursor, emitted, lives, failures>>

-----------------------------------------------------------------------------
(* The sink's timer and its file operations. *)

FireTimer ==
    /\ sink.timer
    /\ phase \in {"starting", "initialized"} => SlowStart
    /\ sink' = BeginFlush([sink EXCEPT !.timer = FALSE])
    /\ UNCHANGED <<phase, sequence, log, cursor, saving, emitted, fresh, lives, failures>>

AppendBatch ==
    /\ sink.pc = "append"
    /\ log' = log \o sink.batch
    /\ sink' = [sink EXCEPT !.batch = <<>>, !.pc = "load"]
    /\ UNCHANGED <<phase, sequence, cursor, saving, emitted, fresh, lives, failures>>

PutBackLast(k) == [k EXCEPT !.buffer = @ \o k.batch, !.batch = <<>>, !.pc = "idle"]

\* A failed batch goes before what has arrived meanwhile.
PutBack(k) == [k EXCEPT !.buffer = k.batch \o @, !.batch = <<>>, !.pc = "idle"]

\* The append fails: the overflow callback emits an event, into the buffer that
\* the failed batch is then put before.
AppendFails ==
    LET e == [sequence |-> sequence + 1, id |-> emitted + 1] IN
    /\ sink.pc = "append"
    /\ failures < MaxFail
    /\ emitted < MaxEvents
    /\ failures' = failures + 1
    /\ sequence' = sequence + 1
    /\ emitted' = emitted + 1
    /\ fresh' = fresh \cup {e}
    /\ sink' = PutBack(OnEvent(sink, e))
    /\ UNCHANGED <<phase, log, cursor, saving, lives>>

\* saveCursor: what is written is the last sequence seen, not the last logged.
LoadCursors ==
    /\ sink.pc = "load"
    /\ sink' = [sink EXCEPT !.pc = "save", !.pending = sink.last]
    /\ UNCHANGED <<phase, sequence, log, cursor, saving, emitted, fresh, lives, failures>>

SaveCursors ==
    /\ sink.pc = "save"
    /\ cursor' = sink.pending
    /\ sink' = [sink EXCEPT !.pc = "idle", !.pending = 0]
    /\ UNCHANGED <<phase, sequence, log, saving, emitted, fresh, lives, failures>>

\* Reading the file fails as an empty file does, so only the write can fail.
SaveFails ==
    /\ sink.pc = "save"
    /\ failures < MaxFail
    /\ failures' = failures + 1
    /\ sink' = [sink EXCEPT !.pc = "idle", !.pending = 0]
    /\ UNCHANGED <<phase, sequence, log, cursor, saving, emitted, fresh, lives>>

File == AppendBatch \/ LoadCursors \/ SaveCursors

Next ==
    \/ Start \/ InitSink \/ Emit \/ Stop \/ Dispose \/ ShutdownLoad \/ ShutdownSave \/ End
    \/ \E from \in 1 .. Len(log) + 1 : Replay(from)
    \/ FireTimer \/ File \/ AppendFails \/ SaveFails

Spec == Init /\ [][Next]_vars

\* Timers fire and file operations return.
FairSpec == Spec /\ WF_vars(FireTimer) /\ WF_vars(File \/ AppendFails \/ SaveFails)

-----------------------------------------------------------------------------

InMemory == Range(sink.buffer) \cup Range(sink.batch)

\* Every event this process emitted is in the log or on its way there.
NoneSkipped == fresh \subseteq Range(log) \cup InMemory

\* No event is in the log twice.
LogUnique == \A i, j \in 1 .. Len(log) : i # j => log[i].id # log[j].id

\* The log, and what is on its way to it, is in the order of emission, retries
\* after failed appends included.
LogOrdered ==
    LET all == log \o sink.batch \o sink.buffer IN
    \A i, j \in 1 .. Len(all) : i < j => all[i].id < all[j].id

\* The two promises as far as the code keeps them: for a process that starts
\* with an empty log, whatever fails in it.
FirstLife == lives <= 1

\* flush: a failed batch goes back before the events that came in meanwhile, the
\* one about the failure included.
OrderedInOneLife == FirstLife => LogOrdered

\* onEvent and flush: no event is dropped, by a full batch during a flush, a
\* failed append, or the stop of the process, before the process ends.
CompleteInOneLife == FirstLife => NoneSkipped

\* Once a process takes events, it numbers them after everything in the log.
FreshSequence ==
    phase \in {"live", "stopping", "disposed"} =>
        \A i \in 1 .. Len(log) : log[i].sequence <= sequence

\* The saved cursor does not run ahead of the log: the cursor vouches for every
\* event of the process up to it.
CursorLogged ==
    \A e \in fresh : (phase # "starting" /\ e.sequence <= cursor) => e \in Range(log)

\* dispose writes what the sink holds ("flush remaining buffer"): it leaves
\* nothing in the buffer for a timer that it has just cleared.
DisposeFlushes == [][ (phase # "disposed" /\ phase' = "disposed") => sink'.buffer = <<>> ]_vars

\* What a working process has in the buffer is written to the log in time.
Flushed == \A id \in 1 .. MaxEvents :
    (\E e \in InMemory : e.id = id) ~>
        (phase # "live" \/ \E e \in Range(log) : e.id = id)

-----------------------------------------------------------------------------
(* What the proofs rest on. *)

\* A process that is gone has left nothing in memory.
DownIsEmpty ==
    phase = "down" => sequence = 0 /\ sink = FreshSink /\ fresh = {} /\ saving = NotSaving

OnlyAppendsHoldABatch == sink.pc # "append" => sink.batch = <<>>

Upto(n) == [sequence : 1 .. n, id : 1 .. MaxEvents]

\* What the sink has taken in, the bus has numbered; and once a process has
\* imported the whole log, so it has the events of the log.
SeenIsNumbered ==
    /\ sequence <= emitted
    /\ {sink.last, sink.pending, cursor, saving.value} \subseteq 0 .. emitted
    /\ sink.buffer \in Seq(Upto(sequence)) /\ sink.batch \in Seq(Upto(sequence))
    /\ log \in Seq(Upto(emitted))
    /\ (FullWindow /\ phase \in {"live", "stopping", "disposed"}) => log \in Seq(Upto(sequence))

\* The events of the first life, in the order of emission.
Numbered(n) == [i \in 1 .. n |-> [sequence |-> i, id |-> i]]

\* Log, batch and buffer of the first process are just what it has emitted: the
\* log is empty while the cursor is read, so the replay brings nothing back.
FirstLifeInOrder ==
    /\ lives = 0 => phase = "down" /\ log = <<>> /\ emitted = 0
    /\ (lives = 1 /\ phase = "down") => log = Numbered(Len(log))
    /\ (lives = 1 /\ phase # "down") =>
           /\ log \o sink.batch \o sink.buffer = Numbered(emitted)
           /\ fresh = Range(Numbered(emitted))
           /\ sequence = emitted /\ sink.last <= sequence
    /\ (lives = 1 /\ phase \in {"starting", "initialized"}) =>
           log = <<>> /\ sink.pc = "idle" /\ Len(sink.buffer) = 1

SeenInv == TypeOK /\ DownIsEmpty /\ SeenIsNumbered

IInv == SeenInv /\ OnlyAppendsHoldABatch /\ FirstLifeInOrder

=============================================================================
