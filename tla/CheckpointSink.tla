--------------------------- MODULE CheckpointSink ---------------------------
(***************************************************************************)
(* The checkpoint sink of one session                                      *)
(* (runtime/src/sessions/session-store/checkpoint-sink-impl.ts): it turns  *)
(* the events of a session into checkpoints, debounced by a timer or, for  *)
(* events that match an opted-in filter, at once.                          *)
(*                                                                         *)
(* The agent state is known by the number of events behind it, `version'.  *)
(* A write awaits three times: for the capture of the agent state, for the *)
(* latest checkpoint of the store, and for the append.  Nothing keeps two  *)
(* writes of a session apart; `inflight' is the sink's one entry for it.   *)
(* What overlapping writes lose is tolerated here until a write that had   *)
(* the session for itself has been stored: `clean' remembers it.           *)
(* The store is taken at its word: it accepts exactly the next sequence,   *)
(* under a live lease.                                                     *)
(***************************************************************************)
EXTENDS Naturals

CONSTANTS
    Write,       \* concurrent calls of writeCheckpoint
    MaxVersion,  \* bound on the events of the session
    None

SinkParameters == MaxVersion \in Nat /\ None \notin Write

ASSUME SinkAssumption == SinkParameters

VARIABLES
    version,     \* events seen so far
    timer,       \* the debounce timer is running
    writes,      \* what each write is doing
    inflight,    \* the write the sink remembers
    stored,      \* the latest checkpoint: its sequence and the version in it
    flush,       \* the flush in progress
    promised,    \* the version that the last finished flush was to save
    disposed,
    leased,      \* the runtime holds the session's lease
    clean        \* no write has failed or run beside another since the last one that
                 \* ran alone was stored

sinkVars == <<version, timer, writes, inflight, stored, flush, promised, disposed, leased, clean>>

\* `alone': no other write has run beside this one so far.
Idle == [pc |-> "idle", captured |-> 0, sequence |-> 0, alone |-> FALSE]

SinkTypeOK ==
    /\ version \in 0 .. MaxVersion
    /\ timer \in BOOLEAN
    /\ writes \in [Write -> [pc : {"idle", "capture", "load", "append"},
                             captured : 0 .. MaxVersion, sequence : Nat, alone : BOOLEAN]]
    /\ inflight \in Write \cup {None}
    /\ stored \in [sequence : Nat, version : 0 .. MaxVersion]
    /\ flush \in [waits : Write \cup {None}, upTo : 0 .. MaxVersion] \cup {None}
    /\ promised \in 0 .. MaxVersion
    /\ disposed \in BOOLEAN /\ leased \in BOOLEAN /\ clean \in BOOLEAN

SinkInit ==
    /\ version = 0
    /\ timer = FALSE
    /\ writes = [w \in Write |-> Idle]
    /\ inflight = None
    /\ stored = [sequence |-> 0, version |-> 0]
    /\ flush = None
    /\ promised = 0
    /\ disposed = FALSE
    /\ leased = TRUE
    /\ clean = TRUE

-----------------------------------------------------------------------------

At(w, pc) == writes[w].pc = pc

Running == {w \in Write : ~ At(w, "idle")}

\* writeCheckpoint up to its first await: without a token there is no write.
StartWrite(w) ==
    IF leased
    THEN /\ At(w, "idle")
         /\ writes' = [v \in Write |->
                          IF v = w THEN [pc |-> "capture", captured |-> 0, sequence |-> 0, alone |-> Running = {}]
                                   ELSE [writes[v] EXCEPT !.alone = FALSE]]
         /\ inflight' = w
         /\ clean' = (clean /\ Running = {})
    ELSE UNCHANGED <<writes, inflight, clean>>

\* An event of an opted-in kind: a write at once, instead of the pending one.
Immediate(w) ==
    /\ version < MaxVersion
    /\ version' = version + 1
    /\ IF disposed
       THEN UNCHANGED <<timer, writes, inflight, clean>>
       ELSE timer' = FALSE /\ StartWrite(w)
    /\ UNCHANGED <<stored, flush, promised, disposed, leased>>

\* A lifecycle event: the timer starts, or starts again.
Lifecycle ==
    /\ version < MaxVersion
    /\ version' = version + 1
    /\ timer' = ~ disposed
    /\ UNCHANGED <<writes, inflight, stored, flush, promised, disposed, leased, clean>>

Fire(w) ==
    /\ timer
    /\ timer' = FALSE
    /\ StartWrite(w)
    /\ UNCHANGED <<version, stored, flush, promised, disposed, leased>>

Capture(w) ==
    /\ At(w, "capture")
    /\ writes' = [writes EXCEPT ![w] = [@ EXCEPT !.pc = "load", !.captured = version]]
    /\ UNCHANGED <<version, timer, inflight, stored, flush, promised, disposed, leased, clean>>

SameSequence(latest) == latest.sequence

NextSequence(latest) == latest.sequence + 1

Load(w) ==
    /\ At(w, "load")
    /\ writes' = [writes EXCEPT ![w] = [@ EXCEPT !.pc = "append", !.sequence = NextSequence(stored)]]
    /\ UNCHANGED <<version, timer, inflight, stored, flush, promised, disposed, leased, clean>>

\* The write is over: the session's inflight entry goes, whichever write it
\* names, and a flush that waits for this write goes on.
Finish(w) ==
    /\ writes' = [writes EXCEPT ![w] = Idle]
    /\ inflight' = None
    /\ flush' = IF flush # None /\ flush.waits = w THEN [flush EXCEPT !.waits = None] ELSE flush
    /\ UNCHANGED <<version, timer, promised, disposed, leased>>

\* The store's answer to a checkpoint under a lost lease, or out of sequence,
\* is an error, which the sink swallows.
AppendCheckpoint(w) ==
    LET accepted == leased /\ writes[w].sequence = stored.sequence + 1 IN
    /\ At(w, "append")
    /\ stored' = IF accepted THEN [sequence |-> writes[w].sequence, version |-> writes[w].captured]
                             ELSE stored
    /\ clean' = (clean \/ (writes[w].alone /\ accepted))
    /\ Finish(w)

\* The capture returns nothing, or one of the three calls fails: not retried.
GiveUp(w) ==
    /\ w \in Running
    /\ clean' = FALSE
    /\ Finish(w)
    /\ UNCHANGED stored

IgnoresRunning(w) == IF timer /\ leased THEN w ELSE None

\* The writes that a flush called now awaits: the one it starts itself for a
\* running timer, and the one the sink remembers, which is then the same.
Awaited(w) == IF timer /\ leased THEN w ELSE inflight

Flush(w) ==
    /\ flush = None
    /\ timer' = FALSE
    /\ IF timer THEN StartWrite(w) ELSE UNCHANGED <<writes, inflight, clean>>
    /\ flush' = [waits |-> Awaited(w), upTo |-> version]
    /\ UNCHANGED <<version, stored, promised, disposed, leased>>

FlushDone ==
    /\ flush # None
    /\ flush.waits = None
    /\ flush' = None
    /\ promised' = flush.upTo
    /\ UNCHANGED <<version, timer, writes, inflight, stored, disposed, leased, clean>>

DisposeSink ==
    /\ disposed' = TRUE
    /\ timer' = FALSE
    /\ UNCHANGED <<version, writes, inflight, stored, flush, promised, leased, clean>>

\* The lease is released, runs out or is taken over.
LoseLease ==
    /\ leased
    /\ leased' = FALSE
    /\ UNCHANGED <<version, timer, writes, inflight, stored, flush, promised, disposed, clean>>

SinkNext ==
    \/ \E w \in Write : \/ Immediate(w) \/ Fire(w) \/ Flush(w)
                        \/ Capture(w) \/ Load(w) \/ AppendCheckpoint(w) \/ GiveUp(w)
    \/ Lifecycle \/ FlushDone \/ DisposeSink \/ LoseLease

SinkSpec == SinkInit /\ [][SinkNext]_sinkVars

-----------------------------------------------------------------------------

Intact == leased /\ ~ disposed /\ clean

\* A later checkpoint never holds an older agent state than the one before it: the
\* code does not keep it.
NeverRegress == [][ stored'.version >= stored.version ]_sinkVars

\* With no timer running and no write under way, the latest checkpoint holds the
\* last event: none is left behind in the debouncer, and whatever writes that failed
\* or overlapped left out, the next one that has the session for itself makes good
\* (onEvent, writeCheckpoint).
QuietMeansCheckpointed == (Intact /\ ~ timer /\ Running = {}) => stored.version = version

\* When flush has returned, the events before its call are in the store, or will be
\* with the next write that has the session for itself: "flush any debounced pending
\* checkpoints ... on shutdown and before resume handoff".
FlushCovers == Intact => stored.version >= promised

\* A write that is alone is the only one, and the one that flush and pendingCount know;
\* beside another nothing is clean.
AloneIsOnly ==
    /\ \A w \in Running : writes[w].alone => Running = {w} /\ inflight = w
    /\ clean => \A w \in Running : writes[w].alone
    /\ inflight # None => inflight \in Running

\* Write w will store the given version or a later one.
WillStore(w, upTo) == At(w, "capture") \/ writes[w].captured >= upTo

\* A write that is alone captured no future state, knows the next sequence, and will
\* store all that a debounce, a flush or its promise leaves to it.
AloneWillStore ==
    \A w \in Running :
        /\ writes[w].captured <= version
        /\ writes[w].alone /\ At(w, "append") => writes[w].sequence = stored.sequence + 1
        /\ writes[w].alone /\ leased /\ ~ disposed =>
               /\ ~ timer => WillStore(w, version)
               /\ flush # None => WillStore(w, flush.upTo)
               /\ WillStore(w, promised)

\* What a flush is to save is stored, or left to the write it waits for.
FlushWaits ==
    flush # None =>
        /\ flush.upTo <= version
        /\ flush.waits # None => flush.waits \in Running
        /\ Intact /\ flush.waits = None => stored.version >= flush.upTo

\* The inductive invariant of the proofs.
SinkInv ==
    /\ SinkTypeOK
    /\ stored.version <= version /\ promised <= version
    /\ AloneIsOnly
    /\ AloneWillStore
    /\ QuietMeansCheckpointed
    /\ FlushWaits
    /\ FlushCovers

=============================================================================
