----------------------------- MODULE FileBridge -----------------------------
(***************************************************************************)
(* The MetaTrader file transport: MetaTraderFileCommandWriter appends      *)
(* commands to commands.ndjson, MetaTraderFileBridge polls that log, hands *)
(* each trade command to the user's callback and answers it in             *)
(* events.ndjson.                                                          *)
(*                                                                         *)
(* The writer and the bridge are two processes that share files only.      *)
(* Durable: the log, the reader checkpoint and the idempotency state.      *)
(* Volatile: what the bridge keeps in memory (its copy of the idempotency  *)
(* state, the last sequence, the scan cursor, the window being processed)  *)
(* and the writer's next sequence.  The bridge may die between any two of  *)
(* its file operations, and a file operation may fail.                     *)
(*                                                                         *)
(* Lines stand for bytes: every line has the same length, so an offset is  *)
(* a number of lines.  A command's method and key are one Key.  A "plain"  *)
(* command (hello, balance query, a malformed request) is answered without *)
(* the registry.  Lines that are not JSON are not modelled.                *)
(***************************************************************************)
EXTENDS Naturals, Sequences, FiniteSets

CONSTANTS
    Keys,            \* method + idempotency key of a trade command
    Payloads,        \* payload fingerprints
    Ids,             \* JSON-RPC ids
    Commands,        \* the trade commands the client sends
    NoKey, NoCommand,
    MaxSeq,          \* bound: lines ever appended
    MaxTime,         \* bound: clock
    MaxFaults,       \* bound: crashes and failed writes
    Lifetime,        \* valid_until_ms - time of writing
    Retention,       \* idempotency_retention_ms
    MaxRecords,      \* max_idempotency_records
    MaxEntries,      \* what max_idempotency_state_bytes holds, in entries
    MaxScanned,      \* max_scanned_records_per_poll
    MaxReturned,     \* max_returned_records_per_poll
    MaxLog,          \* max_command_log_bytes, in lines
    ClearDuringPoll  \* may the writer clear the log between the two reads of
                     \* one poll?  (nothing in the code prevents it)

ASSUME CommandsAssumption ==
    /\ Commands \subseteq [key : Keys, payload : Payloads, id : Ids, dated : BOOLEAN]
    /\ NoKey \notin Keys
    /\ NoCommand \notin Commands
ASSUME LimitsAssumption ==
    /\ MaxSeq \in Nat /\ MaxTime \in Nat /\ MaxFaults \in Nat
    /\ MaxRecords \in Nat \ {0} /\ MaxEntries \in Nat \ {0}
    /\ MaxScanned \in Nat \ {0, 1} /\ MaxReturned \in Nat \ {0}
    /\ MaxLog \in Nat \ {0}
    /\ ClearDuringPoll \in BOOLEAN
\* A command's lifetime (60 s when the caller gives none) is shorter than the
\* retention of its registry entry (24 h by default).
ASSUME LifetimeAssumption ==
    /\ Lifetime \in Nat \ {0} /\ Retention \in Nat /\ Lifetime < Retention

VARIABLES
    log,        \* commands.ndjson: sequence of lines
    checkpoint, \* commands.checkpoint.json, 0 when the file is missing
    disk,       \* the idempotency state file
    nextSeq,    \* writer's m_next_file_seq, 0 before initialize()
    pc,         \* where process() is
    mem,        \* m_idempotency_*: the registry in memory
    last,       \* m_last_command_file_seq
    cursor,     \* m_command_scan_offset
    first,      \* m_command_first_file_seq, 0 while not known
    budget,     \* records the current poll may still scan
    window,     \* the records of the current poll that remain
    now,        \* the clock
    faults,     \* faults so far
    sent,       \* history: the line that carried each sequence
    answers,    \* history: the results written to events.ndjson for a line
    handed,     \* history: times a line was given to the callback
    handedAt    \* history: when it was (last) given

writerVars == <<log, nextSeq, sent>>
memoryVars == <<mem, last, cursor, first>>
history    == <<answers, handed, handedAt>>
vars == <<log, checkpoint, disk, nextSeq, pc, mem, last, cursor, first, budget,
          window, now, faults, sent, answers, handed, handedAt>>

Seqs     == 1..MaxSeq
Statuses == {"in_doubt", "accepted", "rejected"}

Line == [seq : Seqs, cmd : Commands \cup {NoCommand}, until : Nat]

NoLine == [seq |-> 0, cmd |-> NoCommand, until |-> 0]

MaxOf(a, b) == IF a >= b THEN a ELSE b
MinOf(a, b) == IF a <= b THEN a ELSE b
-----------------------------------------------------------------------------
(* The idempotency registry. *)

Absent == [status |-> "absent", payload |-> NoKey, op |-> 0, at |-> 0]

Entry == [status : Statuses, payload : Payloads, op : Seqs, at : Nat] \cup {Absent}

Registry == [rec : [Keys -> Entry], tomb : [Keys -> Entry],
             index : [Ids -> Keys \cup {NoKey}], processed : Nat]

EmptyRegistry == [rec |-> [k \in Keys |-> Absent], tomb |-> [k \in Keys |-> Absent],
                  index |-> [i \in Ids |-> NoKey], processed |-> 0]

Present(entries) == {k \in Keys : entries[k] # Absent}

Expired(entry) == entry # Absent /\ now - entry.at >= Retention

\* Fault: the fingerprint is not compared.
MatchesAnything(entry, cmd) == TRUE

Matches(entry, cmd) == entry.payload = cmd.payload

\* Tombstones past the retention go, then index entries that lead nowhere.
PruneExpired(r) ==
    LET tomb == [k \in Keys |-> IF Expired(r.tomb[k]) THEN Absent ELSE r.tomb[k]]
        Stale(i) == /\ r.index[i] # NoKey
                    /\ r.rec[r.index[i]] = Absent /\ tomb[r.index[i]] = Absent
    IN  [r EXCEPT !.tomb = tomb,
                  !.index = [i \in Ids |-> IF Stale(i) THEN NoKey ELSE r.index[i]]]

\* Fault: a record in doubt may be evicted.
OldestOfAll(r) ==
    {k \in Present(r.rec) : \A j \in Present(r.rec) : r.rec[k].at <= r.rec[j].at}

\* The records that may be evicted: the oldest that are not in doubt.
Oldest(r) ==
    LET settled == {k \in Present(r.rec) : r.rec[k].status # "in_doubt"}
    IN  {k \in settled : \A j \in settled : r.rec[k].at <= r.rec[j].at}

\* Fault: an evicted record leaves no tombstone.
EvictForgets(r, k) == [r EXCEPT !.rec[k] = Absent]

Evict(r, k) == [r EXCEPT !.rec[k]  = Absent,
                         !.tomb[k] = [r.rec[k] EXCEPT !.at = now]]

\* A tombstone keeps the fingerprint and the result, so evicting by the byte
\* limit frees nothing: past the limit the write throws.
Fits(r) == Cardinality(Present(r.rec)) + Cardinality(Present(r.tomb)) <= MaxEntries

\* What a write of the registry may leave in the file: nothing when it throws.
Saved(r) ==
    LET p == PruneExpired(r)
    IN  {q \in (IF Cardinality(Present(p.rec)) <= MaxRecords
                THEN {p} ELSE {Evict(p, k) : k \in Oldest(p)}) : Fits(q)}

\* store_idempotency_result_locked, up to the write.
WithResult(r, line, status) ==
    [r EXCEPT !.rec[line.cmd.key] =
                  [status |-> status, payload |-> line.cmd.payload,
                   op |-> line.seq, at |-> now],
              !.index[line.cmd.id] = line.cmd.key]
-----------------------------------------------------------------------------
(* The command writer. *)

VisibleMax == IF log = <<>> THEN 0 ELSE log[Len(log)].seq

\* refresh_next_file_seq_locked: never below what the log or the reader shows.
\* A new writer object (known = 0) has nothing else to go by.
Refreshed(known) == MaxOf(known, MaxOf(VisibleMax, checkpoint) + 1)

CaughtUp == log # <<>> /\ checkpoint >= VisibleMax

MayTouchLog == ClearDuringPoll \/ pc # "scan"

\* append_request_locked; a full log is cleared first, when it may be.
AppendLine(cmd, until) ==
    /\ \E known \in {0, nextSeq} :
       LET clear == Len(log) >= MaxLog
           seq   == IF clear THEN checkpoint + 1 ELSE Refreshed(known)
           line  == [seq |-> seq, cmd |-> cmd, until |-> until]
       IN  /\ clear => CaughtUp /\ MayTouchLog
           /\ seq \in Seqs
           /\ log' = (IF clear THEN <<>> ELSE log) \o <<line>>
           /\ nextSeq' = seq + 1
           /\ sent' = [sent EXCEPT ![seq] = line]
    /\ UNCHANGED <<checkpoint, disk, pc, memoryVars, budget, window, now, faults, history>>

AppendTrade ==
    \E cmd \in Commands :
        IF cmd.dated THEN now + Lifetime < MaxTime /\ AppendLine(cmd, now + Lifetime)
                     ELSE AppendLine(cmd, 0)

AppendPlain == AppendLine(NoCommand, 0)

\* clear_commands_if_checkpoint_caught_up
ClearLog ==
    /\ CaughtUp /\ MayTouchLog
    /\ log' = <<>>
    /\ nextSeq' = checkpoint + 1
    /\ UNCHANGED <<checkpoint, disk, pc, memoryVars, budget, window, now, faults,
                   sent, history>>
-----------------------------------------------------------------------------
(* The bridge: start-up and reading. *)

\* ensure_runtime_started_locked
Start ==
    /\ pc = "down"
    /\ pc' = "idle"
    /\ mem' = disk
    /\ last' = MaxOf(checkpoint, disk.processed)
    /\ cursor' = 0 /\ first' = 0
    /\ UNCHANGED <<writerVars, checkpoint, disk, budget, window, now, faults, history>>

\* read_commands_window_locked up to the read: is the cursor still that of
\* this log?  A log that shrank, whose first sequence changed or is new, is
\* read from its start.
ProbeLog ==
    /\ pc = "idle"
    /\ LET head    == IF log = <<>> THEN 0 ELSE log[1].seq
           shrunk  == cursor > Len(log)
           known   == IF shrunk THEN 0 ELSE first
           probed  == ~shrunk /\ cursor # 0 /\ head # 0
           reset   == probed /\ ((known # 0 /\ head # known) \/ head > last)
       IN  /\ cursor' = IF shrunk \/ reset THEN 0 ELSE cursor
           /\ first'  = IF probed THEN head ELSE known
           /\ budget' = IF probed /\ ~reset THEN MaxScanned - 1 ELSE MaxScanned
    /\ pc' = "scan"
    /\ UNCHANGED <<writerVars, checkpoint, disk, mem, last, window, now, faults, history>>

\* read_ndjson_sequence_window: the lines past the cursor that are new.  The
\* cursor of an empty window is committed at once.
ScanLog ==
    /\ pc = "scan"
    /\ LET from  == IF cursor > Len(log) THEN 0 ELSE cursor
           upto  == MinOf(Len(log), from + budget)
           skip  == Cardinality({p \in from + 1..upto : log[p].seq <= last})
           end   == MinOf(upto, from + skip + MaxReturned)
           fresh == [i \in 1..(end - from - skip) |->
                        [line |-> log[from + skip + i], next |-> from + skip + i]]
       IN  IF fresh = <<>>
           THEN /\ pc' = "idle"
                /\ cursor' = MaxOf(cursor, upto)
                /\ UNCHANGED <<first, window>>
           ELSE /\ pc' = "handle"
                /\ window' = fresh
                /\ first' = IF first = 0 THEN fresh[1].line.seq ELSE first
                /\ UNCHANGED cursor
    /\ budget' = 0
    /\ UNCHANGED <<writerVars, checkpoint, disk, mem, last, now, faults, history>>
-----------------------------------------------------------------------------
(* The bridge: one record. *)

Current == Head(window).line

Answered(line, status, op) ==
    answers' = [answers EXCEPT ![line.seq] = @ \cup {[status |-> status, op |-> op]}]

\* An exception leaves process(): the rest of the window is read again.
Abort ==
    /\ pc' = "idle"
    /\ window' = <<>>

\* The entry that decides a command whose key is known: an active record
\* before a tombstone.
Known(r, key) == IF r.rec[key] # Absent THEN r.rec[key] ELSE r.tomb[key]

\* The JSON-RPC id belongs to another operation that is still retained.
IdConflict(r, cmd) == r.index[cmd.id] \notin {NoKey, cmd.key}

\* hello, account.balance.get, invalid requests: answered, nothing stored.
HandlePlain ==
    /\ pc = "handle" /\ Current.cmd = NoCommand
    /\ Answered(Current, "plain", 0)
    /\ pc' = "commit"
    /\ UNCHANGED <<writerVars, checkpoint, disk, memoryVars, budget, window, now, faults,
                   handed, handedAt>>

\* A command the registry decides: a conflict, or the stored result again.
HandleKnown ==
    /\ pc = "handle" /\ Current.cmd # NoCommand
    /\ LET r     == PruneExpired(mem)
           cmd   == Current.cmd
           entry == Known(r, cmd.key)
       IN  \/ /\ IdConflict(r, cmd)
              /\ Answered(Current, "conflict", 0)
              /\ mem' = r
           \/ /\ ~IdConflict(r, cmd) /\ entry # Absent /\ ~Matches(entry, cmd)
              /\ Answered(Current, "conflict", 0)
              /\ mem' = r
           \/ /\ ~IdConflict(r, cmd) /\ entry # Absent /\ Matches(entry, cmd)
              /\ Answered(Current, entry.status, entry.op)
              /\ mem' = [r EXCEPT !.index[cmd.id] = cmd.key]
    /\ pc' = "commit"
    /\ UNCHANGED <<writerVars, checkpoint, disk, last, cursor, first, budget, window, now,
                   faults, handed, handedAt>>

\* A command the registry does not know.
Unknown(r) ==
    /\ Current.cmd # NoCommand
    /\ ~IdConflict(r, Current.cmd) /\ Known(r, Current.cmd.key) = Absent

\* No deadline: an error, nothing stored.
HandleUndated ==
    /\ pc = "handle" /\ Unknown(PruneExpired(mem)) /\ Current.until = 0
    /\ mem' = PruneExpired(mem)
    /\ Answered(Current, "error", 0)
    /\ pc' = "commit"
    /\ UNCHANGED <<writerVars, checkpoint, disk, last, cursor, first, budget, window, now,
                   faults, handed, handedAt>>

\* Past its deadline: rejected, and the rejection is stored.  When the write
\* throws the client is told of the error too.
HandleStale ==
    /\ pc = "handle" /\ Unknown(PruneExpired(mem))
    /\ Current.until # 0 /\ now > Current.until
    /\ LET r     == PruneExpired(mem)
           saved == Saved(WithResult(r, Current, "rejected"))
           told  == {[status |-> "rejected", op |-> Current.seq]}
           Say(results) ==
               answers' = [answers EXCEPT ![Current.seq] = @ \cup results]
       IN  \/ \E q \in saved : /\ mem' = q /\ disk' = q
                               /\ Say(told)
                               /\ UNCHANGED faults
           \/ /\ saved = {} \/ faults < MaxFaults
              /\ faults' = IF saved = {} THEN faults ELSE faults + 1
              /\ mem' = r /\ UNCHANGED disk
              /\ Say(told \cup {[status |-> "error", op |-> 0]})
    /\ pc' = "commit"
    /\ UNCHANGED <<writerVars, checkpoint, last, cursor, first, budget, window, now,
                   handed, handedAt>>

\* A new command in time: it is to be handed over.
HandleNew ==
    /\ pc = "handle" /\ Unknown(PruneExpired(mem))
    /\ Current.until # 0 /\ now <= Current.until
    /\ mem' = PruneExpired(mem)
    /\ pc' = "mark"
    /\ UNCHANGED <<writerVars, checkpoint, disk, last, cursor, first, budget, window, now,
                   faults, history>>
-----------------------------------------------------------------------------
(* The bridge: the handoff. *)

\* The signal id cannot be allocated: an error, nothing stored.
AllocationFails ==
    /\ pc = "mark"
    /\ Answered(Current, "error", 0)
    /\ pc' = "commit"
    /\ UNCHANGED <<writerVars, checkpoint, disk, memoryVars, budget, window, now, faults,
                   handed, handedAt>>

\* Fault: the marker is kept in memory until the next write.
MarkInMemory ==
    /\ pc = "mark"
    /\ \E q \in Saved(WithResult(mem, Current, "in_doubt")) : mem' = q
    /\ pc' = "callback"
    /\ UNCHANGED <<writerVars, checkpoint, disk, last, cursor, first, budget, window, now,
                   faults, history>>

\* The in_doubt result is durable before the user's code runs.
MarkInDoubt ==
    /\ pc = "mark"
    /\ \E q \in Saved(WithResult(mem, Current, "in_doubt")) : mem' = q /\ disk' = q
    /\ pc' = "callback"
    /\ UNCHANGED <<writerVars, checkpoint, last, cursor, first, budget, window, now, faults,
                   history>>

\* Fault: a refused command is passed over.
MarkSkipped ==
    /\ pc = "mark"
    /\ Saved(WithResult(mem, Current, "in_doubt")) = {}
    /\ pc' = "commit"
    /\ UNCHANGED <<writerVars, checkpoint, disk, memoryVars, budget, window, now, faults,
                   history>>

\* A full registry (nothing but in_doubt records, or the byte limit) refuses
\* the marker: the poll is given up and the command waits.
MarkRefused ==
    /\ pc = "mark"
    /\ Saved(WithResult(mem, Current, "in_doubt")) = {}
    /\ Abort
    /\ UNCHANGED <<writerVars, checkpoint, disk, memoryVars, budget, now, faults, history>>

\* The user's callback, outside the lock: it takes the signal and returns, or
\* throws after it may have acted on it.
Hand ==
    /\ handed' = [handed EXCEPT ![Current.seq] = MinOf(@ + 1, 2)]
    /\ handedAt' = [handedAt EXCEPT ![Current.seq] = now]

CallbackReturns ==
    /\ pc = "callback"
    /\ Hand
    /\ pc' = "accept"
    /\ UNCHANGED <<writerVars, checkpoint, disk, memoryVars, budget, window, now, faults,
                   answers>>

CallbackThrows ==
    /\ pc = "callback"
    /\ Hand
    /\ Answered(Current, "error", 0)
    /\ pc' = "commit"
    /\ UNCHANGED <<writerVars, checkpoint, disk, memoryVars, budget, window, now, faults>>

\* The accepted result replaces the marker, then the client is answered.
Accept ==
    /\ pc = "accept"
    /\ \E q \in Saved(WithResult(mem, Current, "accepted")) : mem' = q /\ disk' = q
    /\ Answered(Current, "accepted", Current.seq)
    /\ pc' = "commit"
    /\ UNCHANGED <<writerVars, checkpoint, last, cursor, first, budget, window, now, faults,
                   handed, handedAt>>

\* write_commands_checkpoint_locked, first file: the high-water mark in the
\* idempotency state.  The sequence in memory advances even when it throws.
CommitProcessed ==
    /\ pc = "commit"
    /\ last' = MaxOf(last, Current.seq)
    /\ \E q \in Saved([mem EXCEPT !.processed = MaxOf(last, Current.seq)]) :
           mem' = q /\ disk' = q
    /\ pc' = "checkpoint"
    /\ UNCHANGED <<writerVars, checkpoint, cursor, first, budget, window, now, faults, history>>

\* Second file: the reader checkpoint; then the cursor moves on.
CommitCheckpoint ==
    /\ pc = "checkpoint"
    /\ checkpoint' = last
    /\ cursor' = MaxOf(cursor, Head(window).next)
    /\ window' = Tail(window)
    /\ pc' = IF Tail(window) = <<>> THEN "idle" ELSE "handle"
    /\ UNCHANGED <<writerVars, disk, mem, last, first, budget, now, faults, history>>
-----------------------------------------------------------------------------
(* Faults. *)

\* A file operation of the bridge throws: process() is left.
WriteFails ==
    /\ faults < MaxFaults
    /\ faults' = faults + 1
    /\ pc \in {"handle", "mark", "accept", "commit", "checkpoint"}
    /\ last' = IF pc = "commit" THEN MaxOf(last, Current.seq) ELSE last
    /\ Abort
    /\ UNCHANGED <<writerVars, checkpoint, disk, mem, cursor, first, budget, now, history>>

\* The answer to an accepted command cannot be appended: the result stays.
AcceptUnanswered ==
    /\ pc = "accept" /\ faults < MaxFaults
    /\ faults' = faults + 1
    /\ \E q \in Saved(WithResult(mem, Current, "accepted")) : mem' = q /\ disk' = q
    /\ Abort
    /\ UNCHANGED <<writerVars, checkpoint, last, cursor, first, budget, now, history>>

\* The process dies; its memory is gone.
Crash ==
    /\ pc # "down" /\ faults < MaxFaults
    /\ faults' = faults + 1
    /\ pc' = "down"
    /\ mem' = EmptyRegistry /\ last' = 0 /\ cursor' = 0 /\ first' = 0
    /\ budget' = 0 /\ window' = <<>>
    /\ UNCHANGED <<writerVars, checkpoint, disk, now, history>>

\* commands.checkpoint.json is lost while the bridge is down and the log is not
\* empty.  (With an empty log too, a new writer would start again at 1.)
LoseCheckpoint ==
    /\ pc = "down" /\ checkpoint # 0 /\ log # <<>>
    /\ checkpoint' = 0
    /\ UNCHANGED <<writerVars, disk, pc, memoryVars, budget, window, now, faults, history>>

\* Bound: the clock moves while nothing runs and before a handoff.
Tick ==
    /\ now < MaxTime /\ pc \in {"down", "idle", "mark"}
    /\ now' = now + 1
    /\ UNCHANGED <<writerVars, checkpoint, disk, pc, memoryVars, budget, window, faults,
                   history>>
-----------------------------------------------------------------------------
Init ==
    /\ log = <<>> /\ checkpoint = 0 /\ disk = EmptyRegistry /\ nextSeq = 0
    /\ pc = "down" /\ mem = EmptyRegistry /\ last = 0 /\ cursor = 0 /\ first = 0
    /\ budget = 0 /\ window = <<>> /\ now = 1 /\ faults = 0
    /\ sent = [n \in Seqs |-> NoLine]
    /\ answers = [n \in Seqs |-> {}]
    /\ handed = [n \in Seqs |-> 0] /\ handedAt = [n \in Seqs |-> 0]

Writer == AppendTrade \/ AppendPlain \/ ClearLog
Bridge ==
    \/ Start \/ ProbeLog \/ ScanLog
    \/ HandlePlain \/ HandleKnown \/ HandleUndated \/ HandleStale \/ HandleNew
    \/ AllocationFails \/ MarkInDoubt \/ MarkRefused \/ CallbackReturns \/ CallbackThrows
    \/ Accept \/ CommitProcessed \/ CommitCheckpoint
Faults == WriteFails \/ AcceptUnanswered \/ Crash \/ LoseCheckpoint

Next == Writer \/ Bridge \/ Faults \/ Tick

Spec == Init /\ [][Next]_vars
-----------------------------------------------------------------------------
TypeOK ==
    /\ log \in Seq(Line) /\ checkpoint \in 0..MaxSeq
    /\ disk \in Registry /\ mem \in Registry
    /\ nextSeq \in 0..MaxSeq + 1
    /\ pc \in {"down", "idle", "scan", "handle", "mark", "callback", "accept", "commit",
               "checkpoint"}
    /\ last \in 0..MaxSeq /\ cursor \in Nat /\ first \in 0..MaxSeq /\ budget \in Nat
    /\ window \in Seq([line : Line, next : Nat])
    /\ now \in Nat /\ faults \in 0..MaxFaults
    /\ sent \in [Seqs -> Line \cup {NoLine}]
    /\ handed \in [Seqs -> 0..2] /\ handedAt \in [Seqs -> Nat]

\* The callback sees a line of the log at most once, whatever crashes, fails or
\* is lost: the marker written before the handoff outlives the process.
HandedOnce == \A n \in Seqs : handed[n] <= 1

\* Two lines with one key are both handed over only when the retention lies
\* between them: the key is remembered across evictions and restarts.
OncePerKey ==
    \A m, n \in Seqs :
        /\ m # n /\ handed[m] # 0 /\ handed[n] # 0
        /\ sent[m].cmd.key = sent[n].cmd.key
        => \/ handedAt[m] >= handedAt[n] + Retention
           \/ handedAt[n] >= handedAt[m] + Retention

\* An operation in doubt is never forgotten and never decided for another one:
\* its record stays until its own acceptance replaces it.
InDoubtIsKept ==
    [][\A k \in Keys : disk.rec[k].status = "in_doubt" =>
          /\ disk'.rec[k].op = disk.rec[k].op
          /\ disk'.rec[k].status \in {"in_doubt", "accepted"}]_vars

Passed == MaxOf(last, MaxOf(checkpoint, disk.processed))

\* A line is passed, in memory or in either file, only after it was answered:
\* no failure, restart or cleanup of the log skips a command.
AnsweredBeforePassed ==
    \A n \in Seqs : sent[n] # NoLine /\ n <= Passed => answers[n] # {}

\* An answer that names an operation names one with the same key and payload,
\* and "accepted" names one that was handed over.
AnswersAreTrue ==
    \A m \in Seqs : \A r \in answers[m] : r.op # 0 =>
        /\ sent[r.op].cmd.key = sent[m].cmd.key
        /\ sent[r.op].cmd.payload = sent[m].cmd.payload
        /\ r.status = "accepted" => handed[r.op] # 0
=============================================================================
