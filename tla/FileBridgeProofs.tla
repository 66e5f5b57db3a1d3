-------------------------- MODULE FileBridgeProofs --------------------------
(***************************************************************************)
(* Proofs about FileBridge: its type invariant, that a command is handed   *)
(* over once and once per key, that an operation in doubt is kept, that    *)
(* answers are true, and that no command is passed over unanswered.  They  *)
(* hold for every set of keys, payloads and commands and every setting of  *)
(* the limits; the last one as long as the writer does not clear the log   *)
(* in the middle of a poll.                                                *)
(***************************************************************************)
EXTENDS FileBridge, FiniteSetTheorems, SequenceTheorems, TLAPS

-----------------------------------------------------------------------------
(* The inductive invariant. *)

Handling == {"handle", "mark", "callback", "accept", "commit", "checkpoint"}

Answer == [status : Statuses \cup {"plain", "conflict", "error"}, op : 0..MaxSeq]

Typed == TypeOK /\ answers \in [Seqs -> SUBSET Answer]

\* A line in the log or in the window is the one that was sent with its number.
Lines ==
    /\ \A i \in DOMAIN log : log[i] = sent[log[i].seq]
    /\ \A i \in DOMAIN window : window[i].line = sent[window[i].line.seq]
    /\ \A n \in Seqs : sent[n] # NoLine => sent[n].seq = n
    /\ pc \in Handling => window # <<>>

\* The last number in use: what the log shows, or when it is empty the checkpoint.
Top == IF log = <<>> THEN checkpoint ELSE VisibleMax

\* No number is used twice, whichever of the files is lost.
Fresh ==
    /\ \A n \in Seqs : sent[n] # NoLine => n <= Top
    /\ log # <<>> => checkpoint <= VisibleMax
    /\ last <= Top /\ disk.processed <= Top /\ mem.processed <= Top
    /\ pc # "down" => checkpoint <= last

\* A deadline is at most a lifetime ahead.
Dated == \A n \in Seqs : sent[n].until <= now + Lifetime

\* The registry in memory is the one on disk, less what expired.
Mirror ==
    pc # "down" =>
        /\ mem.rec = disk.rec
        /\ \A k \in Keys : \/ mem.tomb[k] = disk.tomb[k]
                           \/ mem.tomb[k] = Absent /\ Expired(disk.tomb[k])

\* An entry tells the truth about the line it was made for.
TrueEntry(k, e) ==
    e # Absent =>
        /\ sent[e.op] # NoLine /\ sent[e.op].cmd \in Commands
        /\ sent[e.op].cmd.key = k /\ sent[e.op].cmd.payload = e.payload
        /\ e.status = "accepted" => handed[e.op] # 0

Truth == \A k \in Keys : TrueEntry(k, disk.rec[k]) /\ TrueEntry(k, disk.tomb[k])

\* The key of a line that was handed over is known until the retention has passed.
StillKnown(n) ==
    LET k == sent[n].cmd.key
    IN  \/ disk.rec[k] # Absent
        \/ disk.tomb[k] # Absent /\ disk.tomb[k].at >= handedAt[n]
        \/ now >= handedAt[n] + Retention

Remembered ==
    \A n \in Seqs : handed[n] # 0 =>
        /\ sent[n] # NoLine /\ sent[n].cmd \in Commands
        /\ handedAt[n] <= now /\ sent[n].until <= handedAt[n] + Lifetime
        /\ StillKnown(n)

\* Nothing stands against handing the current line over.
Free ==
    /\ handed[Current.seq] = 0
    /\ \A m \in Seqs :
          /\ m # Current.seq /\ handed[m] # 0
          /\ sent[m].cmd.key = Current.cmd.key
          => now >= handedAt[m] + Retention

Marked == /\ disk.rec[Current.cmd.key].status = "in_doubt"
          /\ disk.rec[Current.cmd.key].op = Current.seq

Handoff ==
    /\ pc \in {"mark", "callback", "accept"} => Current.cmd \in Commands
    /\ pc \in {"mark", "callback"} => Free
    /\ pc = "mark" => mem.rec[Current.cmd.key] = Absent
    /\ pc \in {"callback", "accept"} => Marked
    /\ pc = "accept" => handed[Current.seq] # 0

\* The registry on disk holds at most MaxRecords records.
Bounded == IsFiniteSet(Present(disk.rec)) /\ Cardinality(Present(disk.rec)) <= MaxRecords

\* An answer that names an operation names a line that was sent.
TrueAnswers ==
    \A m \in Seqs : \A r \in answers[m] : r.op # 0 =>
        /\ sent[m] # NoLine /\ sent[r.op] # NoLine
        /\ sent[r.op].cmd.key = sent[m].cmd.key
        /\ sent[r.op].cmd.payload = sent[m].cmd.payload
        /\ r.status = "accepted" => handed[r.op] # 0

IInv ==
    /\ Typed /\ Lines /\ Fresh /\ Dated /\ Mirror /\ Truth /\ Remembered /\ Handoff
    /\ Bounded /\ TrueAnswers /\ HandedOnce /\ OncePerKey
-----------------------------------------------------------------------------
(* The registry. *)

USE CommandsAssumption, LimitsAssumption, LifetimeAssumption

LEMMA AbsentFacts ==
    /\ Absent \in Entry /\ Absent.status = "absent"
    /\ \A e \in Entry : e # Absent => /\ e.status \in Statuses /\ e.payload \in Payloads
                                     /\ e.op \in Seqs /\ e.at \in Nat
    /\ \A e \in Entry : e.status \in Statuses => e # Absent
    /\ \A st \in Statuses, p \in Payloads, o \in Seqs, t \in Nat :
          LET e == [status |-> st, payload |-> p, op |-> o, at |-> t]
          IN  e \in Entry /\ e # Absent
BY DEF Absent, Entry, Statuses

LEMMA PruneFacts ==
    ASSUME NEW r \in Registry, now \in Nat
    PROVE  LET p == PruneExpired(r)
           IN  /\ p \in Registry /\ p.rec = r.rec /\ p.processed = r.processed
               /\ \A k \in Keys :
                     p.tomb[k] = IF Expired(r.tomb[k]) THEN Absent ELSE r.tomb[k]
BY AbsentFacts DEF PruneExpired, Registry

LEMMA WithResultFacts ==
    ASSUME NEW r \in Registry, now \in Nat, NEW line \in Line, line.cmd \in Commands,
           NEW st \in Statuses
    PROVE  LET w == WithResult(r, line, st)
               e == [status |-> st, payload |-> line.cmd.payload,
                     op |-> line.seq, at |-> now]
           IN  /\ w \in Registry /\ w.tomb = r.tomb /\ w.processed = r.processed
               /\ w.rec = [r.rec EXCEPT ![line.cmd.key] = e]
               /\ e \in Entry /\ e # Absent
<1> DEFINE e == [status |-> st, payload |-> line.cmd.payload, op |-> line.seq, at |-> now]
<1>1. line.cmd.key \in Keys /\ line.cmd.payload \in Payloads /\ line.cmd.id \in Ids
      /\ line.seq \in Seqs
  BY DEF Line
<1>2. e \in Entry /\ e # Absent
  BY <1>1, AbsentFacts
<1> HIDE DEF e
<1>3. WithResult(r, line, st) = [r EXCEPT !.rec[line.cmd.key] = e,
                                          !.index[line.cmd.id] = line.cmd.key]
  BY DEF WithResult, e
<1>4. [r EXCEPT !.rec[line.cmd.key] = e, !.index[line.cmd.id] = line.cmd.key] \in Registry
  BY <1>1, <1>2 DEF Registry
<1> QED
  BY <1>1, <1>2, <1>3, <1>4 DEF Registry, e

\* What a write of the registry leaves of an entry.
Kept(r, q, k) ==
    /\ q.rec[k] = r.rec[k]
    /\ q.tomb[k] = r.tomb[k] \/ (q.tomb[k] = Absent /\ Expired(r.tomb[k]))

Evicted(r, q, k) ==
    /\ q.rec[k] = Absent
    /\ r.rec[k] # Absent /\ r.rec[k].status # "in_doubt"
    /\ q.tomb[k] = [r.rec[k] EXCEPT !.at = now]

LEMMA SavedFacts ==
    ASSUME NEW r \in Registry, now \in Nat, NEW q \in Saved(r)
    PROVE  /\ q \in Registry /\ q.processed = r.processed
           /\ \A k \in Keys : Kept(r, q, k) \/ Evicted(r, q, k)
           /\ Cardinality(Present(r.rec)) <= MaxRecords => q.rec = r.rec
           /\ Cardinality(Present(r.rec)) <= MaxRecords
              \/ \E k \in Present(r.rec) : Present(q.rec) = Present(r.rec) \ {k}
<1> DEFINE p == PruneExpired(r)
<1>1. /\ p \in Registry /\ p.rec = r.rec /\ p.processed = r.processed
      /\ \A k \in Keys : p.tomb[k] = IF Expired(r.tomb[k]) THEN Absent ELSE r.tomb[k]
  BY PruneFacts
<1>2. q \in (IF Cardinality(Present(p.rec)) <= MaxRecords
             THEN {p} ELSE {Evict(p, k) : k \in Oldest(p)})
  BY DEF Saved
<1> HIDE DEF p
<1>3. CASE Cardinality(Present(r.rec)) <= MaxRecords
  <2>1. q = p
    BY <1>1, <1>2, <1>3
  <2> QED
    BY <2>1, <1>1, <1>3 DEF Kept
<1>4. CASE ~(Cardinality(Present(r.rec)) <= MaxRecords)
  <2>1. PICK j \in Oldest(p) : q = Evict(p, j)
    BY <1>1, <1>2, <1>4
  <2>2. j \in Keys /\ p.rec[j] # Absent /\ p.rec[j].status # "in_doubt"
    BY <2>1 DEF Oldest, Present
  <2>3. p.rec[j] \in Entry /\ [p.rec[j] EXCEPT !.at = now] \in Entry
    BY <1>1, <2>2, AbsentFacts DEF Registry, Entry
  <2>4. /\ q \in Registry /\ q.processed = p.processed
        /\ q.rec = [p.rec EXCEPT ![j] = Absent]
        /\ q.tomb = [p.tomb EXCEPT ![j] = [p.rec[j] EXCEPT !.at = now]]
    BY <1>1, <2>1, <2>2, <2>3, AbsentFacts DEF Evict, Registry
  <2>5. \A k \in Keys : Kept(r, q, k) \/ Evicted(r, q, k)
    BY <1>1, <2>2, <2>4 DEF Kept, Evicted, Registry
  <2>6. j \in Present(r.rec) /\ Present(q.rec) = Present(r.rec) \ {j}
    BY <1>1, <2>2, <2>4 DEF Present, Registry
  <2> QED
    BY <1>1, <1>4, <2>4, <2>5, <2>6
<1> QED
  BY <1>3, <1>4
-----------------------------------------------------------------------------
(* The line under way, and new lines. *)

LEMMA CurrentFacts ==
    ASSUME Typed, Lines, window # <<>>
    PROVE  /\ Current \in Line /\ Current.seq \in Seqs
           /\ Current = sent[Current.seq] /\ Current # NoLine
           /\ Head(window).next \in Nat
           /\ Tail(window) \in Seq([line : Line, next : Nat])
           /\ \A i \in DOMAIN Tail(window) : Tail(window)[i] = window[i + 1]
                                            /\ i + 1 \in DOMAIN window
<1>1. window \in Seq([line : Line, next : Nat])
  BY DEF Typed, TypeOK
<1>2. /\ Head(window) = window[1] /\ 1 \in DOMAIN window
      /\ Head(window) \in [line : Line, next : Nat]
      /\ Tail(window) \in Seq([line : Line, next : Nat])
      /\ Len(Tail(window)) = Len(window) - 1
      /\ \A i \in 1..Len(Tail(window)) : Tail(window)[i] = window[i + 1]
  <2> DEFINE S == [line : Line, next : Nat]
  <2> HIDE DEF S
  <2>1. window \in Seq(S)
    BY <1>1 DEF S
  <2>2. Head(window) = window[1] /\ 1 \in DOMAIN window
    BY <2>1
  <2>3. /\ Head(window) \in S /\ Tail(window) \in Seq(S)
        /\ Len(Tail(window)) = Len(window) - 1
        /\ \A i \in 1..Len(Tail(window)) : Tail(window)[i] = window[i + 1]
    BY <2>1, HeadTailProperties
  <2> QED
    BY <2>2, <2>3 DEF S
<1>4. \A i \in DOMAIN Tail(window) : Tail(window)[i] = window[i + 1]
                                   /\ i + 1 \in DOMAIN window
  BY <1>1, <1>2
<1>3. Current \in Line /\ Current.seq \in Seqs /\ Current # NoLine
  BY <1>2 DEF Current, Line, NoLine, Seqs
<1> QED
  BY <1>2, <1>3, <1>4 DEF Lines, Current

NewLine(line) ==
    /\ line \in Line /\ line.seq > Top /\ line.seq > checkpoint
    /\ line.until <= now + Lifetime
    /\ sent[line.seq] = NoLine
    /\ sent' = [sent EXCEPT ![line.seq] = line]
    /\ log' = Append(log, line) \/ (log' = <<line>> /\ CaughtUp /\ MayTouchLog)
    /\ nextSeq' = line.seq + 1

LEMMA VisibleFacts ==
    ASSUME Typed
    PROVE  /\ VisibleMax \in 0..MaxSeq /\ Top \in 0..MaxSeq
           /\ log # <<>> => VisibleMax \in Seqs /\ Len(log) \in DOMAIN log
                            /\ VisibleMax = log[Len(log)].seq
<1>1. log \in Seq(Line) /\ checkpoint \in 0..MaxSeq
  BY DEF Typed, TypeOK
<1>2. CASE log = <<>>
  BY <1>1, <1>2 DEF VisibleMax, Top
<1>3. CASE log # <<>>
  <2>1. Len(log) \in DOMAIN log /\ log[Len(log)] \in Line
    BY <1>1, <1>3
  <2> QED
    BY <1>1, <1>3, <2>1 DEF VisibleMax, Top, Line, Seqs
<1> QED
  BY <1>2, <1>3

LEMMA AppendFacts ==
    ASSUME Typed, Lines, Fresh, AppendTrade \/ AppendPlain
    PROVE  /\ \E line \in Line : NewLine(line)
           /\ UNCHANGED <<checkpoint, disk, pc, memoryVars, budget, window, now, faults,
                          history>>
<1>1. PICK cmd \in Commands \cup {NoCommand}, until \in Nat :
          AppendLine(cmd, until) /\ until <= now + Lifetime
  BY DEF AppendTrade, AppendPlain, Typed, TypeOK
<1>2. PICK known \in {0, nextSeq} :
       LET clear == Len(log) >= MaxLog
           seq   == IF clear THEN checkpoint + 1 ELSE Refreshed(known)
           line  == [seq |-> seq, cmd |-> cmd, until |-> until]
       IN  /\ clear => CaughtUp /\ MayTouchLog
           /\ seq \in Seqs
           /\ log' = (IF clear THEN <<>> ELSE log) \o <<line>>
           /\ nextSeq' = seq + 1
           /\ sent' = [sent EXCEPT ![seq] = line]
  BY <1>1 DEF AppendLine
<1> DEFINE clear == Len(log) >= MaxLog
           seq   == IF clear THEN checkpoint + 1 ELSE Refreshed(known)
           line  == [seq |-> seq, cmd |-> cmd, until |-> until]
<1>3. log \in Seq(Line) /\ checkpoint \in 0..MaxSeq /\ nextSeq \in 0..MaxSeq + 1
  BY DEF Typed, TypeOK
<1>4. seq > Top /\ seq > checkpoint
  <2>1. CASE clear
    BY <1>2, <1>3, <2>1, VisibleFacts DEF CaughtUp, Top
  <2>2. CASE ~clear
    BY <1>3, <2>2, VisibleFacts DEF Refreshed, MaxOf, Top
  <2> QED
    BY <2>1, <2>2
<1>5. line \in Line
  BY <1>2 DEF Line
<1>6. sent[seq] = NoLine
  BY <1>2, <1>4, VisibleFacts DEF Fresh, Seqs
<1>7. log' = Append(log, line) \/ (log' = <<line>> /\ CaughtUp /\ MayTouchLog)
  <2>1. Append(log, line) = log \o <<line>> /\ <<>> \o <<line>> = <<line>>
    BY <1>3, <1>5, AppendIsConcat, ConcatEmptySeq
  <2> QED
    BY <1>2, <2>1
<1>8. NewLine(line)
  BY <1>1, <1>2, <1>4, <1>5, <1>6, <1>7 DEF NewLine
<1> QED
  BY <1>1, <1>5, <1>8 DEF AppendLine
-----------------------------------------------------------------------------
(* What a write does to the registry on disk. *)

NewEntry(line, st) == [status |-> st, payload |-> line.cmd.payload,
                       op |-> line.seq, at |-> now]

Stays(q, k) ==
    /\ q.rec[k] = disk.rec[k]
    /\ q.tomb[k] = disk.tomb[k] \/ (q.tomb[k] = Absent /\ Expired(disk.tomb[k]))

Leaves(q, k) ==
    /\ q.rec[k] = Absent
    /\ disk.rec[k] # Absent /\ disk.rec[k].status # "in_doubt"
    /\ q.tomb[k] = [disk.rec[k] EXCEPT !.at = now]

Stored(q, k, e) ==
    /\ q.rec[k] = e
    /\ q.tomb[k] = disk.tomb[k] \/ (q.tomb[k] = Absent /\ Expired(disk.tomb[k]))

StoredAndGone(q, k, e) ==
    /\ e.status # "in_doubt" /\ disk.rec[k] = Absent
    /\ q.rec[k] = Absent /\ q.tomb[k] = e

\* A copy of the registry in memory that may have lost expired tombstones.
Copy(r) ==
    /\ r \in Registry /\ r.rec = disk.rec /\ r.processed = mem.processed
    /\ \A k \in Keys : \/ r.tomb[k] = disk.tomb[k]
                       \/ r.tomb[k] = Absent /\ Expired(disk.tomb[k])

LEMMA CopyFacts ==
    ASSUME Typed, Mirror, pc # "down"
    PROVE  Copy(mem) /\ Copy(PruneExpired(mem))
<1>1. mem \in Registry /\ now \in Nat
  BY DEF Typed, TypeOK
<1>2. Copy(mem)
  BY <1>1 DEF Mirror, Copy
<1> DEFINE p == PruneExpired(mem)
<1>3. /\ p \in Registry /\ p.rec = mem.rec /\ p.processed = mem.processed
      /\ \A k \in Keys :
            p.tomb[k] = IF Expired(mem.tomb[k]) THEN Absent ELSE mem.tomb[k]
  BY <1>1, PruneFacts
<1> HIDE DEF p
<1>4. \A k \in Keys : \/ p.tomb[k] = disk.tomb[k]
                      \/ p.tomb[k] = Absent /\ Expired(disk.tomb[k])
  BY <1>2, <1>3 DEF Copy, Expired
<1>5. Copy(p)
  BY <1>2, <1>3, <1>4 DEF Copy
<1> QED
  BY <1>2, <1>5 DEF p

FewRecords(r) == IsFiniteSet(Present(r.rec)) /\ Cardinality(Present(r.rec)) <= MaxRecords

LEMMA StoreFacts ==
    ASSUME Typed, FewRecords(disk), NEW r, Copy(r), NEW line \in Line, line.cmd \in Commands,
           NEW st \in Statuses, NEW q \in Saved(WithResult(r, line, st))
    PROVE  /\ q \in Registry /\ q.processed = mem.processed /\ FewRecords(q)
           /\ \A k \in Keys \ {line.cmd.key} : Stays(q, k) \/ Leaves(q, k)
           /\ \/ Stored(q, line.cmd.key, NewEntry(line, st))
              \/ StoredAndGone(q, line.cmd.key, NewEntry(line, st))
           /\ disk.rec[line.cmd.key] # Absent =>
                 \A k \in Keys \ {line.cmd.key} : Stays(q, k)
<1> DEFINE w == WithResult(r, line, st)
           key == line.cmd.key
           e == NewEntry(line, st)
<1>1. now \in Nat /\ disk \in Registry /\ r \in Registry
  BY DEF Typed, TypeOK, Copy
<1>2. /\ w \in Registry /\ w.tomb = r.tomb /\ w.processed = r.processed
      /\ w.rec = [r.rec EXCEPT ![key] = e] /\ e \in Entry /\ e # Absent
  BY <1>1, WithResultFacts DEF NewEntry
<1>3. key \in Keys /\ e.status = st /\ e.at = now
  BY DEF Line, NewEntry
<1>4. [e EXCEPT !.at = now] = e
  BY DEF NewEntry
<1> HIDE DEF w, e
<1>5. q \in Saved(w)
  BY DEF w
<1>6. /\ q \in Registry /\ q.processed = w.processed
      /\ \A k \in Keys : Kept(w, q, k) \/ Evicted(w, q, k)
      /\ Cardinality(Present(w.rec)) <= MaxRecords => q.rec = w.rec
      /\ Cardinality(Present(w.rec)) <= MaxRecords
         \/ \E k \in Present(w.rec) : Present(q.rec) = Present(w.rec) \ {k}
  BY <1>1, <1>2, <1>5, SavedFacts
<1>7. w.rec[key] = e /\ \A k \in Keys \ {key} : w.rec[k] = disk.rec[k]
  BY <1>1, <1>2, <1>3 DEF Copy, Registry
<1>8. Present(w.rec) = Present(disk.rec) \cup {key}
  BY <1>2, <1>3, <1>7 DEF Present
<1>9. /\ IsFiniteSet(Present(w.rec)) /\ Cardinality(Present(w.rec)) \in Nat
      /\ Cardinality(Present(disk.rec)) \in Nat
      /\ Cardinality(Present(w.rec)) =
            IF key \in Present(disk.rec) THEN Cardinality(Present(disk.rec))
            ELSE Cardinality(Present(disk.rec)) + 1
  <2>1. IsFiniteSet(Present(disk.rec))
    BY DEF FewRecords
  <2> HIDE DEF key
  <2> QED
    BY <1>8, <2>1, FS_AddElement, FS_CardinalityType
<1>10. FewRecords(q)
  <2>1. CASE Cardinality(Present(w.rec)) <= MaxRecords
    BY <1>6, <1>9, <2>1 DEF FewRecords
  <2>2. CASE ~(Cardinality(Present(w.rec)) <= MaxRecords)
    <3>1. PICK k \in Present(w.rec) : Present(q.rec) = Present(w.rec) \ {k}
      BY <1>6, <2>2
    <3>2. IsFiniteSet(Present(q.rec))
          /\ Cardinality(Present(q.rec)) = Cardinality(Present(w.rec)) - 1
      BY <1>9, <3>1, FS_RemoveElement
    <3> QED
      BY <1>9, <3>2 DEF FewRecords
  <2> QED
    BY <2>1, <2>2
<1>11. \A k \in Keys \ {key} : Stays(q, k) \/ Leaves(q, k)
  <2> TAKE k \in Keys \ {key}
  <2>1. CASE Kept(w, q, k)
    BY <1>2, <1>7, <2>1 DEF Kept, Stays, Copy, Expired
  <2>2. CASE Evicted(w, q, k)
    BY <1>7, <2>2 DEF Evicted, Leaves
  <2> QED
    BY <1>6, <2>1, <2>2
<1>12. disk.rec[key] # Absent => q.rec = w.rec
  <2>1. disk.rec[key] # Absent => key \in Present(disk.rec)
    BY <1>3 DEF Present
  <2> QED
    BY <1>6, <1>9, <2>1 DEF FewRecords
<1>13. Stored(q, key, e) \/ StoredAndGone(q, key, e)
  <2>1. CASE Kept(w, q, key)
    BY <1>2, <1>3, <1>7, <2>1 DEF Kept, Stored, Copy, Expired
  <2>2. CASE Evicted(w, q, key)
    <3>1. q.rec[key] = Absent /\ e.status # "in_doubt" /\ q.tomb[key] = e
      BY <1>4, <1>7, <2>2 DEF Evicted
    <3>2. disk.rec[key] = Absent
      BY <1>2, <1>7, <1>12, <3>1
    <3> QED
      BY <3>1, <3>2 DEF StoredAndGone
  <2> QED
    BY <1>3, <1>6, <2>1, <2>2
<1>14. disk.rec[key] # Absent => \A k \in Keys \ {key} : Stays(q, k)
  <2> SUFFICES ASSUME disk.rec[key] # Absent, NEW k \in Keys \ {key}
               PROVE  Stays(q, k)
    OBVIOUS
  <2>1. q.rec[k] = disk.rec[k]
    BY <1>7, <1>12
  <2> QED
    BY <1>11, <2>1 DEF Leaves
<1> QED
  BY <1>2, <1>6, <1>10, <1>11, <1>13, <1>14 DEF e, Copy

LEMMA ProcessedFacts ==
    ASSUME Typed, FewRecords(disk), Copy(mem), NEW n \in Nat,
           NEW q \in Saved([mem EXCEPT !.processed = n])
    PROVE  /\ q \in Registry /\ q.processed = n /\ FewRecords(q)
           /\ \A k \in Keys : Stays(q, k)
<1> DEFINE w == [mem EXCEPT !.processed = n]
<1>1. now \in Nat /\ w \in Registry /\ w.rec = disk.rec /\ w.tomb = mem.tomb
      /\ w.processed = n
  BY DEF Typed, TypeOK, Registry, Copy
<1> HIDE DEF w
<1>2. q \in Saved(w)
  BY DEF w
<1>3. /\ q \in Registry /\ q.processed = w.processed
      /\ \A k \in Keys : Kept(w, q, k) \/ Evicted(w, q, k)
      /\ Cardinality(Present(w.rec)) <= MaxRecords => q.rec = w.rec
  BY <1>1, <1>2, SavedFacts
<1>4. q.rec = disk.rec
  BY <1>1, <1>3 DEF FewRecords
<1>5. \A k \in Keys : Stays(q, k)
  BY <1>1, <1>3, <1>4 DEF Kept, Evicted, Stays, Copy, Expired
<1> QED
  BY <1>1, <1>3, <1>4, <1>5 DEF FewRecords
\* The entry of the line under way is written.
StoresCurrent(k) ==
    /\ Current.cmd \in Commands /\ k = Current.cmd.key /\ now' = now
    /\ \/ pc = "handle" /\ disk.rec[k] = Absent
          /\ \/ Stored(disk', k, NewEntry(Current, "rejected"))
             \/ StoredAndGone(disk', k, NewEntry(Current, "rejected"))
       \/ /\ pc = "mark" /\ disk.rec[k] = Absent
          /\ Stored(disk', k, NewEntry(Current, "in_doubt"))
       \/ /\ pc = "accept" /\ Stored(disk', k, NewEntry(Current, "accepted"))

\* What any step does to an entry on disk.
DiskStep ==
    /\ disk' \in Registry /\ mem' \in Registry /\ FewRecords(disk')
    /\ \A k \in Keys : Stays(disk', k) \/ Leaves(disk', k) \/ StoresCurrent(k)
    /\ \/ disk'.processed \in {disk.processed, mem.processed}
       \/ pc = "commit" /\ disk'.processed = MaxOf(last, Current.seq)
    /\ mem'.processed \in {0, disk.processed, mem.processed, disk'.processed}
    /\ pc' # "down" => mem' = disk' \/ (disk' = disk /\ mem'.processed = mem.processed)
    /\ Mirror'

LEMMA SameDisk ==
    ASSUME Typed, Bounded, disk' = disk, mem' \in Registry, now' \in Nat, now' >= now,
           pc' # "down" => Copy(mem') \/ mem' = disk,
           mem'.processed \in {0, disk.processed, mem.processed}
    PROVE  DiskStep
<1>1. \A k \in Keys : Stays(disk', k)
  BY DEF Stays
<1>2. \A k \in Keys : Expired(disk.tomb[k]) => Expired(disk.tomb[k])'
  <2> TAKE k \in Keys
  <2>1. disk.tomb[k] \in Entry
    BY DEF Typed, TypeOK, Registry
  <2>2. disk.tomb[k] # Absent => disk.tomb[k].at \in Nat
    BY <2>1, AbsentFacts
  <2> QED
    BY <2>2 DEF Expired, Typed, TypeOK
<1>3. Mirror'
  BY <1>2 DEF Mirror, Copy, Expired
<1>4. pc' # "down" => mem' = disk' \/ (disk' = disk /\ mem'.processed = mem.processed)
  <2>1. Copy(mem') => mem'.processed = mem.processed
    BY DEF Copy
  <2> QED
    BY <2>1
<1> QED
  BY <1>1, <1>3, <1>4 DEF DiskStep, FewRecords, Bounded, Typed, TypeOK

LEMMA WrittenDisk ==
    ASSUME disk' \in Registry, FewRecords(disk'), mem' = disk', now' = now,
           \A k \in Keys : Stays(disk', k) \/ Leaves(disk', k) \/ StoresCurrent(k),
           \/ disk'.processed \in {disk.processed, mem.processed}
           \/ pc = "commit" /\ disk'.processed = MaxOf(last, Current.seq)
    PROVE  DiskStep
BY DEF DiskStep, Mirror

LEMMA EmptyFacts == EmptyRegistry \in Registry /\ EmptyRegistry.processed = 0
BY AbsentFacts DEF EmptyRegistry, Registry

LEMMA MarkFacts ==
    ASSUME Typed, Lines, Mirror, Bounded, Handoff, MarkInDoubt
    PROVE  /\ DiskStep
           /\ disk'.rec[Current.cmd.key].status = "in_doubt"
           /\ disk'.rec[Current.cmd.key].op = Current.seq
<1> USE DEF vars, writerVars, memoryVars, history
<1>1. /\ now \in Nat /\ disk \in Registry /\ mem \in Registry /\ FewRecords(disk)
  BY DEF Typed, TypeOK, Bounded, FewRecords
<1>2. /\ pc = "mark" /\ now' = now /\ Copy(mem) /\ window # <<>>
  BY CopyFacts DEF MarkInDoubt, Lines, Handling
<1>3. PICK q \in Saved(WithResult(mem, Current, "in_doubt")) : mem' = q /\ disk' = q
  BY DEF MarkInDoubt
<1>4. /\ Current \in Line /\ Current.cmd \in Commands
      /\ disk.rec[Current.cmd.key] = Absent /\ "in_doubt" \in Statuses
  BY <1>2, CurrentFacts DEF Handoff, Copy, Statuses
<1>5. /\ q \in Registry /\ q.processed = mem.processed /\ FewRecords(q)
      /\ \A k \in Keys \ {Current.cmd.key} : Stays(q, k) \/ Leaves(q, k)
      /\ \/ Stored(q, Current.cmd.key, NewEntry(Current, "in_doubt"))
         \/ StoredAndGone(q, Current.cmd.key, NewEntry(Current, "in_doubt"))
  BY <1>1, <1>2, <1>3, <1>4, StoreFacts
<1>6. Stored(q, Current.cmd.key, NewEntry(Current, "in_doubt"))
  BY <1>5 DEF StoredAndGone, NewEntry
<1>7. StoresCurrent(Current.cmd.key)
  BY <1>2, <1>3, <1>4, <1>6 DEF StoresCurrent
<1>8. DiskStep
  BY <1>2, <1>3, <1>5, <1>7, WrittenDisk
<1> QED
  BY <1>3, <1>6, <1>8 DEF Stored, NewEntry

LEMMA RegistryStep ==
    ASSUME Typed, Lines, Mirror, Bounded, Handoff, [Next]_vars
    PROVE  DiskStep
<1> USE DEF vars, writerVars, memoryVars, history, Abort
<1>1. /\ now \in Nat /\ disk \in Registry /\ mem \in Registry /\ FewRecords(disk)
      /\ last \in 0..MaxSeq
  BY DEF Typed, TypeOK, Bounded, FewRecords
<1>2. pc # "down" => Copy(mem) /\ Copy(PruneExpired(mem))
  BY CopyFacts
<1>3. CASE Writer
  <2>1. disk' = disk /\ mem' = mem /\ pc' = pc /\ now' = now
    BY <1>3 DEF Writer, AppendTrade, AppendPlain, AppendLine, ClearLog
  <2> QED
    BY <1>1, <1>2, <2>1, SameDisk
<1>4. CASE Start
  BY <1>1, <1>4, SameDisk DEF Start
<1>5. CASE ProbeLog \/ ScanLog
  <2>1. disk' = disk /\ mem' = mem /\ pc # "down" /\ now' = now
    BY <1>5 DEF ProbeLog, ScanLog
  <2> QED
    BY <1>1, <1>2, <2>1, SameDisk
<1>6. CASE HandlePlain \/ AllocationFails \/ MarkRefused \/ CallbackReturns \/ CallbackThrows
           \/ CommitCheckpoint \/ WriteFails
  <2>1. disk' = disk /\ mem' = mem /\ pc # "down" /\ now' = now
    BY <1>6 DEF HandlePlain, AllocationFails, MarkRefused, CallbackReturns, CallbackThrows,
                CommitCheckpoint, WriteFails
  <2> QED
    BY <1>1, <1>2, <2>1, SameDisk
<1>7. CASE HandleKnown
  <2> DEFINE r == PruneExpired(mem)
  <2>1. disk' = disk /\ pc # "down" /\ now' = now /\ Copy(r)
    BY <1>2, <1>7 DEF HandleKnown
  <2>2. mem' = r \/ mem' = [r EXCEPT !.index[Current.cmd.id] = Current.cmd.key]
    BY <1>7 DEF HandleKnown
  <2>3. Current \in Line /\ Current.cmd # NoCommand
    BY <1>7, CurrentFacts DEF HandleKnown, Lines, Handling
  <2>4. Current.cmd.key \in Keys
    BY <2>3 DEF Line
  <2> HIDE DEF r
  <2>5. CASE mem' = r
    BY <1>1, <2>1, <2>5, SameDisk DEF Copy
  <2>6. CASE mem' = [r EXCEPT !.index[Current.cmd.id] = Current.cmd.key]
    <3>1. Copy(mem')
      BY <2>1, <2>4, <2>6 DEF Copy, Registry
    <3> QED
      BY <1>1, <2>1, <3>1, SameDisk DEF Copy
  <2> QED
    BY <2>2, <2>5, <2>6
<1>8. CASE HandleUndated \/ HandleNew
  <2>1. disk' = disk /\ mem' = PruneExpired(mem) /\ pc # "down" /\ now' = now
    BY <1>8 DEF HandleUndated, HandleNew
  <2> QED
    BY <1>1, <1>2, <2>1, SameDisk DEF Copy
<1>9. CASE HandleStale
  <2> DEFINE r == PruneExpired(mem)
  <2>1. /\ pc = "handle" /\ now' = now /\ Copy(r)
        /\ \/ \E q \in Saved(WithResult(r, Current, "rejected")) : mem' = q /\ disk' = q
           \/ mem' = r /\ disk' = disk
    BY <1>2, <1>9 DEF HandleStale
  <2>2. Unknown(r)
    BY <1>9 DEF HandleStale
  <2>3. /\ Current \in Line /\ Current.cmd \in Commands /\ Current.cmd.key \in Keys
        /\ disk.rec[Current.cmd.key] = Absent
    BY <2>1, <2>2, CurrentFacts DEF Lines, Handling, Unknown, Known, Copy, Line
  <2> HIDE DEF r
  <2>4. CASE mem' = r /\ disk' = disk
    BY <1>1, <2>1, <2>4, SameDisk DEF Copy
  <2>5. ASSUME NEW q \in Saved(WithResult(r, Current, "rejected")), mem' = q, disk' = q
        PROVE  DiskStep
    <3>1. "rejected" \in Statuses
      BY DEF Statuses
    <3>2. /\ q \in Registry /\ q.processed = mem.processed /\ FewRecords(q)
          /\ \A k \in Keys \ {Current.cmd.key} : Stays(q, k) \/ Leaves(q, k)
          /\ \/ Stored(q, Current.cmd.key, NewEntry(Current, "rejected"))
             \/ StoredAndGone(q, Current.cmd.key, NewEntry(Current, "rejected"))
      BY <1>1, <2>1, <2>3, <3>1, StoreFacts
    <3>3. StoresCurrent(Current.cmd.key)
      BY <2>1, <2>3, <2>5, <3>2 DEF StoresCurrent
    <3> QED
      BY <2>1, <2>5, <3>2, <3>3, WrittenDisk
  <2> QED
    BY <2>1, <2>4, <2>5
<1>10. CASE MarkInDoubt
  BY <1>10, MarkFacts
<1>11. CASE Accept \/ AcceptUnanswered
  <2>1. /\ pc = "accept" /\ now' = now /\ Copy(mem) /\ window # <<>>
    BY <1>2, <1>11 DEF Accept, AcceptUnanswered, Lines, Handling
  <2>2. PICK q \in Saved(WithResult(mem, Current, "accepted")) : mem' = q /\ disk' = q
    BY <1>11 DEF Accept, AcceptUnanswered
  <2>3. /\ Current \in Line /\ Current.cmd \in Commands
        /\ disk.rec[Current.cmd.key] # Absent /\ "accepted" \in Statuses
    BY <2>1, CurrentFacts, AbsentFacts DEF Handoff, Marked, Statuses
  <2>4. /\ q \in Registry /\ q.processed = mem.processed /\ FewRecords(q)
        /\ \A k \in Keys \ {Current.cmd.key} : Stays(q, k)
        /\ \/ Stored(q, Current.cmd.key, NewEntry(Current, "accepted"))
           \/ StoredAndGone(q, Current.cmd.key, NewEntry(Current, "accepted"))
    BY <1>1, <2>1, <2>2, <2>3, StoreFacts
  <2>5. StoresCurrent(Current.cmd.key)
    BY <2>1, <2>2, <2>3, <2>4 DEF StoresCurrent, StoredAndGone
  <2> QED
    BY <2>1, <2>2, <2>4, <2>5, WrittenDisk
<1>12. CASE CommitProcessed
  <2> DEFINE n == MaxOf(last, Current.seq)
  <2>1. /\ pc = "commit" /\ now' = now /\ Copy(mem) /\ window # <<>>
    BY <1>2, <1>12 DEF CommitProcessed, Lines, Handling
  <2>2. n \in Nat
    BY <1>1, <2>1, CurrentFacts DEF MaxOf, Seqs
  <2>3. PICK q \in Saved([mem EXCEPT !.processed = n]) : mem' = q /\ disk' = q
    BY <1>12 DEF CommitProcessed
  <2> HIDE DEF n
  <2>4. q \in Registry /\ q.processed = n /\ FewRecords(q) /\ \A k \in Keys : Stays(q, k)
    BY <1>1, <2>1, <2>2, <2>3, ProcessedFacts
  <2> QED
    BY <2>1, <2>3, <2>4, WrittenDisk DEF n
<1>13. CASE Crash
  BY <1>1, <1>13, SameDisk, EmptyFacts DEF Crash
<1>14. CASE LoseCheckpoint
  BY <1>1, <1>14, SameDisk DEF LoseCheckpoint
<1>15. CASE Tick
  <2>1. disk' = disk /\ mem' = mem /\ pc' = pc /\ now' = now + 1
    BY <1>15 DEF Tick
  <2>2. pc' # "down" => Copy(mem') \/ mem' = disk
    <3>1. ASSUME pc # "down" PROVE Copy(mem')
      BY <1>2, <2>1, <3>1 DEF Copy
    <3> QED
      BY <2>1, <3>1
  <2> QED
    BY <1>1, <2>1, <2>2, SameDisk
<1>16. CASE UNCHANGED vars
  <2>1. disk' = disk /\ mem' = mem /\ pc' = pc /\ now' = now
    BY <1>16
  <2> QED
    BY <1>1, <1>2, <2>1, SameDisk
<1> QED
  BY <1>3, <1>4, <1>5, <1>6, <1>7, <1>8, <1>9, <1>10, <1>11, <1>12, <1>13, <1>14, <1>15, <1>16
     DEF Next, Bridge, Faults
-----------------------------------------------------------------------------
(* Types, lines and numbers. *)

LEMMA ScanFacts ==
    ASSUME Typed, ScanLog
    PROVE  /\ cursor' \in Nat /\ first' \in 0..MaxSeq
           /\ \/ pc' = "idle" /\ window' = window
              \/ /\ pc' = "handle" /\ window' # <<>>
                 /\ window' \in Seq([line : Line, next : Nat])
                 /\ \A i \in DOMAIN window' : \E j \in DOMAIN log : window'[i].line = log[j]
<1> DEFINE from  == IF cursor > Len(log) THEN 0 ELSE cursor
           upto  == MinOf(Len(log), from + budget)
           old   == {p \in from + 1..upto : log[p].seq <= last}
           skip  == Cardinality(old)
           end   == MinOf(upto, from + skip + MaxReturned)
           fresh == [i \in 1..(end - from - skip) |->
                        [line |-> log[from + skip + i], next |-> from + skip + i]]
<1>1. /\ log \in Seq(Line) /\ Len(log) \in Nat /\ cursor \in Nat /\ budget \in Nat
      /\ first \in 0..MaxSeq
  BY DEF Typed, TypeOK
<1>2. from \in Nat /\ upto \in Nat /\ upto <= Len(log)
  BY <1>1 DEF MinOf
<1>4. \/ /\ fresh = <<>> /\ pc' = "idle" /\ cursor' = MaxOf(cursor, upto)
         /\ first' = first /\ window' = window
      \/ /\ fresh # <<>> /\ pc' = "handle" /\ cursor' = cursor /\ window' = fresh
         /\ first' = IF first = 0 THEN fresh[1].line.seq ELSE first
  BY DEF ScanLog
<1>5. skip \in Nat
  <2> HIDE DEF from, upto
  <2>1. from + 1 \in Int /\ upto \in Int
    BY <1>2
  <2>2. IsFiniteSet(from + 1..upto)
    BY <2>1, FS_Interval
  <2>3. old \subseteq from + 1..upto
    OBVIOUS
  <2> HIDE DEF old
  <2> QED
    BY <2>2, <2>3, FS_Subset, FS_CardinalityType
<1> HIDE DEF skip
<1>6. end \in Nat /\ end <= Len(log)
  BY <1>2, <1>5 DEF MinOf
<1> HIDE DEF from, upto, end
<1>7. \A i \in 1..(end - from - skip) :
          from + skip + i \in DOMAIN log /\ from + skip + i \in Nat
  BY <1>1, <1>2, <1>5, <1>6
<1>8. \A i \in 1..(end - from - skip) : log[from + skip + i] \in Line
  BY <1>1, <1>7
<1>9. fresh # <<>> => end - from - skip \in Nat \ {0}
  BY <1>2, <1>5, <1>6
<1>10. CASE fresh = <<>>
  BY <1>1, <1>2, <1>4, <1>10 DEF MaxOf
<1>11. CASE fresh # <<>>
  <2> DEFINE n == end - from - skip
             S == [line : Line, next : Nat]
  <2>0. n \in Nat /\ n # 0
    BY <1>9, <1>11
  <2>1. fresh \in Seq(S)
    <3>1. fresh \in [1..n -> S]
      BY <1>7, <1>8
    <3> HIDE DEF fresh, n, S
    <3> QED
      BY <2>0, <3>1, SeqDef
  <2>2. \A i \in DOMAIN fresh : \E j \in DOMAIN log : fresh[i].line = log[j]
    BY <1>7
  <2>3. fresh[1].line.seq \in Seqs
    BY <1>8, <2>0 DEF Line
  <2> HIDE DEF fresh, n
  <2> QED
    BY <1>1, <1>4, <1>11, <2>1, <2>2, <2>3 DEF Seqs
<1> QED
  BY <1>10, <1>11

\* What a step does to the lines that were sent.
SentStep ==
    /\ \A n \in Seqs : sent[n] # NoLine => sent'[n] = sent[n]
    /\ \A n \in Seqs : sent'[n] # NoLine /\ sent[n] = NoLine => n > Top /\ now' = now
    /\ \A n \in Seqs : sent'[n].until <= now' + Lifetime
    /\ sent' \in [Seqs -> Line \cup {NoLine}]
    /\ \A n \in Seqs : sent'[n] # NoLine => sent'[n].seq = n

LEMMA HistoryStep ==
    ASSUME Typed, Lines, Fresh, Dated, [Next]_vars
    PROVE  SentStep
<1>1. sent \in [Seqs -> Line \cup {NoLine}] /\ now \in Nat
  BY DEF Typed, TypeOK
<1>2. CASE AppendTrade \/ AppendPlain
  <2>1. PICK line \in Line : NewLine(line)
    BY <1>2, AppendFacts
  <2>2. now' = now
    BY <1>2, AppendFacts
  <2>3. line.seq \in Seqs /\ line.until \in Nat
    BY <2>1 DEF Line
  <2> QED
    BY <1>1, <2>1, <2>2, <2>3 DEF NewLine, SentStep, Dated, Lines
<1>3. CASE sent' = sent /\ (now' = now \/ now' = now + 1)
  <2>1. \A n \in Seqs : sent[n].until \in Nat
    BY <1>1 DEF Line, NoLine
  <2> QED
    BY <1>1, <1>3, <2>1 DEF SentStep, Dated, Lines
<1>4. AppendTrade \/ AppendPlain \/ (sent' = sent /\ (now' = now \/ now' = now + 1))
  BY DEF Next, Writer, Bridge, Faults, vars, writerVars, memoryVars, history,
     ClearLog, Start, ProbeLog, ScanLog, HandlePlain, HandleKnown, HandleUndated, HandleStale,
     HandleNew, AllocationFails, MarkInDoubt, MarkRefused, CallbackReturns, CallbackThrows,
     Accept, CommitProcessed, CommitCheckpoint, WriteFails, AcceptUnanswered, Crash,
     LoseCheckpoint, Tick
<1> QED
  BY <1>2, <1>3, <1>4

LEMMA TypedStep ==
    ASSUME Typed, Lines, Fresh, DiskStep, SentStep, [Next]_vars
    PROVE  Typed'
<1> USE DEF vars, writerVars, memoryVars, history, Abort
<1>1. /\ disk' \in Registry /\ mem' \in Registry /\ sent' \in [Seqs -> Line \cup {NoLine}]
      /\ <<>> \in Seq([line : Line, next : Nat]) /\ <<>> \in Seq(Line)
  BY DEF DiskStep, SentStep
<1>2. /\ log \in Seq(Line) /\ checkpoint \in 0..MaxSeq /\ nextSeq \in 0..MaxSeq + 1
      /\ pc \in {"down", "idle", "scan", "handle", "mark", "callback", "accept", "commit",
                 "checkpoint"}
      /\ last \in 0..MaxSeq /\ cursor \in Nat /\ first \in 0..MaxSeq /\ budget \in Nat
      /\ window \in Seq([line : Line, next : Nat])
      /\ now \in Nat /\ faults \in 0..MaxFaults
      /\ handed \in [Seqs -> 0..2] /\ handedAt \in [Seqs -> Nat]
      /\ answers \in [Seqs -> SUBSET Answer]
      /\ disk \in Registry /\ disk.processed \in Nat
  BY DEF Typed, TypeOK, Registry
<1>3. pc \in Handling => /\ Current.seq \in Seqs /\ Current \in Line
                         /\ Head(window).next \in Nat
                         /\ Tail(window) \in Seq([line : Line, next : Nat])
  BY CurrentFacts DEF Lines
<1>4. CASE AppendTrade \/ AppendPlain
  <2>1. PICK line \in Line : NewLine(line)
    BY <1>4, AppendFacts
  <2>2. /\ log' \in Seq(Line) /\ nextSeq' \in 0..MaxSeq + 1
    <3>1. nextSeq' \in 0..MaxSeq + 1
      BY <2>1 DEF NewLine, Line, Seqs
    <3>2. Append(log, line) \in Seq(Line) /\ <<line>> \in Seq(Line)
      BY <1>2, <2>1
    <3> QED
      BY <2>1, <3>1, <3>2 DEF NewLine
  <2> QED
    BY <1>1, <1>2, <1>4, <2>2, AppendFacts DEF Typed, TypeOK
<1>5. CASE ClearLog
  BY <1>1, <1>2, <1>5 DEF ClearLog, Typed, TypeOK
<1>6. CASE Start
  <2>1. last' \in 0..MaxSeq
    BY SMTT(30), <1>2, <1>6, VisibleFacts DEF Start, MaxOf, Fresh
  <2> QED
    BY <1>1, <1>2, <1>6, <2>1 DEF Start, Typed, TypeOK
<1>7. CASE ProbeLog
  <2>1. log # <<>> => log[1].seq \in Seqs
    <3>1. log # <<>> => log[1] \in Line
      BY <1>2
    <3> QED
      BY <3>1 DEF Line
  <2>2. cursor' \in Nat /\ first' \in 0..MaxSeq /\ budget' \in Nat
    <3> DEFINE head    == IF log = <<>> THEN 0 ELSE log[1].seq
               shrunk  == cursor > Len(log)
               known   == IF shrunk THEN 0 ELSE first
               probed  == ~shrunk /\ cursor # 0 /\ head # 0
               reset   == probed /\ ((known # 0 /\ head # known) \/ head > last)
    <3>1. /\ cursor' = IF shrunk \/ reset THEN 0 ELSE cursor
          /\ first'  = IF probed THEN head ELSE known
          /\ budget' = IF probed /\ ~reset THEN MaxScanned - 1 ELSE MaxScanned
      BY <1>7 DEF ProbeLog
    <3> QED
      BY <1>2, <2>1, <3>1 DEF Seqs
  <2> QED
    BY <1>1, <1>2, <1>7, <2>2 DEF ProbeLog, Typed, TypeOK
<1>8. CASE ScanLog
  <2>1. /\ cursor' \in Nat /\ first' \in 0..MaxSeq /\ pc' \in {"idle", "handle"}
        /\ window' \in Seq([line : Line, next : Nat])
    BY <1>2, <1>8, ScanFacts
  <2>2. UNCHANGED <<writerVars, checkpoint, disk, mem, last, now, faults, history>> /\ budget' = 0
    BY <1>8 DEF ScanLog
  <2> QED
    BY <1>1, <1>2, <2>1, <2>2 DEF Typed, TypeOK
<1>9. ASSUME pc \in Handling, NEW results \in SUBSET Answer,
             answers' = [answers EXCEPT ![Current.seq] = @ \cup results]
      PROVE  answers' \in [Seqs -> SUBSET Answer]
  BY <1>2, <1>3, <1>9
<1>10. \A st \in Statuses \cup {"plain", "conflict", "error"}, op \in 0..MaxSeq :
          pc \in Handling /\ Answered(Current, st, op) => answers' \in [Seqs -> SUBSET Answer]
  <2> TAKE st \in Statuses \cup {"plain", "conflict", "error"}, op \in 0..MaxSeq
  <2>1. {[status |-> st, op |-> op]} \in SUBSET Answer
    BY DEF Answer
  <2> QED
    BY <1>9, <2>1 DEF Answered
<1>11. Seqs \subseteq 0..MaxSeq /\ 0 \in 0..MaxSeq
       /\ {"in_doubt", "accepted", "rejected"} \subseteq Statuses
  BY DEF Seqs, Statuses
<1>12. CASE HandlePlain \/ AllocationFails
  <2>1. answers' \in [Seqs -> SUBSET Answer]
    BY <1>10, <1>11, <1>12 DEF HandlePlain, AllocationFails, Handling
  <2> QED
    BY <1>1, <1>2, <1>12, <2>1 DEF HandlePlain, AllocationFails, Typed, TypeOK
<1>13. CASE HandleKnown
  <2>1. answers' \in [Seqs -> SUBSET Answer]
    <3> DEFINE r == PruneExpired(mem)
               e == Known(r, Current.cmd.key)
    <3>1. r \in Registry
      BY <1>2, PruneFacts DEF Typed, TypeOK
    <3>2. pc \in Handling /\ Current.cmd # NoCommand
      BY <1>13 DEF HandleKnown, Handling
    <3>3. e \in Entry
      <4>1. Current.cmd.key \in Keys
        BY <1>3, <3>2 DEF Line
      <4> QED
        BY <3>1, <4>1 DEF Known, Registry
    <3> HIDE DEF r
    <3>4. \/ Answered(Current, "conflict", 0)
          \/ e # Absent /\ Answered(Current, e.status, e.op)
      BY <1>13 DEF HandleKnown, r
    <3> HIDE DEF e
    <3> QED
      BY <1>10, <1>11, <3>2, <3>3, <3>4, AbsentFacts
  <2> QED
    BY <1>1, <1>2, <1>13, <2>1 DEF HandleKnown, Typed, TypeOK
<1>14. CASE HandleUndated
  <2>1. answers' \in [Seqs -> SUBSET Answer]
    BY <1>10, <1>11, <1>14 DEF HandleUndated, Handling
  <2> QED
    BY <1>1, <1>2, <1>14, <2>1 DEF HandleUndated, Typed, TypeOK
<1>15. CASE HandleStale
  <2> DEFINE told == {[status |-> "rejected", op |-> Current.seq]}
             both == told \cup {[status |-> "error", op |-> 0]}
  <2>1. pc = "handle" /\ pc \in Handling
    BY <1>15 DEF HandleStale, Handling
  <2>2. told \in SUBSET Answer /\ both \in SUBSET Answer
    <3>1. /\ [status |-> "rejected", op |-> Current.seq] \in Answer
          /\ [status |-> "error", op |-> 0] \in Answer
      BY <1>3, <1>11, <2>1 DEF Answer
    <3> QED
      BY <3>1
  <2>3. /\ \/ answers' = [answers EXCEPT ![Current.seq] = @ \cup told]
           \/ answers' = [answers EXCEPT ![Current.seq] = @ \cup both]
        /\ faults' = faults \/ (faults < MaxFaults /\ faults' = faults + 1)
        /\ pc' = "commit"
        /\ UNCHANGED <<writerVars, checkpoint, last, cursor, first, budget, window, now,
                       handed, handedAt>>
    BY <1>15 DEF HandleStale
  <2> HIDE DEF told, both
  <2>4. answers' \in [Seqs -> SUBSET Answer]
    BY <1>9, <2>1, <2>2, <2>3
  <2>5. faults' \in 0..MaxFaults
    BY <1>2, <2>3
  <2> QED
    BY <1>1, <1>2, <2>3, <2>4, <2>5 DEF Typed, TypeOK
<1>16. CASE HandleNew \/ MarkInDoubt \/ MarkRefused
  <2>1. /\ pc' \in {"mark", "callback", "idle"} /\ window' \in {window, <<>>}
        /\ UNCHANGED <<checkpoint, last, cursor, first, budget, now, faults, history>>
        /\ UNCHANGED <<log, nextSeq>>
    BY <1>16 DEF HandleNew, MarkInDoubt, MarkRefused
  <2>2. window' \in Seq([line : Line, next : Nat])
    BY <1>1, <1>2, <2>1
  <2>3. pc' \in {"down", "idle", "scan", "handle", "mark", "callback", "accept", "commit",
                 "checkpoint"}
    BY <2>1
  <2> QED
    BY <1>1, <1>2, <2>1, <2>2, <2>3 DEF Typed, TypeOK
<1>17. pc = "callback" /\ Hand => handed' \in [Seqs -> 0..2] /\ handedAt' \in [Seqs -> Nat]
  <2> SUFFICES ASSUME pc = "callback", Hand
               PROVE  handed' \in [Seqs -> 0..2] /\ handedAt' \in [Seqs -> Nat]
    OBVIOUS
  <2>1. Current.seq \in Seqs
    BY <1>3 DEF Handling
  <2>2. handed[Current.seq] \in 0..2
    BY <1>2, <2>1
  <2>3. MinOf(handed[Current.seq] + 1, 2) \in 0..2
    BY <2>2 DEF MinOf
  <2> QED
    BY <1>2, <2>1, <2>3 DEF Hand
<1>18. CASE CallbackReturns
  BY <1>1, <1>2, <1>17, <1>18 DEF CallbackReturns, Typed, TypeOK
<1>19. CASE CallbackThrows
  <2>1. answers' \in [Seqs -> SUBSET Answer]
    BY <1>10, <1>11, <1>19 DEF CallbackThrows, Handling
  <2> QED
    BY <1>1, <1>2, <1>17, <1>19, <2>1 DEF CallbackThrows, Typed, TypeOK
<1>20. CASE Accept
  <2>1. answers' \in [Seqs -> SUBSET Answer]
    BY <1>3, <1>10, <1>11, <1>20 DEF Accept, Handling
  <2> QED
    BY <1>1, <1>2, <1>20, <2>1 DEF Accept, Typed, TypeOK
<1>21. CASE AcceptUnanswered
  <2>1. faults' \in 0..MaxFaults
    BY <1>2, <1>21 DEF AcceptUnanswered
  <2> QED
    BY <1>1, <1>2, <1>21, <2>1 DEF AcceptUnanswered, Typed, TypeOK
<1>22. pc = "commit" => MaxOf(last, Current.seq) \in 0..MaxSeq
  BY <1>2, <1>3 DEF MaxOf, Handling, Seqs
<1>23. CASE CommitProcessed
  BY <1>1, <1>2, <1>22, <1>23 DEF CommitProcessed, Typed, TypeOK
<1>24. CASE CommitCheckpoint
  <2>1. cursor' \in Nat
    BY <1>2, <1>3, <1>24 DEF CommitCheckpoint, MaxOf, Handling
  <2> QED
    BY <1>1, <1>2, <1>3, <1>24, <2>1 DEF CommitCheckpoint, Handling, Typed, TypeOK
<1>25. CASE WriteFails
  <2>1. faults' \in 0..MaxFaults
    BY <1>2, <1>25 DEF WriteFails
  <2> QED
    BY <1>1, <1>2, <1>22, <1>25, <2>1 DEF WriteFails, Typed, TypeOK
<1>26. CASE Crash
  <2>1. faults' \in 0..MaxFaults
    BY <1>2, <1>26 DEF Crash
  <2> QED
    BY <1>1, <1>2, <1>26, <2>1 DEF Crash, Typed, TypeOK
<1>27. CASE LoseCheckpoint \/ Tick \/ UNCHANGED vars
  <2>1. /\ checkpoint' \in {0, checkpoint} /\ now' \in {now, now + 1}
        /\ UNCHANGED <<writerVars, pc, last, cursor, first, budget, window, faults, history>>
    BY <1>27 DEF LoseCheckpoint, Tick
  <2> QED
    BY <1>1, <1>2, <2>1 DEF Typed, TypeOK
<1> QED
  BY <1>4, <1>5, <1>6, <1>7, <1>8, <1>12, <1>13, <1>14, <1>15, <1>16, <1>18, <1>19, <1>20, <1>21,
     <1>23, <1>24, <1>25, <1>26, <1>27 DEF Next, Writer, Bridge, Faults

\* Which steps touch the window, the log and the place in process().
LEMMA FrameFacts ==
    ASSUME [Next]_vars
    PROVE  /\ AppendTrade \/ AppendPlain \/ log' \in {log, <<>>}
           /\ CommitCheckpoint \/ ScanLog \/ window' \in {window, <<>>}
           /\ pc' \in Handling =>
                 CommitCheckpoint \/ ScanLog \/ (pc \in Handling /\ window' = window)
           /\ now' \in {now, now + 1}
<1> USE DEF vars, writerVars, memoryVars, history, Abort, Handling
<1>1. CASE Writer
  BY <1>1 DEF Writer, AppendTrade, AppendPlain, AppendLine, ClearLog
<1>2. CASE Start \/ ProbeLog \/ HandlePlain \/ HandleKnown \/ HandleUndated \/ HandleNew
  BY <1>2 DEF Start, ProbeLog, HandlePlain, HandleKnown, HandleUndated, HandleNew
<1>3. CASE ScanLog \/ CommitCheckpoint
  BY <1>3 DEF ScanLog, CommitCheckpoint
<1>4. CASE HandleStale
  BY <1>4 DEF HandleStale
<1>5. CASE AllocationFails \/ MarkInDoubt \/ MarkRefused \/ CallbackReturns \/ CallbackThrows
  BY <1>5 DEF AllocationFails, MarkInDoubt, MarkRefused, CallbackReturns, CallbackThrows
<1>6. CASE Accept \/ CommitProcessed
  BY <1>6 DEF Accept, CommitProcessed
<1>7. CASE Faults
  BY <1>7 DEF Faults, WriteFails, AcceptUnanswered, Crash, LoseCheckpoint
<1>8. CASE Tick \/ UNCHANGED vars
  BY <1>8 DEF Tick
<1> QED
  BY <1>1, <1>2, <1>3, <1>4, <1>5, <1>6, <1>7, <1>8 DEF Next, Bridge

LEMMA LinesStep ==
    ASSUME Typed, Lines, Fresh, SentStep, [Next]_vars
    PROVE  Lines'
<1>1. /\ log \in Seq(Line) /\ window \in Seq([line : Line, next : Nat])
      /\ sent \in [Seqs -> Line \cup {NoLine}]
  BY DEF Typed, TypeOK
<1>2. \A i \in DOMAIN log : log[i] \in Line /\ sent'[log[i].seq] = log[i]
  <2> TAKE i \in DOMAIN log
  <2>1. log[i] \in Line /\ log[i] = sent[log[i].seq]
    BY <1>1 DEF Lines
  <2>2. log[i].seq \in Seqs /\ log[i] # NoLine
    BY <2>1 DEF Line, NoLine, Seqs
  <2> QED
    BY <2>1, <2>2 DEF SentStep
<1>3. \A i \in DOMAIN window : sent'[window[i].line.seq] = window[i].line
  <2> TAKE i \in DOMAIN window
  <2>1. window[i].line \in Line /\ window[i].line = sent[window[i].line.seq]
    <3> DEFINE S == [line : Line, next : Nat]
    <3>1. window[i] \in S
      <4> HIDE DEF S
      <4>1. window \in Seq(S)
        BY <1>1 DEF S
      <4> QED
        BY <4>1
    <3> QED
      BY <3>1 DEF Lines
  <2>2. window[i].line.seq \in Seqs /\ window[i].line # NoLine
    BY <2>1 DEF Line, NoLine, Seqs
  <2> QED
    BY <2>1, <2>2 DEF SentStep
<1>4. \A i \in DOMAIN log' : log'[i] = sent'[log'[i].seq]
  <2>1. CASE AppendTrade \/ AppendPlain
    <3>1. PICK line \in Line : NewLine(line)
      BY <2>1, AppendFacts
    <3>2. sent'[line.seq] = line
      BY <1>1, <3>1 DEF NewLine, Line
    <3>3. CASE log' = Append(log, line)
      <4>1. \A i \in DOMAIN log' : log'[i] = line \/ (i \in DOMAIN log /\ log'[i] = log[i])
        BY <1>1, <3>3
      <4> QED
        BY <1>2, <3>2, <4>1
    <3>4. CASE log' = <<line>>
      BY <3>2, <3>4
    <3> QED
      BY <3>1, <3>3, <3>4 DEF NewLine
  <2>2. CASE log' \in {log, <<>>}
    BY <1>2, <2>2
  <2> QED
    BY <2>1, <2>2, FrameFacts
<1>5. /\ \A i \in DOMAIN window' : window'[i].line = sent'[window'[i].line.seq]
      /\ pc' \in Handling => window' # <<>>
  <2>1. CASE CommitCheckpoint
    <3>1. window # <<>> /\ window' = Tail(window)
          /\ pc' = IF Tail(window) = <<>> THEN "idle" ELSE "handle"
      BY <2>1 DEF CommitCheckpoint, Lines, Handling
    <3>2. \A i \in DOMAIN Tail(window) : Tail(window)[i] = window[i + 1]
                                         /\ i + 1 \in DOMAIN window
      BY <3>1, CurrentFacts
    <3> QED
      BY <1>3, <3>1, <3>2 DEF Handling
  <2>2. CASE ScanLog
    <3>1. \/ pc' = "idle" /\ window' = window
          \/ /\ pc' = "handle" /\ window' # <<>>
             /\ \A i \in DOMAIN window' : \E j \in DOMAIN log : window'[i].line = log[j]
      BY <2>2, ScanFacts
    <3> QED
      BY <1>2, <1>3, <3>1 DEF Handling
  <2>3. CASE /\ window' \in {window, <<>>}
             /\ pc' \in Handling => pc \in Handling /\ window' = window
    BY <1>3, <2>3 DEF Lines
  <2> QED
    BY <2>1, <2>2, <2>3, FrameFacts
<1>6. \A n \in Seqs : sent'[n] # NoLine => sent'[n].seq = n
  BY DEF SentStep
<1> QED
  BY <1>4, <1>5, <1>6 DEF Lines

LEMMA FreshStep ==
    ASSUME Typed, Lines, Fresh, DiskStep, [Next]_vars
    PROVE  Fresh'
<1> USE DEF vars, writerVars, memoryVars, history, Abort
<1>1. /\ log \in Seq(Line) /\ checkpoint \in 0..MaxSeq /\ last \in 0..MaxSeq
      /\ disk.processed \in Nat /\ mem.processed \in Nat
      /\ sent \in [Seqs -> Line \cup {NoLine}]
      /\ VisibleMax \in 0..MaxSeq /\ Top \in 0..MaxSeq
  BY VisibleFacts DEF Typed, TypeOK, Registry
<1>2. pc \in Handling => Current.seq \in Seqs /\ Current.seq <= Top
  BY CurrentFacts DEF Lines, Fresh
<1>3. CASE AppendTrade \/ AppendPlain
  <2>1. PICK line \in Line : NewLine(line)
    BY <1>3, AppendFacts
  <2>2. UNCHANGED <<checkpoint, disk, mem, last, pc>>
    BY <1>3, AppendFacts
  <2>3. log' # <<>> /\ log'[Len(log')] = line
    <3> DEFINE S == Line
    <3> HIDE DEF S
    <3>1. log \in Seq(S) /\ line \in S
      BY <1>1 DEF S
    <3>2. /\ Append(log, line) # <<>> /\ Len(Append(log, line)) = Len(log) + 1
          /\ Append(log, line)[Len(log) + 1] = line
      BY <3>1, AppendProperties
    <3>3. <<line>> # <<>> /\ <<line>>[Len(<<line>>)] = line
      OBVIOUS
    <3> QED
      BY <2>1, <3>2, <3>3 DEF NewLine
  <2>4. VisibleMax' = line.seq /\ Top' = line.seq
    BY <2>3 DEF VisibleMax, Top
  <2>5. line.seq \in Seqs /\ Top < line.seq /\ checkpoint < line.seq
    BY <2>1 DEF NewLine, Line, Seqs
  <2>6. \A n \in Seqs : sent'[n] # NoLine => n <= line.seq
    <3> TAKE n \in Seqs
    <3>1. n # line.seq => sent'[n] = sent[n]
      BY <1>1, <2>1 DEF NewLine
    <3> QED
      BY <1>1, <2>5, <3>1 DEF Fresh, Seqs
  <2> QED
    BY <1>1, <2>2, <2>4, <2>5, <2>6 DEF Fresh, Seqs
<1>4. CASE ClearLog
  <2>1. /\ log # <<>> /\ log' = <<>> /\ checkpoint = VisibleMax
        /\ UNCHANGED <<checkpoint, disk, mem, last, pc, sent>>
    BY <1>1, <1>4 DEF ClearLog, CaughtUp, Fresh
  <2> QED
    BY <1>1, <2>1 DEF Fresh, Top
<1> HIDE DEF vars, writerVars, memoryVars, history, Abort
<1>5. ASSUME log' = log, sent' = sent, checkpoint' = checkpoint, last' <= Top,
             disk'.processed <= Top, mem'.processed <= Top,
             pc' # "down" => checkpoint <= last'
      PROVE  Fresh'
  BY <1>5 DEF Fresh, Top, VisibleMax
<1>6. ASSUME disk'.processed \in {disk.processed, mem.processed}
      PROVE  disk'.processed <= Top /\ mem'.processed <= Top
  BY <1>1, <1>6 DEF Fresh, DiskStep
<1> USE DEF vars, writerVars, memoryVars, history, Abort
<1>7. CASE Start
  <2>1. last' <= Top /\ checkpoint <= last'
    BY <1>1, <1>7 DEF Start, MaxOf, Fresh, Top
  <2> QED
    BY <1>5, <1>6, <1>7, <2>1 DEF Start
<1>8. CASE Crash
  BY <1>1, <1>5, <1>6, <1>8 DEF Crash
<1>9. CASE CommitProcessed
  <2>1. pc = "commit" /\ last' = MaxOf(last, Current.seq)
        /\ UNCHANGED <<log, sent, checkpoint>>
    BY <1>9 DEF CommitProcessed
  <2>2. last' <= Top /\ checkpoint <= last'
    BY <1>1, <1>2, <2>1 DEF MaxOf, Handling, Fresh, Seqs
  <2>3. disk'.processed <= Top /\ mem'.processed <= Top
    BY <1>1, <1>2, <2>1, <2>2 DEF DiskStep, Fresh
  <2> QED
    BY <1>5, <2>1, <2>2, <2>3
<1>10. CASE WriteFails
  <2>1. /\ pc # "down" /\ last' \in {last, MaxOf(last, Current.seq)}
        /\ pc \in Handling /\ UNCHANGED <<log, sent, checkpoint, disk>>
    BY <1>10 DEF WriteFails, Handling
  <2>2. last' <= Top /\ checkpoint <= last'
    BY <1>1, <1>2, <2>1 DEF MaxOf, Fresh, Seqs
  <2> QED
    BY <1>5, <1>6, <2>1, <2>2
<1>11. CASE CommitCheckpoint
  <2>1. checkpoint' = last /\ pc # "down" /\ UNCHANGED <<log, sent, disk, mem, last>>
    BY <1>11 DEF CommitCheckpoint
  <2>2. CASE log = <<>>
    BY <1>1, <2>1, <2>2 DEF Fresh, Top, Seqs
  <2>3. CASE log # <<>>
    BY <1>1, <2>1, <2>3 DEF Fresh, Top, VisibleMax
  <2> QED
    BY <2>2, <2>3
<1>12. CASE LoseCheckpoint
  <2>1. /\ log # <<>> /\ checkpoint' = 0 /\ pc = "down"
        /\ UNCHANGED <<log, sent, disk, mem, last, pc>>
    BY <1>12 DEF LoseCheckpoint
  <2> QED
    BY <1>1, <2>1 DEF Fresh, Top, VisibleMax
<1>13. CASE HandleStale \/ MarkInDoubt \/ Accept \/ AcceptUnanswered
  <2>1. UNCHANGED <<log, sent, checkpoint, last>> /\ pc \in Handling /\ pc # "down"
    BY <1>13 DEF HandleStale, MarkInDoubt, Accept, AcceptUnanswered, Handling
  <2>2. disk'.processed \in {disk.processed, mem.processed}
    BY <1>13 DEF DiskStep, HandleStale, MarkInDoubt, Accept, AcceptUnanswered
  <2> QED
    BY <1>1, <1>5, <1>6, <2>1, <2>2 DEF Fresh
<1>14. CASE ProbeLog \/ ScanLog \/ HandlePlain \/ HandleKnown \/ HandleUndated \/ HandleNew
            \/ AllocationFails \/ MarkRefused \/ CallbackReturns \/ CallbackThrows
            \/ Tick \/ UNCHANGED vars
  <2>1. /\ UNCHANGED <<log, sent, checkpoint, last, disk>>
        /\ pc' # "down" => pc # "down"
    BY <1>14 DEF ProbeLog, ScanLog, HandlePlain, HandleKnown, HandleUndated, HandleNew,
       AllocationFails, MarkRefused, CallbackReturns, CallbackThrows, Tick
  <2> QED
    BY <1>1, <1>5, <1>6, <2>1 DEF Fresh
<1> QED
  BY <1>3, <1>4, <1>7, <1>8, <1>9, <1>10, <1>11, <1>12, <1>13, <1>14
     DEF Next, Writer, Bridge, Faults
-----------------------------------------------------------------------------
(* What is remembered, handed over and answered. *)

\* A line is handed over in one step, after its marker is on disk.
HandStep ==
    \/ handed' = handed /\ handedAt' = handedAt
    \/ /\ pc = "callback" /\ pc' \in {"accept", "commit"} /\ Hand
       /\ UNCHANGED <<disk, mem, sent, now, window>>

LEMMA HandFacts ==
    ASSUME [Next]_vars
    PROVE  HandStep
<1> USE DEF vars, writerVars, memoryVars, history, HandStep
<1>1. CASE CallbackReturns \/ CallbackThrows
  BY <1>1 DEF CallbackReturns, CallbackThrows
<1>2. CASE ~(CallbackReturns \/ CallbackThrows)
  BY <1>2 DEF Next, Writer, Bridge, Faults, AppendTrade, AppendPlain, AppendLine,
     ClearLog, Start, ProbeLog, ScanLog, HandlePlain, HandleKnown, HandleUndated, HandleStale,
     HandleNew, AllocationFails, MarkInDoubt, MarkRefused,
     Accept, CommitProcessed, CommitCheckpoint, WriteFails, AcceptUnanswered, Crash,
     LoseCheckpoint, Tick
<1> QED
  BY <1>1, <1>2

LEMMA HandedGrows ==
    ASSUME Typed, Lines, HandStep
    PROVE  \A n \in Seqs : handed[n] # 0 => handed'[n] # 0
<1>1. CASE handed' = handed
  BY <1>1
<1>2. CASE pc = "callback" /\ Hand
  <2>1. Current.seq \in Seqs
    BY <1>2, CurrentFacts DEF Lines, Handling
  <2>2. handed \in [Seqs -> 0..2]
    BY DEF Typed, TypeOK
  <2>3. MinOf(handed[Current.seq] + 1, 2) # 0
    BY <2>1, <2>2 DEF MinOf
  <2> QED
    BY <1>2, <2>1, <2>2, <2>3 DEF Hand
<1> QED
  BY <1>1, <1>2 DEF HandStep

LEMMA TruthStep ==
    ASSUME Typed, Lines, Truth, Handoff, DiskStep, SentStep, HandStep
    PROVE  Truth'
<1>1. disk \in Registry /\ disk' \in Registry
  BY DEF Typed, TypeOK, DiskStep
<1> DEFINE T(k, e) == e # Absent =>
              /\ sent'[e.op] # NoLine /\ sent'[e.op].cmd \in Commands
              /\ sent'[e.op].cmd.key = k /\ sent'[e.op].cmd.payload = e.payload
              /\ e.status = "accepted" => handed'[e.op] # 0
<1>2. ASSUME NEW k \in Keys, NEW e \in Entry, TrueEntry(k, e) PROVE T(k, e)
  <2>1. e # Absent => e.op \in Seqs
    BY AbsentFacts
  <2> QED
    BY <1>2, <2>1, HandedGrows DEF TrueEntry, SentStep
<1>3. ASSUME NEW k \in Keys PROVE T(k, disk'.rec[k]) /\ T(k, disk'.tomb[k])
  <2>1. /\ disk.rec[k] \in Entry /\ disk.tomb[k] \in Entry
        /\ T(k, disk.rec[k]) /\ T(k, disk.tomb[k])
    BY <1>1, <1>2 DEF Truth, Registry
  <2>2. T(k, Absent)
    OBVIOUS
  <2>3. CASE Stays(disk', k)
    BY <2>1, <2>2, <2>3 DEF Stays
  <2>4. CASE Leaves(disk', k)
    <3> DEFINE e == [disk.rec[k] EXCEPT !.at = now]
    <3>1. disk.rec[k] # Absent /\ disk'.rec[k] = Absent /\ disk'.tomb[k] = e
      BY <2>4 DEF Leaves
    <3>2. e.op = disk.rec[k].op /\ e.payload = disk.rec[k].payload
          /\ e.status = disk.rec[k].status
      BY <2>1, <3>1 DEF Entry
    <3> HIDE DEF e
    <3> QED
      BY <2>1, <2>2, <3>1, <3>2
  <2>5. CASE StoresCurrent(k)
    <3>1. pc \in Handling /\ Current.cmd \in Commands /\ k = Current.cmd.key
      BY <2>5 DEF StoresCurrent, Handling
    <3>2. /\ Current.seq \in Seqs /\ sent'[Current.seq] = Current /\ Current # NoLine
      BY <3>1, CurrentFacts DEF Lines, SentStep
    <3>3. \A st \in Statuses : (st = "accepted" => pc = "accept") => T(k, NewEntry(Current, st))
      BY <3>1, <3>2, HandedGrows DEF NewEntry, Handoff
    <3>4. PICK st \in Statuses :
             /\ st = "accepted" => pc = "accept"
             /\ \/ Stored(disk', k, NewEntry(Current, st))
                \/ StoredAndGone(disk', k, NewEntry(Current, st))
      BY <2>5 DEF StoresCurrent, Statuses
    <3>5. T(k, NewEntry(Current, st))
      BY <3>3, <3>4
    <3> HIDE DEF T
    <3> QED
      BY <2>1, <2>2, <3>4, <3>5 DEF Stored, StoredAndGone
  <2> QED
    BY <2>3, <2>4, <2>5 DEF DiskStep
<1> QED
  BY <1>3 DEF Truth, TrueEntry

\* The key of a line that was handed over stays known.
LEMMA KnownStep ==
    ASSUME Typed, Lines, DiskStep, SentStep, [Next]_vars,
           NEW k \in Keys, NEW t \in Nat, t <= now,
           \/ disk.rec[k] # Absent
           \/ disk.tomb[k] # Absent /\ disk.tomb[k].at >= t
           \/ now >= t + Retention
    PROVE  \/ disk'.rec[k] # Absent
           \/ disk'.tomb[k] # Absent /\ disk'.tomb[k].at >= t
           \/ now' >= t + Retention
<1>1. disk \in Registry /\ disk' \in Registry /\ now \in Nat /\ now' \in {now, now + 1}
  BY FrameFacts DEF Typed, TypeOK, DiskStep
<1>2. disk.rec[k] \in Entry /\ disk.tomb[k] \in Entry
  BY <1>1 DEF Registry
<1>3. CASE Stays(disk', k)
  <2>1. Expired(disk.tomb[k]) /\ disk.tomb[k].at >= t => now >= t + Retention
    BY <1>1, <1>2, AbsentFacts DEF Expired
  <2> QED
    BY <1>1, <1>3, <2>1 DEF Stays
<1>4. CASE Leaves(disk', k)
  <2>1. disk'.tomb[k].at = now /\ disk'.tomb[k].status # "absent"
    BY <1>2, <1>4, AbsentFacts DEF Leaves, Entry, Statuses
  <2> QED
    BY <2>1, AbsentFacts
<1>5. CASE StoresCurrent(k)
  <2>1. PICK e : /\ e.status \in Statuses /\ e.at = now
                 /\ Stored(disk', k, e) \/ StoredAndGone(disk', k, e)
    BY <1>5 DEF StoresCurrent, NewEntry, Statuses
  <2>2. e # Absent
    BY <2>1 DEF Absent, Statuses
  <2> QED
    BY <2>1, <2>2 DEF Stored, StoredAndGone
<1> QED
  BY <1>3, <1>4, <1>5 DEF DiskStep

LEMMA RememberedStep ==
    ASSUME Typed, Lines, Dated, Remembered, Handoff, DiskStep, SentStep, HandStep, [Next]_vars
    PROVE  Remembered'
<1>1. /\ now \in Nat /\ now' \in {now, now + 1} /\ handedAt \in [Seqs -> Nat]
      /\ handed \in [Seqs -> 0..2] /\ sent \in [Seqs -> Line \cup {NoLine}]
  BY FrameFacts DEF Typed, TypeOK
<1>2. ASSUME NEW n \in Seqs, handed[n] # 0, handedAt'[n] = handedAt[n]
      PROVE  /\ sent'[n] # NoLine /\ sent'[n].cmd \in Commands
             /\ handedAt'[n] <= now' /\ sent'[n].until <= handedAt'[n] + Lifetime
             /\ StillKnown(n)'
  <2>1. /\ sent[n] # NoLine /\ sent[n].cmd \in Commands /\ handedAt[n] <= now
        /\ sent[n].until <= handedAt[n] + Lifetime /\ StillKnown(n)
    BY <1>2 DEF Remembered
  <2>2. sent'[n] = sent[n] /\ sent[n].cmd.key \in Keys /\ handedAt[n] \in Nat
    BY <1>1, <2>1 DEF SentStep
  <2>3. StillKnown(n)'
    BY <1>2, <2>1, <2>2, KnownStep DEF StillKnown
  <2> QED
    BY <1>1, <1>2, <2>1, <2>2, <2>3
<1>3. CASE handed' = handed /\ handedAt' = handedAt
  BY <1>2, <1>3 DEF Remembered
<1>4. CASE /\ pc = "callback" /\ Hand
           /\ UNCHANGED <<disk, mem, sent, now, window>>
  <2>1. /\ Current.seq \in Seqs /\ Current = sent[Current.seq] /\ Current # NoLine
        /\ Current.cmd \in Commands
    BY <1>4, CurrentFacts DEF Lines, Handling, Handoff
  <2>2. \A n \in Seqs \ {Current.seq} : handed'[n] = handed[n] /\ handedAt'[n] = handedAt[n]
    BY <1>1, <1>4, <2>1 DEF Hand
  <2>3. handedAt'[Current.seq] = now
    BY <1>1, <1>4, <2>1 DEF Hand
  <2>4. disk.rec[Current.cmd.key] # Absent
    BY <1>4, AbsentFacts DEF Handoff, Marked
  <2>5. sent[Current.seq].until <= now + Lifetime
    BY <2>1 DEF Dated
  <2>6. ASSUME NEW n \in Seqs, handed'[n] # 0
        PROVE  /\ sent'[n] # NoLine /\ sent'[n].cmd \in Commands
               /\ handedAt'[n] <= now' /\ sent'[n].until <= handedAt'[n] + Lifetime
               /\ StillKnown(n)'
    <3>1. CASE n = Current.seq
      BY <1>1, <1>4, <2>1, <2>3, <2>4, <2>5, <3>1 DEF StillKnown
    <3>2. CASE n # Current.seq
      BY <1>2, <2>2, <2>6, <3>2
    <3> QED
      BY <3>1, <3>2
  <2> QED
    BY <2>6 DEF Remembered
<1> QED
  BY <1>3, <1>4 DEF HandStep

LEMMA OnceStep ==
    ASSUME Typed, Lines, Remembered, Handoff, SentStep, HandStep, HandedOnce, OncePerKey
    PROVE  HandedOnce' /\ OncePerKey'
<1>1. /\ now \in Nat /\ handedAt \in [Seqs -> Nat] /\ handed \in [Seqs -> 0..2]
  BY DEF Typed, TypeOK
<1>2. \A n \in Seqs : handed[n] # 0 => sent'[n] = sent[n]
  BY DEF Remembered, SentStep
<1>3. CASE handed' = handed /\ handedAt' = handedAt
  BY <1>2, <1>3 DEF HandedOnce, OncePerKey
<1>4. CASE /\ pc = "callback" /\ Hand
           /\ UNCHANGED <<disk, mem, sent, now, window>>
  <2>1. /\ Current.seq \in Seqs /\ Current = sent[Current.seq] /\ Free
    BY <1>4, CurrentFacts DEF Lines, Handling, Handoff
  <2>2. \A n \in Seqs \ {Current.seq} : handed'[n] = handed[n] /\ handedAt'[n] = handedAt[n]
    BY <1>1, <1>4, <2>1 DEF Hand
  <2>3. handedAt'[Current.seq] = now /\ handed'[Current.seq] = 1
    BY <1>1, <1>4, <2>1 DEF Hand, Free, MinOf
  <2>4. HandedOnce'
    BY <2>2, <2>3 DEF HandedOnce
  <2>5. ASSUME NEW m \in Seqs, m # Current.seq, handed'[m] # 0,
               sent'[m].cmd.key = sent'[Current.seq].cmd.key
        PROVE  handedAt'[Current.seq] >= handedAt'[m] + Retention
    BY <1>4, <2>1, <2>2, <2>3, <2>5 DEF Free
  <2>6. ASSUME NEW m \in Seqs, NEW n \in Seqs, m # n, handed'[m] # 0, handed'[n] # 0,
               sent'[m].cmd.key = sent'[n].cmd.key
        PROVE  \/ handedAt'[m] >= handedAt'[n] + Retention
               \/ handedAt'[n] >= handedAt'[m] + Retention
    <3>1. CASE m = Current.seq
      BY <2>5, <2>6, <3>1
    <3>2. CASE n = Current.seq
      BY <2>5, <2>6, <3>2
    <3>3. CASE m # Current.seq /\ n # Current.seq
      BY <1>4, <2>2, <2>6, <3>3 DEF OncePerKey
    <3> QED
      BY <3>1, <3>2, <3>3
  <2> QED
    BY <2>4, <2>6 DEF OncePerKey
<1> QED
  BY <1>3, <1>4 DEF HandStep

\* A command the registry does not know and that is in time was not handed over
\* while its key was kept.
LEMMA NewIsFree ==
    ASSUME Typed, Lines, Mirror, Remembered, HandleNew
    PROVE  Free /\ Current.cmd \in Commands /\ disk.rec[Current.cmd.key] = Absent
<1>1. /\ pc = "handle" /\ pc # "down" /\ window # <<>> /\ Unknown(PruneExpired(mem))
      /\ now <= Current.until
  BY DEF HandleNew, Lines, Handling
<1>2. /\ Current \in Line /\ Current.seq \in Seqs /\ Current = sent[Current.seq]
      /\ Current.cmd \in Commands /\ Current.cmd.key \in Keys /\ Current.until \in Nat
  BY <1>1, CurrentFacts DEF Unknown, Line
<1> DEFINE key == Current.cmd.key
<1>3. /\ disk.rec[key] = Absent
      /\ disk.tomb[key] = Absent \/ Expired(disk.tomb[key])
  BY <1>1, <1>2, CopyFacts DEF Unknown, Known, Copy
<1>4. now \in Nat /\ handedAt \in [Seqs -> Nat] /\ disk.tomb[key] \in Entry
  BY <1>2 DEF Typed, TypeOK, Registry
<1>5. ASSUME NEW m \in Seqs, handed[m] # 0, sent[m].cmd.key = key
      PROVE  now >= handedAt[m] + Retention
  <2>1. disk.tomb[key] # Absent => disk.tomb[key].at \in Nat
    BY <1>4, AbsentFacts
  <2> QED
    BY <1>3, <1>4, <1>5, <2>1 DEF Remembered, StillKnown, Expired
<1>6. handed[Current.seq] = 0
  <2> SUFFICES ASSUME handed[Current.seq] # 0 PROVE FALSE
    OBVIOUS
  <2>1. now >= handedAt[Current.seq] + Retention
    BY <1>2, <1>5
  <2>2. Current.until <= handedAt[Current.seq] + Lifetime
    BY <1>2 DEF Remembered
  <2> QED
    BY <1>1, <1>2, <1>4, <2>1, <2>2
<1> QED
  BY <1>2, <1>3, <1>5, <1>6 DEF Free

LEMMA HandoffStep ==
    ASSUME Typed, Lines, Mirror, Bounded, Remembered, Handoff, SentStep, HandStep, [Next]_vars
    PROVE  Handoff'
<1> USE DEF vars, writerVars, memoryVars, history, Abort
<1>1. CASE HandleNew
  <2>1. /\ pc' = "mark" /\ mem' = PruneExpired(mem)
        /\ UNCHANGED <<window, sent, handed, handedAt, now>>
    BY <1>1 DEF HandleNew
  <2>2. mem'.rec = disk.rec
    BY <1>1, <2>1, CopyFacts DEF HandleNew, Copy
  <2>3. Current' = Current
    BY <2>1 DEF Current
  <2>4. Free'
    BY <1>1, <2>1, <2>3, NewIsFree DEF Free
  <2> QED
    BY <1>1, <2>1, <2>2, <2>3, <2>4, NewIsFree DEF Handoff
<1>2. CASE MarkInDoubt
  <2>1. /\ pc = "mark" /\ pc' = "callback"
        /\ UNCHANGED <<window, sent, handed, handedAt, now>>
    BY <1>2 DEF MarkInDoubt
  <2>2. Current' = Current
    BY <2>1 DEF Current
  <2>3. Free'
    BY <2>1, <2>2 DEF Free, Handoff
  <2>4. Marked'
    BY <1>2, <2>2, MarkFacts DEF Marked
  <2> QED
    BY <2>1, <2>2, <2>3, <2>4 DEF Handoff
<1>3. CASE CallbackReturns
  <2>1. /\ pc = "callback" /\ pc' = "accept" /\ Hand
        /\ UNCHANGED <<disk, window, sent, now>>
    BY <1>3 DEF CallbackReturns
  <2>2. Current' = Current
    BY <2>1 DEF Current
  <2>3. Current.seq \in Seqs
    BY <2>1, CurrentFacts DEF Lines, Handling
  <2>4. handed'[Current.seq] # 0
    BY SMTT(30), <2>1, <2>3 DEF Hand, Typed, TypeOK, MinOf
  <2> QED
    BY <2>1, <2>2, <2>4 DEF Handoff, Marked
<1>4. CASE /\ pc' \in {"mark", "callback", "accept"} => pc' = pc
           /\ pc \in {"mark", "callback", "accept"} /\ pc' = pc =>
                UNCHANGED <<window, disk, mem, handed, handedAt>>
  <2> SUFFICES ASSUME pc' \in {"mark", "callback", "accept"} PROVE Handoff'
    BY DEF Handoff
  <2>1. pc' = pc /\ UNCHANGED <<window, disk, mem, handed, handedAt>>
    BY <1>4
  <2>2. Current' = Current
    BY <2>1 DEF Current
  <2>3. now' \in {now, now + 1} /\ now \in Nat /\ handedAt \in [Seqs -> Nat]
    BY FrameFacts DEF Typed, TypeOK
  <2>4. \A m \in Seqs : handed[m] # 0 => sent'[m] = sent[m]
    BY DEF Remembered, SentStep
  <2>5. Free => Free'
    BY <2>1, <2>2, <2>3, <2>4 DEF Free
  <2> QED
    BY <2>1, <2>2, <2>5 DEF Handoff, Marked
<1>5. CASE Writer \/ Tick \/ UNCHANGED vars
  <2>1. pc' = pc /\ UNCHANGED <<window, disk, mem, handed, handedAt>>
    BY <1>5 DEF Writer, AppendTrade, AppendPlain, AppendLine, ClearLog, Tick
  <2> QED
    BY <1>4, <2>1
<1>6. CASE Start \/ ProbeLog \/ ScanLog \/ HandlePlain \/ HandleKnown \/ HandleUndated
           \/ HandleStale \/ AllocationFails \/ MarkRefused
  <2>1. pc' \notin {"mark", "callback", "accept"}
    BY <1>6 DEF Start, ProbeLog, ScanLog, HandlePlain, HandleKnown, HandleUndated, HandleStale,
                AllocationFails, MarkRefused
  <2> QED
    BY <2>1 DEF Handoff
<1>7. CASE CallbackThrows \/ Accept \/ CommitProcessed \/ CommitCheckpoint \/ Faults
  <2>1. pc' \notin {"mark", "callback", "accept"}
    BY <1>7 DEF CallbackThrows, Accept, CommitProcessed, CommitCheckpoint, Faults, WriteFails,
                AcceptUnanswered, Crash, LoseCheckpoint
  <2> QED
    BY <2>1 DEF Handoff
<1> QED
  BY <1>1, <1>2, <1>3, <1>5, <1>6, <1>7 DEF Next, Bridge

\* What a step answers for the current line.
TrueResult(r) ==
    \/ r.op = 0
    \/ /\ r.op = Current.seq
       /\ r.status = "accepted" => handed[Current.seq] # 0
    \/ \E e \in Entry :
          /\ TrueEntry(Current.cmd.key, e) /\ e # Absent /\ e.payload = Current.cmd.payload
          /\ r.status = e.status /\ r.op = e.op

AnswerStep ==
    \/ answers' = answers
    \/ /\ pc \in Handling /\ sent' = sent
       /\ \E results \in SUBSET Answer :
             /\ answers' = [answers EXCEPT ![Current.seq] = @ \cup results]
             /\ \A r \in results : TrueResult(r)

LEMMA AnswerFacts ==
    ASSUME Typed, Lines, Mirror, Truth, Handoff, [Next]_vars
    PROVE  AnswerStep
<1> USE DEF vars, writerVars, memoryVars, history, Abort
<1>1. pc \in Handling => Current.seq \in Seqs /\ Current \in Line
  BY CurrentFacts DEF Lines
<1>2. /\ Seqs \subseteq 0..MaxSeq /\ 0 \in 0..MaxSeq
      /\ {"in_doubt", "accepted", "rejected"} \subseteq Statuses
  BY DEF Seqs, Statuses
<1>3. ASSUME pc \in Handling, sent' = sent, NEW st \in Statuses \cup {"plain", "conflict", "error"},
             NEW op \in 0..MaxSeq, Answered(Current, st, op),
             TrueResult([status |-> st, op |-> op])
      PROVE  AnswerStep
  <2>1. {[status |-> st, op |-> op]} \in SUBSET Answer
    BY DEF Answer
  <2> QED
    BY <1>3, <2>1 DEF AnswerStep, Answered
<1>4. \A st : TrueResult([status |-> st, op |-> 0])
  BY DEF TrueResult
<1>5. CASE HandlePlain
  <2>1. pc \in Handling /\ sent' = sent /\ Answered(Current, "plain", 0)
    BY <1>5 DEF HandlePlain, Handling
  <2> QED
    BY <1>2, <1>3, <1>4, <2>1
<1>6. CASE HandleUndated \/ AllocationFails \/ CallbackThrows
  <2>1. pc \in Handling /\ sent' = sent /\ Answered(Current, "error", 0)
    BY <1>6 DEF HandleUndated, AllocationFails, CallbackThrows, Handling
  <2> QED
    BY <1>2, <1>3, <1>4, <2>1
<1>7. CASE HandleKnown
  <2> DEFINE r == PruneExpired(mem)
             e == Known(r, Current.cmd.key)
  <2>1. pc \in Handling /\ pc # "down" /\ sent' = sent /\ Current.cmd # NoCommand
    BY <1>7 DEF HandleKnown, Handling
  <2>2. Current.cmd.key \in Keys /\ Current.cmd \in Commands
    BY <1>1, <2>1 DEF Line
  <2>3. Copy(r)
    BY <2>1, CopyFacts
  <2>4. e \in Entry /\ TrueEntry(Current.cmd.key, e)
    <3>1. e \in {disk.rec[Current.cmd.key], disk.tomb[Current.cmd.key], Absent}
      BY <2>2, <2>3 DEF Known, Copy
    <3>2. TrueEntry(Current.cmd.key, Absent) /\ Absent \in Entry
      BY AbsentFacts DEF TrueEntry
    <3>3. disk.rec[Current.cmd.key] \in Entry /\ disk.tomb[Current.cmd.key] \in Entry
      BY <2>2 DEF Typed, TypeOK, Registry
    <3> HIDE DEF e
    <3> QED
      BY <2>2, <3>1, <3>2, <3>3 DEF Truth
  <2> HIDE DEF r
  <2>5. \/ Answered(Current, "conflict", 0)
        \/ /\ e # Absent /\ e.payload = Current.cmd.payload
           /\ Answered(Current, e.status, e.op)
    BY <1>7 DEF HandleKnown, Matches, r
  <2> HIDE DEF e
  <2>6. CASE Answered(Current, "conflict", 0)
    BY <1>2, <1>3, <1>4, <2>1, <2>6
  <2>7. CASE /\ e # Absent /\ e.payload = Current.cmd.payload
             /\ Answered(Current, e.status, e.op)
    <3>1. e.status \in Statuses /\ e.op \in 0..MaxSeq
      BY <1>2, <2>4, <2>7, AbsentFacts
    <3>2. TrueResult([status |-> e.status, op |-> e.op])
      BY <2>4, <2>7 DEF TrueResult
    <3> QED
      BY <1>3, <2>1, <2>7, <3>1, <3>2
  <2> QED
    BY <2>5, <2>6, <2>7
<1>8. CASE HandleStale
  <2> DEFINE told == {[status |-> "rejected", op |-> Current.seq]}
             both == told \cup {[status |-> "error", op |-> 0]}
  <2>1. pc \in Handling /\ sent' = sent
        /\ \/ answers' = [answers EXCEPT ![Current.seq] = @ \cup told]
           \/ answers' = [answers EXCEPT ![Current.seq] = @ \cup both]
    BY <1>8 DEF HandleStale, Handling
  <2>2. /\ [status |-> "rejected", op |-> Current.seq] \in Answer
        /\ [status |-> "error", op |-> 0] \in Answer
    BY <1>1, <1>2, <2>1 DEF Answer
  <2>3. told \in SUBSET Answer /\ both \in SUBSET Answer
    BY <2>2
  <2>4. \A r \in both : TrueResult(r)
    BY <1>4 DEF TrueResult
  <2>5. \A r \in told : TrueResult(r)
    BY <2>4
  <2> HIDE DEF told, both
  <2> QED
    BY <2>1, <2>3, <2>4, <2>5 DEF AnswerStep
<1>9. CASE Accept
  <2>1. pc = "accept" /\ pc \in Handling /\ sent' = sent
        /\ Answered(Current, "accepted", Current.seq)
    BY <1>9 DEF Accept, Handling
  <2>2. TrueResult([status |-> "accepted", op |-> Current.seq])
    BY <2>1 DEF TrueResult, Handoff
  <2> QED
    BY <1>1, <1>2, <1>3, <2>1, <2>2
<1>10. CASE Writer \/ Start \/ ProbeLog \/ ScanLog \/ HandleNew \/ MarkInDoubt \/ MarkRefused
            \/ CallbackReturns \/ CommitProcessed \/ CommitCheckpoint
  BY <1>10 DEF AnswerStep, Writer, AppendTrade, AppendPlain, AppendLine, ClearLog, Start,
     ProbeLog, ScanLog, HandleNew, MarkInDoubt, MarkRefused, CallbackReturns, CommitProcessed,
     CommitCheckpoint
<1>11. CASE Faults \/ Tick \/ UNCHANGED vars
  BY <1>11 DEF AnswerStep, Faults, WriteFails, AcceptUnanswered, Crash, LoseCheckpoint, Tick
<1> QED
  BY <1>5, <1>6, <1>7, <1>8, <1>9, <1>10, <1>11 DEF Next, Bridge

LEMMA AnswersStep ==
    ASSUME Typed, Lines, TrueAnswers, AnswerStep, SentStep, HandStep
    PROVE  TrueAnswers'
<1>1. answers \in [Seqs -> SUBSET Answer] /\ \A r \in Answer : r.op # 0 => r.op \in Seqs
  BY DEF Typed, Answer, Seqs
<1>2. ASSUME NEW m \in Seqs, NEW r \in answers[m], r.op # 0
      PROVE  /\ sent'[m] # NoLine /\ sent'[r.op] # NoLine
             /\ sent'[r.op].cmd.key = sent'[m].cmd.key
             /\ sent'[r.op].cmd.payload = sent'[m].cmd.payload
             /\ r.status = "accepted" => handed'[r.op] # 0
  <2>1. r.op \in Seqs
    BY <1>1, <1>2
  <2> QED
    BY <1>2, <2>1, HandedGrows DEF TrueAnswers, SentStep
<1>3. CASE answers' = answers
  BY <1>2, <1>3 DEF TrueAnswers
<1>4. CASE /\ pc \in Handling /\ sent' = sent
           /\ \E results \in SUBSET Answer :
                 /\ answers' = [answers EXCEPT ![Current.seq] = @ \cup results]
                 /\ \A r \in results : TrueResult(r)
  <2>1. PICK results \in SUBSET Answer :
                 /\ answers' = [answers EXCEPT ![Current.seq] = @ \cup results]
                 /\ \A r \in results : TrueResult(r)
    BY <1>4
  <2>2. /\ Current.seq \in Seqs /\ sent'[Current.seq] = Current /\ Current # NoLine
    BY <1>4, CurrentFacts DEF Lines
  <2>3. ASSUME NEW r \in results, r.op # 0
        PROVE  /\ sent'[Current.seq] # NoLine /\ sent'[r.op] # NoLine
               /\ sent'[r.op].cmd.key = sent'[Current.seq].cmd.key
               /\ sent'[r.op].cmd.payload = sent'[Current.seq].cmd.payload
               /\ r.status = "accepted" => handed'[r.op] # 0
    <3>1. TrueResult(r) /\ r.op \in Seqs
      BY <1>1, <2>1, <2>3
    <3>2. handed[r.op] # 0 => handed'[r.op] # 0
      BY <3>1, HandedGrows
    <3> QED
      BY <1>4, <2>2, <2>3, <3>1, <3>2 DEF TrueResult, TrueEntry
  <2>4. \A m \in Seqs : \A r \in answers'[m] : r \in answers[m] \/ (m = Current.seq /\ r \in results)
    BY <1>1, <2>1, <2>2
  <2> QED
    BY <1>2, <2>3, <2>4 DEF TrueAnswers
<1> QED
  BY <1>3, <1>4 DEF AnswerStep
-----------------------------------------------------------------------------
(* The theorems. *)

LEMMA InitIInv == Init => IInv
<1> SUFFICES ASSUME Init PROVE IInv
  OBVIOUS
<1> USE DEF Init
<1>1. EmptyRegistry \in Registry
  BY EmptyFacts
<1>2. NoLine.until = 0 /\ NoLine.seq = 0 /\ \A n \in Seqs : n # 0
  BY DEF NoLine, Seqs
<1>3. Typed
  BY <1>1 DEF Typed, TypeOK, Answer
<1>4. Lines /\ Fresh /\ Dated
  BY <1>2, EmptyFacts DEF Lines, Fresh, Dated, Handling, Top
<1>5. Mirror /\ Truth /\ Remembered /\ Handoff
  BY DEF Mirror, Truth, TrueEntry, EmptyRegistry, Remembered, Handoff
<1>6. Present(EmptyRegistry.rec) = {}
  BY DEF Present, EmptyRegistry
<1>7. Bounded
  BY <1>6, FS_EmptySet DEF Bounded
<1>8. TrueAnswers /\ HandedOnce /\ OncePerKey
  BY DEF TrueAnswers, HandedOnce, OncePerKey
<1> QED
  BY <1>3, <1>4, <1>5, <1>7, <1>8 DEF IInv

LEMMA NextIInv == IInv /\ [Next]_vars => IInv'
<1> SUFFICES ASSUME IInv, [Next]_vars PROVE IInv'
  OBVIOUS
<1> USE DEF IInv
<1>1. DiskStep
  BY RegistryStep
<1>2. SentStep
  BY HistoryStep
<1>3. HandStep
  BY HandFacts
<1>4. AnswerStep
  BY AnswerFacts
<1>5. Typed' /\ Lines' /\ Fresh'
  BY <1>1, <1>2, TypedStep, LinesStep, FreshStep
<1>6. Dated' /\ Mirror' /\ Bounded'
  BY <1>1, <1>2 DEF SentStep, Dated, DiskStep, FewRecords, Bounded
<1>7. Truth' /\ Remembered' /\ Handoff'
  BY <1>1, <1>2, <1>3, TruthStep, RememberedStep, HandoffStep
<1>8. TrueAnswers' /\ HandedOnce' /\ OncePerKey'
  BY <1>2, <1>3, <1>4, AnswersStep, OnceStep
<1> QED
  BY <1>5, <1>6, <1>7, <1>8

\* The invariant of the bridge: lines, registry and answers agree in every state.
THEOREM Invariance == Spec => []IInv
BY InitIInv, NextIInv, PTL DEF Spec

\* The files, the memory and the place in process() keep their types.
THEOREM TypeCorrect == Spec => []TypeOK
<1>1. IInv => TypeOK
  BY DEF IInv, Typed
<1> QED
  BY <1>1, Invariance, PTL

\* Whatever crashes, fails or is lost, a line is handed over at most once
\* (dispatch of a trade command in MetaTraderFileBridge).
THEOREM AtMostOneHandoff == Spec => []HandedOnce
<1>1. IInv => HandedOnce
  BY DEF IInv
<1> QED
  BY <1>1, Invariance, PTL

\* Two lines with one key are handed over at least the retention apart.
THEOREM KeysAreKept == Spec => []OncePerKey
<1>1. IInv => OncePerKey
  BY DEF IInv
<1> QED
  BY <1>1, Invariance, PTL

\* An answer names an operation with the key and the payload of the command it
\* answers, and calls accepted only what was handed over.
THEOREM Truthful == Spec => []AnswersAreTrue
<1>1. IInv => AnswersAreTrue
  BY DEF IInv, TrueAnswers, AnswersAreTrue
<1> QED
  BY <1>1, Invariance, PTL

\* A record in doubt stays until its own acceptance replaces it, through every
\* write, eviction, restart and lost checkpoint.
THEOREM DoubtRemains == Spec => InDoubtIsKept
<1>1. IInv /\ [Next]_vars =>
        \A k \in Keys : disk.rec[k].status = "in_doubt" =>
          /\ disk'.rec[k].op = disk.rec[k].op
          /\ disk'.rec[k].status \in {"in_doubt", "accepted"}
  <2> SUFFICES ASSUME IInv, [Next]_vars, NEW k \in Keys, disk.rec[k].status = "in_doubt"
               PROVE  /\ disk'.rec[k].op = disk.rec[k].op
                      /\ disk'.rec[k].status \in {"in_doubt", "accepted"}
    OBVIOUS
  <2>1. Stays(disk', k) \/ Leaves(disk', k) \/ StoresCurrent(k)
    BY RegistryStep DEF IInv, DiskStep
  <2>2. disk.rec[k] # Absent
    BY AbsentFacts
  <2>3. CASE StoresCurrent(k)
    <3>1. /\ pc = "accept" /\ k = Current.cmd.key
          /\ disk'.rec[k] = NewEntry(Current, "accepted")
      BY <2>2, <2>3 DEF StoresCurrent, Stored
    <3> QED
      BY <3>1 DEF NewEntry, IInv, Handoff, Marked
  <2> QED
    BY <2>1, <2>3 DEF Stays, Leaves
<1> QED
  BY <1>1, Invariance, PTL DEF Spec, InDoubtIsKept
-----------------------------------------------------------------------------
(* No line is passed over.  As long as the writer does not clear the log   *)
(* between the two reads of one poll, the bridge's place in the log stays  *)
(* behind every line that it has not answered.                             *)

\* The numbers in the log go up.
Increasing == \A i, j \in DOMAIN log : i < j => log[i].seq < log[j].seq

\* A line without an answer is ahead of every mark, and the log still has it.
Unanswered ==
    \A n \in Seqs : sent[n] # NoLine /\ answers[n] = {} =>
        n > Passed /\ \E p \in DOMAIN log : log[p].seq = n

\* The cursor has only done lines behind it, unless the log was replaced: then
\* its first line is new.  A scan starts from a cursor of this log.
CursorBehind ==
    /\ log # <<>> /\ log[1].seq <= last =>
          cursor <= Len(log) /\ \A p \in 1..cursor : log[p].seq <= last
    /\ pc = "scan" /\ cursor # 0 => log # <<>> /\ log[1].seq <= last

\* The window is a piece of the log, everything before it is done, and its first
\* record is answered before a mark moves past it.
UnderWay ==
    pc \in Handling =>
        /\ \A i \in DOMAIN window :
              /\ window[i].next = window[1].next + (i - 1)
              /\ window[i].next \in DOMAIN log
              /\ log[window[i].next] = window[i].line
        /\ cursor < window[1].next
        /\ \A p \in DOMAIN log : p < window[1].next => log[p].seq <= last
        /\ Current.seq > checkpoint
        /\ pc = "checkpoint" => last = Current.seq
        /\ pc # "checkpoint" => last < Current.seq
        /\ pc \in {"commit", "checkpoint"} => answers[Current.seq] # {}

SameProcessed == pc # "down" => mem.processed = disk.processed

InOrder == Increasing /\ Unanswered /\ CursorBehind /\ UnderWay /\ SameProcessed

\* The largest of the three marks.
LEMMA MarksFacts ==
    ASSUME NEW a \in Nat, NEW b \in Nat, NEW c \in Nat
    PROVE  /\ MaxOf(a, MaxOf(b, c)) \in {a, b, c}
           /\ a <= MaxOf(a, MaxOf(b, c)) /\ b <= MaxOf(a, MaxOf(b, c))
           /\ c <= MaxOf(a, MaxOf(b, c))
BY DEF MaxOf

LEMMA PassedFacts ==
    ASSUME Typed
    PROVE  /\ Passed \in {last, checkpoint, disk.processed} /\ Passed \in Nat
           /\ last <= Passed /\ checkpoint <= Passed /\ disk.processed <= Passed
<1>1. last \in Nat /\ checkpoint \in Nat /\ disk.processed \in Nat
  BY DEF Typed, TypeOK, Registry
<1> QED
  BY <1>1, MarksFacts DEF Passed

\* Positions and numbers of the log.
LEMMA LogFacts ==
    ASSUME Typed
    PROVE  /\ Len(log) \in Nat /\ DOMAIN log = 1..Len(log)
           /\ \A p \in DOMAIN log : log[p].seq \in Seqs /\ log[p].seq \in Nat
           /\ log # <<>> => 1 \in DOMAIN log
<1>1. log \in Seq(Line)
  BY DEF Typed, TypeOK
<1>2. \A p \in DOMAIN log : log[p] \in Line
  BY <1>1
<1> QED
  BY <1>1, <1>2 DEF Line, Seqs

LEMMA HighestFacts ==
    ASSUME Typed, Increasing
    PROVE  \A p \in DOMAIN log : log[p].seq <= VisibleMax
<1> SUFFICES ASSUME NEW p \in DOMAIN log PROVE log[p].seq <= VisibleMax
  OBVIOUS
<1>1. /\ Len(log) \in DOMAIN log /\ p <= Len(log) /\ p \in Nat /\ Len(log) \in Nat
      /\ log[p].seq \in Nat /\ log[Len(log)].seq \in Nat /\ log # <<>>
  BY LogFacts
<1>2. VisibleMax = log[Len(log)].seq
  BY <1>1 DEF VisibleMax
<1>3. CASE p = Len(log)
  BY <1>1, <1>2, <1>3
<1>4. CASE p # Len(log)
  <2>1. log[p].seq < log[Len(log)].seq
    BY <1>1, <1>4 DEF Increasing
  <2> QED
    BY <1>1, <1>2, <2>1
<1> QED
  BY <1>3, <1>4

\* The record under way is a line of the log.
LEMMA PlaceFacts ==
    ASSUME Typed, Lines, UnderWay, pc \in Handling
    PROVE  /\ window[1].next \in DOMAIN log /\ window[1].next \in Nat
           /\ window[1] = Head(window)
           /\ log[window[1].next] = Current /\ Current.seq \in Seqs /\ Current.seq \in Nat
<1>1. window # <<>> /\ window \in Seq([line : Line, next : Nat])
  BY DEF Lines, Typed, TypeOK
<1>2. 1 \in DOMAIN window /\ Head(window) = window[1]
  BY <1>1
<1>3. Current = window[1].line
  BY <1>2 DEF Current
<1>4. Current.seq \in Seqs /\ Current.seq \in Nat
  BY <1>1, CurrentFacts DEF Seqs
<1>5. window[1].next \in DOMAIN log /\ log[window[1].next] = window[1].line
  BY <1>2 DEF UnderWay
<1> QED
  BY <1>2, <1>3, <1>4, <1>5, LogFacts

\* A log the reader is through with has no line under way and none unanswered.
LEMMA CaughtUpFacts ==
    ASSUME Typed, Lines, Increasing, Unanswered, UnderWay, CaughtUp
    PROVE  /\ pc \notin Handling
           /\ \A n \in Seqs : sent[n] # NoLine => answers[n] # {}
<1>1. /\ checkpoint >= VisibleMax /\ checkpoint \in Nat /\ VisibleMax \in Nat
      /\ \A p \in DOMAIN log : log[p].seq <= VisibleMax
  BY VisibleFacts, HighestFacts DEF CaughtUp, Typed, TypeOK
<1>2. ASSUME pc \in Handling PROVE FALSE
  <2>1. Current.seq <= VisibleMax /\ Current.seq \in Nat
    BY <1>1, <1>2, PlaceFacts
  <2>2. Current.seq > checkpoint
    BY <1>2 DEF UnderWay
  <2> QED
    BY <1>1, <2>1, <2>2
<1>3. ASSUME NEW n \in Seqs, sent[n] # NoLine, answers[n] = {} PROVE FALSE
  <2>1. n > Passed /\ \E p \in DOMAIN log : log[p].seq = n
    BY <1>3 DEF Unanswered
  <2> QED
    BY <1>1, <2>1, PassedFacts DEF Seqs
<1> QED
  BY <1>2, <1>3

\* In a piece of the log the numbers up to a bound come first, so that counting
\* them finds the first one beyond it.
LEMMA PrefixFacts ==
    ASSUME NEW f, NEW a \in Nat, NEW b \in Nat, NEW bound \in Nat,
           \A p \in a + 1..b : f[p].seq \in Nat,
           \A p, q \in a + 1..b : p < q => f[p].seq < f[q].seq
    PROVE  LET old == {p \in a + 1..b : f[p].seq <= bound} IN
           /\ Cardinality(old) \in Nat
           /\ \A p \in a + 1..b : f[p].seq <= bound <=> p <= a + Cardinality(old)
<1> DEFINE old == {p \in a + 1..b : f[p].seq <= bound}
<1>1. \A p \in Int : IsFiniteSet(a + 1..p) /\ (p >= a => Cardinality(a + 1..p) = p - a)
  <2> TAKE p \in Int
  <2>1. a + 1 \in Int
    OBVIOUS
  <2>2. IsFiniteSet(a + 1..p)
        /\ Cardinality(a + 1..p) = IF a + 1 > p THEN 0 ELSE p - (a + 1) + 1
    BY <2>1, FS_Interval
  <2> QED
    BY <2>2
<1>2. IsFiniteSet(old) /\ Cardinality(old) \in Nat
  <2>1. old \subseteq a + 1..b /\ IsFiniteSet(a + 1..b)
    BY <1>1
  <2> HIDE DEF old
  <2> QED
    BY <2>1, FS_Subset, FS_CardinalityType
<1>3. ASSUME NEW p \in a + 1..b, f[p].seq <= bound
      PROVE  p <= a + Cardinality(old)
  <2>1. a + 1..p \subseteq old
    <3> SUFFICES ASSUME NEW q \in a + 1..p PROVE q \in old
      OBVIOUS
    <3>1. q \in a + 1..b /\ (q = p \/ q < p)
      OBVIOUS
    <3>2. f[q].seq <= bound
      BY <1>3, <3>1
    <3> QED
      BY <3>1, <3>2
  <2>2. p \in Int /\ p >= a
    OBVIOUS
  <2>3. Cardinality(a + 1..p) = p - a
    BY <1>1, <2>2
  <2> HIDE DEF old
  <2>4. Cardinality(a + 1..p) <= Cardinality(old)
    BY <1>2, <2>1, FS_Subset
  <2> QED
    BY <1>2, <2>2, <2>3, <2>4
<1>4. ASSUME NEW p \in a + 1..b, ~(f[p].seq <= bound)
      PROVE  ~(p <= a + Cardinality(old))
  <2>1. old \subseteq a + 1..p - 1
    <3> SUFFICES ASSUME NEW q \in old PROVE q \in a + 1..p - 1
      OBVIOUS
    <3>1. q \in a + 1..b /\ f[q].seq <= bound
      OBVIOUS
    <3>2. ~(p < q) /\ p # q
      BY <1>4, <3>1
    <3> QED
      BY <3>1, <3>2
  <2>2. p - 1 \in Int /\ p - 1 >= a
    OBVIOUS
  <2>3. IsFiniteSet(a + 1..p - 1) /\ Cardinality(a + 1..p - 1) = p - 1 - a
    BY <1>1, <2>2
  <2> HIDE DEF old
  <2>4. Cardinality(old) <= Cardinality(a + 1..p - 1)
    BY <2>1, <2>3, FS_Subset
  <2> QED
    BY <1>2, <2>2, <2>3, <2>4
<1> QED
  BY <1>2, <1>3, <1>4

\* What a scan reads: the lines right behind the done ones.
ScanReads ==
    \/ /\ pc' = "idle" /\ window' = window
       /\ cursor' <= Len(log) /\ \A p \in 1..cursor' : log[p].seq <= last
    \/ /\ pc' = "handle" /\ cursor' = cursor /\ window' # <<>>
       /\ \E at \in Nat :
             /\ cursor <= at /\ at + 1 \in DOMAIN log /\ log[at + 1].seq > last
             /\ \A p \in DOMAIN log : p <= at => log[p].seq <= last
             /\ \A i \in DOMAIN window' :
                   /\ window'[i].next = at + i /\ at + i \in DOMAIN log
                   /\ window'[i].line = log[at + i]
             /\ 1 \in DOMAIN window'

LEMMA ScanOrder ==
    ASSUME Typed, Increasing, CursorBehind, ScanLog
    PROVE  ScanReads
<1> DEFINE from  == IF cursor > Len(log) THEN 0 ELSE cursor
           upto  == MinOf(Len(log), from + budget)
           old   == {p \in from + 1..upto : log[p].seq <= last}
           skip  == Cardinality(old)
           end   == MinOf(upto, from + skip + MaxReturned)
           n     == end - from - skip
           fresh == [i \in 1..n |->
                        [line |-> log[from + skip + i], next |-> from + skip + i]]
<1>1. /\ Len(log) \in Nat /\ cursor \in Nat /\ budget \in Nat /\ last \in Nat
      /\ DOMAIN log = 1..Len(log)
      /\ \A p \in DOMAIN log : log[p].seq \in Nat
  BY LogFacts DEF Typed, TypeOK
<1>2. cursor <= Len(log) /\ \A p \in 1..cursor : log[p].seq <= last
  <2>1. CASE cursor = 0
    BY <1>1, <2>1
  <2>2. CASE cursor # 0
    BY <2>2 DEF CursorBehind, ScanLog
  <2> QED
    BY <2>1, <2>2
<1>3. /\ from = cursor /\ upto \in Nat /\ cursor <= upto /\ upto <= Len(log)
      /\ budget = 0 => upto = cursor
  BY <1>1, <1>2 DEF MinOf
<1>4. \/ /\ fresh = <<>> /\ pc' = "idle" /\ cursor' = MaxOf(cursor, upto) /\ window' = window
      \/ /\ fresh # <<>> /\ pc' = "handle" /\ cursor' = cursor /\ window' = fresh
  BY DEF ScanLog
<1> HIDE DEF from, upto
<1>5. /\ skip \in Nat
      /\ \A p \in from + 1..upto : log[p].seq <= last <=> p <= from + skip
  <2>1. from + 1..upto \subseteq DOMAIN log
    BY <1>1, <1>3
  <2>2. \A p, q \in from + 1..upto : p < q => log[p].seq < log[q].seq
    BY <2>1 DEF Increasing
  <2>3. from \in Nat /\ upto \in Nat /\ \A p \in from + 1..upto : log[p].seq \in Nat
    BY <1>1, <1>3, <2>1
  <2> QED
    BY <1>1, <2>2, <2>3, PrefixFacts
<1> HIDE DEF old, skip
<1>6. end \in Nat /\ end <= upto /\ (end = upto \/ end = from + skip + MaxReturned)
  BY <1>1, <1>3, <1>5 DEF MinOf
<1> HIDE DEF end
<1>7. n \in Int
  BY <1>1, <1>3, <1>5, <1>6
<1>8. \A p \in DOMAIN log : p <= from + skip /\ p <= upto => log[p].seq <= last
  <2> SUFFICES ASSUME NEW p \in DOMAIN log, p <= from + skip, p <= upto
               PROVE  log[p].seq <= last
    OBVIOUS
  <2>1. p \in 1..cursor \/ p \in from + 1..upto
    BY <1>1, <1>3
  <2> QED
    BY <1>2, <1>5, <2>1
<1>9. CASE fresh = <<>>
  <2>1. ~(n >= 1)
    <3>1. ASSUME n >= 1 PROVE FALSE
      <4>1. 1 \in DOMAIN fresh
        BY <1>7, <3>1
      <4> HIDE DEF fresh
      <4> QED
        BY <1>9, <4>1
    <3> QED
      BY <3>1
  <2>2. upto <= from + skip
    BY <1>1, <1>3, <1>5, <1>6, <1>7, <2>1
  <2>3. pc' = "idle" /\ window' = window /\ cursor' = upto
    BY <1>1, <1>3, <1>4, <1>9 DEF MaxOf
  <2>4. \A p \in 1..upto : log[p].seq <= last
    BY <1>1, <1>3, <1>5, <1>8, <2>2
  <2> QED
    BY <1>3, <2>3, <2>4 DEF ScanReads
<1>10. CASE fresh # <<>>
  <2>1. n >= 1
    <3>1. ASSUME ~(n >= 1) PROVE FALSE
      <4>1. 1..n = {}
        BY <1>7, <3>1
      <4>2. fresh = <<>>
        BY <4>1
      <4> QED
        BY <1>10, <4>2
    <3> QED
      BY <3>1
  <2> DEFINE at == from + skip
  <2>2. /\ at \in Nat /\ cursor <= at /\ at + 1 \in from + 1..upto /\ at + 1 \in DOMAIN log
        /\ at <= upto
    BY <1>1, <1>3, <1>5, <1>6, <2>1
  <2>3. log[at + 1].seq > last
    <3>1. ~(log[at + 1].seq <= last)
      BY <1>1, <1>3, <1>5, <2>2
    <3> QED
      BY <1>1, <2>2, <3>1
  <2>4. \A p \in DOMAIN log : p <= at => log[p].seq <= last
    BY <1>1, <1>8, <2>2, <1>3
  <2>5. \A i \in 1..n : at + i \in DOMAIN log
    BY <1>1, <1>3, <1>5, <1>6, <1>7
  <2>6. window' = fresh /\ pc' = "handle" /\ cursor' = cursor
    BY <1>4, <1>10
  <2>7. DOMAIN window' = 1..n /\ 1 \in DOMAIN window'
    BY <1>7, <2>1, <2>6
  <2>8. \A i \in DOMAIN window' : /\ window'[i].next = at + i /\ at + i \in DOMAIN log
                                  /\ window'[i].line = log[at + i]
    BY <2>5, <2>6, <2>7
  <2> HIDE DEF at, fresh
  <2> QED
    BY <1>10, <2>2, <2>3, <2>4, <2>6, <2>7, <2>8 DEF ScanReads
<1> QED
  BY <1>9, <1>10

\* The writer appends, or clears what is done.
LEMMA WriterOrder ==
    ASSUME IInv, InOrder, ~ClearDuringPoll, Writer
    PROVE  InOrder'
<1> USE DEF vars, writerVars, memoryVars, history
<1>1. /\ Typed /\ Lines /\ Fresh
      /\ Increasing /\ Unanswered /\ CursorBehind /\ UnderWay /\ SameProcessed
  BY DEF IInv, InOrder
<1>2. /\ log \in Seq(Line) /\ sent \in [Seqs -> Line \cup {NoLine}]
      /\ last \in Nat /\ checkpoint \in Nat /\ disk.processed \in Nat /\ cursor \in Nat
  BY <1>1 DEF Typed, TypeOK, Registry
<1>3. /\ Top \in Nat /\ last <= Top /\ checkpoint <= Top /\ disk.processed <= Top
      /\ VisibleMax \in Nat /\ (log # <<>> => Top = VisibleMax)
  BY <1>1, VisibleFacts DEF Fresh, Top
<1>4. Passed <= Top /\ Passed \in Nat
  BY <1>1, <1>3, PassedFacts
<1>5. ASSUME CaughtUp, MayTouchLog
      PROVE  /\ pc \notin Handling /\ pc # "scan"
             /\ \A n \in Seqs : sent[n] # NoLine => answers[n] # {}
  BY <1>1, <1>5, CaughtUpFacts DEF MayTouchLog
<1>6. CASE AppendTrade \/ AppendPlain
  <2>1. PICK line \in Line : NewLine(line)
    BY <1>1, <1>6, AppendFacts
  <2>2. UNCHANGED <<checkpoint, disk, pc, memoryVars, budget, window, now, faults, history>>
    BY <1>1, <1>6, AppendFacts
  <2>3. /\ line.seq \in Seqs /\ line.seq \in Nat /\ line.seq > Top
        /\ sent' = [sent EXCEPT ![line.seq] = line]
        /\ log' = Append(log, line) \/ (log' = <<line>> /\ CaughtUp /\ MayTouchLog)
    BY <2>1 DEF NewLine, Line, Seqs
  <2>4. SameProcessed' /\ Passed' = Passed
    BY <1>1, <2>2 DEF SameProcessed, Passed
  <2>5. \A n \in Seqs : n # line.seq => sent'[n] = sent[n]
    BY <1>2, <2>3
  <2>6. line.seq > Passed
    BY <1>3, <1>4, <2>3
  <2>7. CASE log' = Append(log, line)
    <3>1. /\ Len(log) \in Nat /\ Len(log') = Len(log) + 1 /\ DOMAIN log = 1..Len(log)
          /\ DOMAIN log' = 1..Len(log) + 1
          /\ log'[Len(log) + 1] = line /\ \A p \in DOMAIN log : log'[p] = log[p]
      <4> DEFINE S == Line
      <4> HIDE DEF S
      <4>1. log \in Seq(S) /\ line \in S
        BY <1>2 DEF S
      <4> QED
        BY <2>7, <4>1, AppendProperties
    <3>2. \A p \in DOMAIN log : log[p].seq < line.seq /\ log[p].seq \in Nat
      <4> TAKE p \in DOMAIN log
      <4>1. log[p].seq <= VisibleMax /\ log[p].seq \in Nat /\ log # <<>>
        BY <1>1, <3>1, HighestFacts, LogFacts
      <4> QED
        BY <1>3, <2>3, <4>1
    <3>3. Increasing'
      <4> SUFFICES ASSUME NEW i \in DOMAIN log', NEW j \in DOMAIN log', i < j
                   PROVE  log'[i].seq < log'[j].seq
        BY DEF Increasing
      <4>1. i \in DOMAIN log /\ (j \in DOMAIN log \/ j = Len(log) + 1)
        BY <3>1
      <4> QED
        BY <1>1, <3>1, <3>2, <4>1 DEF Increasing
    <3>4. Unanswered'
      <4> SUFFICES ASSUME NEW n \in Seqs, sent'[n] # NoLine, answers'[n] = {}
                   PROVE  n > Passed' /\ \E p \in DOMAIN log' : log'[p].seq = n
        BY DEF Unanswered
      <4>1. CASE n = line.seq
        BY <2>4, <2>6, <3>1, <4>1
      <4>2. CASE n # line.seq
        <5>1. n > Passed /\ \E p \in DOMAIN log : log[p].seq = n
          BY <1>1, <2>2, <2>5, <4>2 DEF Unanswered
        <5> QED
          BY <2>4, <3>1, <5>1
      <4> QED
        BY <4>1, <4>2
    <3>5. CursorBehind'
      <4>1. CASE log = <<>>
        <5>1. log'[1] = line /\ ~(line.seq <= last)
          BY <1>2, <1>3, <2>3, <3>1, <4>1
        <5>2. ~(pc = "scan" /\ cursor # 0)
          BY <1>1, <4>1 DEF CursorBehind
        <5> QED
          BY <2>2, <5>1, <5>2 DEF CursorBehind
      <4>2. CASE log # <<>>
        <5>1. 1 \in DOMAIN log /\ log'[1] = log[1] /\ log' # <<>>
          BY <1>1, <3>1, <4>2, LogFacts
        <5>2. ASSUME log[1].seq <= last
              PROVE  cursor <= Len(log') /\ \A p \in 1..cursor : log'[p].seq <= last
          <6>1. cursor <= Len(log) /\ \A p \in 1..cursor : log[p].seq <= last
            BY <1>1, <4>2, <5>2 DEF CursorBehind
          <6>2. \A p \in 1..cursor : p \in DOMAIN log
            BY <1>2, <3>1, <6>1
          <6> QED
            BY <1>2, <3>1, <6>1, <6>2
        <5> QED
          BY <1>1, <2>2, <4>2, <5>1, <5>2 DEF CursorBehind
      <4> QED
        BY <4>1, <4>2
    <3>6. UnderWay'
      <4> SUFFICES ASSUME pc \in Handling PROVE UnderWay'
        BY <2>2 DEF UnderWay
      <4>1. /\ window[1].next \in DOMAIN log /\ window[1].next \in Nat
        BY <1>1, PlaceFacts
      <4>2. \A i \in DOMAIN window :
              /\ window[i].next = window[1].next + (i - 1)
              /\ window[i].next \in DOMAIN log'
              /\ log'[window[i].next] = window[i].line
        BY <1>1, <3>1 DEF UnderWay
      <4>3. \A p \in DOMAIN log' : p < window[1].next => log'[p].seq <= last
        <5> SUFFICES ASSUME NEW p \in DOMAIN log', p < window[1].next
                     PROVE  log'[p].seq <= last
          OBVIOUS
        <5>1. p \in DOMAIN log
          BY <3>1, <4>1
        <5> QED
          BY <1>1, <3>1, <5>1 DEF UnderWay
      <4>4. Current' = Current
        BY <2>2 DEF Current
      <4>5. /\ cursor < window[1].next /\ Current.seq > checkpoint
            /\ pc = "checkpoint" => last = Current.seq
            /\ pc # "checkpoint" => last < Current.seq
            /\ pc \in {"commit", "checkpoint"} => answers[Current.seq] # {}
        BY <1>1 DEF UnderWay
      <4> QED
        BY <2>2, <4>2, <4>3, <4>4, <4>5 DEF UnderWay
    <3> QED
      BY <2>4, <3>3, <3>4, <3>5, <3>6 DEF InOrder
  <2>8. CASE log' = <<line>> /\ CaughtUp /\ MayTouchLog
    <3>1. DOMAIN log' = {1} /\ log'[1] = line /\ Len(log') = 1
      BY <2>8
    <3>2. Increasing'
      BY <3>1 DEF Increasing
    <3>3. Unanswered'
      <4> SUFFICES ASSUME NEW n \in Seqs, sent'[n] # NoLine, answers'[n] = {}
                   PROVE  n > Passed' /\ \E p \in DOMAIN log' : log'[p].seq = n
        BY DEF Unanswered
      <4>1. n = line.seq
        BY <1>5, <2>2, <2>5, <2>8
      <4> QED
        BY <2>4, <2>6, <3>1, <4>1
    <3>4. pc' \notin Handling /\ pc' # "scan"
      BY <1>5, <2>2, <2>8
    <3>5. CursorBehind'
      <4>1. ~(line.seq <= last)
        BY <1>2, <1>3, <2>3
      <4> QED
        BY <2>2, <3>1, <3>4, <4>1 DEF CursorBehind
    <3> QED
      BY <2>4, <3>2, <3>3, <3>4, <3>5 DEF InOrder, UnderWay
  <2> QED
    BY <2>3, <2>7, <2>8
<1>7. CASE ClearLog
  <2>1. /\ CaughtUp /\ MayTouchLog /\ log' = <<>>
        /\ UNCHANGED <<checkpoint, disk, pc, mem, last, cursor, window, sent, answers>>
    BY <1>7 DEF ClearLog
  <2>2. DOMAIN log' = {}
    BY <2>1
  <2> QED
    BY <1>1, <1>5, <2>1, <2>2
    DEF InOrder, Increasing, Unanswered, CursorBehind, UnderWay, SameProcessed
<1> QED
  BY <1>6, <1>7 DEF Writer

\* The bridge starts or reads.
LEMMA ReadOrder ==
    ASSUME IInv, InOrder, Start \/ ProbeLog \/ ScanLog
    PROVE  InOrder'
<1> USE DEF vars, writerVars, memoryVars, history
<1>1. /\ Typed /\ Lines /\ Fresh
      /\ Increasing /\ Unanswered /\ CursorBehind /\ UnderWay /\ SameProcessed
  BY DEF IInv, InOrder
<1>2. /\ last \in Nat /\ checkpoint \in Nat /\ disk.processed \in Nat /\ cursor \in Nat
      /\ Len(log) \in Nat /\ DOMAIN log = 1..Len(log)
      /\ \A p \in DOMAIN log : log[p].seq \in Nat
      /\ log # <<>> => 1 \in DOMAIN log
  BY <1>1, LogFacts DEF Typed, TypeOK, Registry
<1>3. UNCHANGED <<log, sent, answers, checkpoint, disk>>
  BY DEF Start, ProbeLog, ScanLog
<1>4. Increasing'
  BY <1>1, <1>3 DEF Increasing
<1>5. ASSUME Passed' <= Passed, Passed' \in Nat PROVE Unanswered'
  <2> SUFFICES ASSUME NEW n \in Seqs, sent'[n] # NoLine, answers'[n] = {}
               PROVE  n > Passed' /\ \E p \in DOMAIN log' : log'[p].seq = n
    BY DEF Unanswered
  <2>1. n > Passed /\ \E p \in DOMAIN log : log[p].seq = n
    BY <1>1, <1>3 DEF Unanswered
  <2> QED
    BY <1>1, <1>3, <1>5, <2>1, PassedFacts DEF Seqs
<1>6. CASE Start
  <2>1. /\ last' = MaxOf(checkpoint, disk.processed) /\ cursor' = 0 /\ pc' = "idle"
        /\ mem' = disk
    BY <1>6 DEF Start
  <2>2. Passed' <= Passed /\ Passed' \in Nat
    <3>1. last' \in {checkpoint, disk.processed}
      BY <2>1 DEF MaxOf
    <3>2. Passed' \in {checkpoint, disk.processed}
      BY <1>2, <1>3, <3>1, MarksFacts DEF Passed
    <3> QED
      BY <1>1, <1>2, <3>2, PassedFacts
  <2> QED
    BY <1>2, <1>3, <1>4, <1>5, <2>1, <2>2
    DEF InOrder, CursorBehind, UnderWay, SameProcessed, Handling
<1>7. CASE ProbeLog
  <2> DEFINE head    == IF log = <<>> THEN 0 ELSE log[1].seq
             shrunk  == cursor > Len(log)
             known   == IF shrunk THEN 0 ELSE first
             probed  == ~shrunk /\ cursor # 0 /\ head # 0
             reset   == probed /\ ((known # 0 /\ head # known) \/ head > last)
  <2>1. /\ cursor' = IF shrunk \/ reset THEN 0 ELSE cursor
        /\ pc' = "scan" /\ pc = "idle" /\ UNCHANGED <<mem, last>>
    BY <1>7 DEF ProbeLog
  <2>2. Passed' = Passed
    BY <1>3, <2>1 DEF Passed
  <2>3. cursor' # 0 => log # <<>> /\ log[1].seq <= last /\ cursor' = cursor
    <3> SUFFICES ASSUME cursor' # 0 PROVE log # <<>> /\ log[1].seq <= last /\ cursor' = cursor
      OBVIOUS
    <3>1. ~shrunk /\ ~reset /\ cursor' = cursor
      BY <2>1
    <3>2. log # <<>>
      <4>1. log = <<>> => Len(log) = 0
        OBVIOUS
      <4> QED
        BY <1>2, <3>1, <4>1
    <3>3. head = log[1].seq /\ log[1].seq \in Seqs
      BY <1>1, <1>2, <3>2, LogFacts
    <3>4. head # 0
      BY <3>3 DEF Seqs
    <3> QED
      BY <1>2, <3>1, <3>2, <3>3, <3>4
  <2>4. CursorBehind'
    <3>1. CASE cursor' = 0
      BY <1>2, <1>3, <3>1 DEF CursorBehind
    <3>2. CASE cursor' # 0
      BY <1>1, <1>3, <2>1, <2>3, <3>2 DEF CursorBehind
    <3> QED
      BY <3>1, <3>2
  <2> QED
    BY <1>1, <1>3, <1>4, <1>5, <2>1, <2>2, <2>4, PassedFacts
    DEF InOrder, UnderWay, SameProcessed, Handling
<1>8. CASE ScanLog
  <2>1. UNCHANGED <<mem, last>> /\ pc = "scan"
    BY <1>8 DEF ScanLog
  <2>2. Passed' = Passed
    BY <1>3, <2>1 DEF Passed
  <2>3. ScanReads
    BY <1>1, <1>8, ScanOrder
  <2>4. Unanswered' /\ SameProcessed'
    BY <1>1, <1>3, <1>5, <2>1, <2>2, PassedFacts DEF SameProcessed
  <2>5. CASE /\ pc' = "idle"
             /\ cursor' <= Len(log) /\ \A p \in 1..cursor' : log[p].seq <= last
    BY <1>3, <1>4, <2>1, <2>4, <2>5 DEF InOrder, CursorBehind, UnderWay, Handling
  <2>6. CASE pc' = "handle" /\ cursor' = cursor /\ window' # <<>>
    <3>1. PICK at \in Nat :
             /\ cursor <= at /\ at + 1 \in DOMAIN log /\ log[at + 1].seq > last
             /\ \A p \in DOMAIN log : p <= at => log[p].seq <= last
             /\ \A i \in DOMAIN window' :
                   /\ window'[i].next = at + i /\ at + i \in DOMAIN log
                   /\ window'[i].line = log[at + i]
             /\ 1 \in DOMAIN window'
      BY <2>3, <2>6 DEF ScanReads
    <3>2. Typed'
      BY <1>8, NextIInv DEF IInv, Next, Bridge
    <3>3. Current' = log[at + 1] /\ window'[1].next = at + 1
      <4>1. window' \in Seq([line : Line, next : Nat])
        BY <3>2 DEF Typed, TypeOK
      <4>2. Head(window') = window'[1]
        BY <2>6, <4>1
      <4> QED
        BY <3>1, <4>2 DEF Current
    <3>4. /\ log[at + 1].seq \in Nat /\ checkpoint <= last
      BY <1>1, <1>2, <2>1, <3>1 DEF Fresh
    <3>5. CursorBehind'
      BY <1>1, <1>3, <2>1, <2>6 DEF CursorBehind
    <3>6. UnderWay'
      <4>1. \A i \in DOMAIN window' :
              /\ window'[i].next = window'[1].next + (i - 1)
              /\ window'[i].next \in DOMAIN log
              /\ log[window'[i].next] = window'[i].line
        <5> TAKE i \in DOMAIN window'
        <5>1. i \in Nat
          <6>1. window' \in Seq([line : Line, next : Nat])
            BY <3>2 DEF Typed, TypeOK
          <6> QED
            BY <6>1
        <5> QED
          BY <3>1, <3>3, <5>1
      <4>2. \A p \in DOMAIN log : p < at + 1 => log[p].seq <= last
        BY <1>2, <3>1
      <4>3. cursor < at + 1
        BY <1>2, <3>1
      <4>4. log[at + 1].seq > checkpoint /\ last < log[at + 1].seq
        BY <1>2, <3>1, <3>4
      <4> QED
        BY <1>3, <2>1, <2>6, <3>3, <4>1, <4>2, <4>3, <4>4 DEF UnderWay
    <3> QED
      BY <1>4, <2>4, <3>5, <3>6 DEF InOrder
  <2> QED
    BY <2>3, <2>5, <2>6 DEF ScanReads
<1> QED
  BY <1>6, <1>7, <1>8

LEMMA UnansweredKept ==
    ASSUME Typed, Unanswered, UNCHANGED <<log, sent>>,
           \A n \in Seqs : answers[n] # {} => answers'[n] # {},
           Passed' \in Nat, Passed' <= Passed
    PROVE  Unanswered'
<1> SUFFICES ASSUME NEW n \in Seqs, sent'[n] # NoLine, answers'[n] = {}
             PROVE  n > Passed' /\ \E p \in DOMAIN log' : log'[p].seq = n
  BY DEF Unanswered
<1>1. n > Passed /\ \E p \in DOMAIN log : log[p].seq = n
  BY DEF Unanswered
<1> QED
  BY <1>1, PassedFacts DEF Seqs

\* A step that leaves the log and the marks alone, and answers the record under
\* way before it is to be committed.
LEMMA RecordOrder ==
    ASSUME IInv, InOrder, UNCHANGED <<log, sent, last, cursor>>,
           checkpoint' \in {0, checkpoint}, disk'.processed = disk.processed,
           \A n \in Seqs : answers[n] # {} => answers'[n] # {},
           pc' # "down" => mem'.processed = disk.processed,
           pc' = "scan" => pc = "scan",
           pc' \in Handling =>
              /\ pc \in Handling /\ window' = window /\ checkpoint' = checkpoint
              /\ pc' = "checkpoint" <=> pc = "checkpoint"
              /\ pc' = "commit" => answers'[Current.seq] # {}
    PROVE  InOrder'
<1>1. /\ Typed /\ Lines
      /\ Increasing /\ Unanswered /\ CursorBehind /\ UnderWay /\ SameProcessed
  BY DEF IInv, InOrder
<1>2. last \in Nat /\ checkpoint \in Nat /\ disk.processed \in Nat
  BY <1>1 DEF Typed, TypeOK, Registry
<1>3. Passed' \in Nat /\ Passed' <= Passed
  BY <1>2 DEF Passed, MaxOf
<1>4. Unanswered'
  BY <1>1, <1>3, UnansweredKept
<1>5. Increasing' /\ CursorBehind' /\ SameProcessed'
  BY <1>1 DEF Increasing, CursorBehind, SameProcessed
<1>6. ASSUME pc' \in Handling PROVE UnderWay'
  <2>1. Current' = Current /\ Current.seq \in Seqs
    BY <1>1, <1>6, PlaceFacts DEF Current
  <2>2. pc' \in {"commit", "checkpoint"} => answers'[Current.seq] # {}
    BY <1>1, <1>6, <2>1 DEF UnderWay
  <2> QED
    BY <1>1, <1>6, <2>1, <2>2 DEF UnderWay
<1>7. UnderWay'
  BY <1>6 DEF UnderWay
<1> QED
  BY <1>4, <1>5, <1>7 DEF InOrder

\* Once the record under way is answered, what is not lies behind it.
LEMMA AnsweredUpTo ==
    ASSUME Typed, Lines, Increasing, Unanswered, UnderWay, pc \in Handling,
           answers[Current.seq] # {}
    PROVE  \A n \in Seqs : sent[n] # NoLine /\ answers[n] = {} => n > Current.seq
<1> SUFFICES ASSUME NEW n \in Seqs, sent[n] # NoLine, answers[n] = {} PROVE n > Current.seq
  OBVIOUS
<1> DEFINE at == window[1].next
<1>1. /\ at \in DOMAIN log /\ log[at] = Current /\ Current.seq \in Nat /\ last \in Nat
  BY PlaceFacts DEF Typed, TypeOK
<1>2. n > Passed
  BY DEF Unanswered
<1>3. PICK p \in DOMAIN log : log[p].seq = n
  BY DEF Unanswered
<1>4. p \in Nat /\ at \in Nat /\ n \in Nat
  BY <1>1, LogFacts DEF Seqs
<1>5. CASE p < at
  <2>1. log[p].seq <= last
    BY <1>5 DEF UnderWay
  <2> QED
    BY <1>1, <1>2, <1>3, <1>4, <2>1, PassedFacts
<1>6. CASE p = at
  BY <1>1, <1>3, <1>6
<1>7. CASE at < p
  BY <1>1, <1>3, <1>7 DEF Increasing
<1> QED
  BY <1>4, <1>5, <1>6, <1>7

\* The sequence in memory moves past the record under way.
LEMMA MarkMoves ==
    ASSUME IInv, InOrder, pc = "commit", last' = MaxOf(last, Current.seq),
           UNCHANGED <<log, sent, checkpoint, cursor, answers>>,
           disk'.processed \in {disk.processed, Current.seq},
           mem'.processed = disk'.processed,
           \/ pc' = "idle"
           \/ pc' = "checkpoint" /\ window' = window
    PROVE  InOrder'
<1>1. /\ Typed /\ Lines
      /\ Increasing /\ Unanswered /\ CursorBehind /\ UnderWay
      /\ pc \in Handling
  BY DEF IInv, InOrder, Handling
<1> DEFINE at == window[1].next
<1>2. /\ at \in DOMAIN log /\ at \in Nat /\ log[at] = Current /\ Current.seq \in Seqs
      /\ Current.seq \in Nat
  BY <1>1, PlaceFacts
<1>3. /\ last \in Nat /\ checkpoint \in Nat /\ disk.processed \in Nat /\ cursor \in Nat
      /\ Len(log) \in Nat /\ DOMAIN log = 1..Len(log)
      /\ \A p \in DOMAIN log : log[p].seq \in Nat
  BY <1>1, LogFacts DEF Typed, TypeOK, Registry
<1>4. /\ cursor < at /\ last < Current.seq /\ Current.seq > checkpoint
      /\ \A p \in DOMAIN log : p < at => log[p].seq <= last
      /\ answers[Current.seq] # {}
  BY <1>1 DEF UnderWay
<1>5. last' = Current.seq
  BY <1>2, <1>3, <1>4 DEF MaxOf
<1>6. Passed' \in {Current.seq, checkpoint, disk.processed}
  <2>1. disk'.processed \in Nat
    BY <1>2, <1>3
  <2> QED
    BY <1>2, <1>3, <1>5, <2>1, MarksFacts DEF Passed
<1>7. Unanswered'
  <2> SUFFICES ASSUME NEW n \in Seqs, sent'[n] # NoLine, answers'[n] = {}
               PROVE  n > Passed' /\ \E p \in DOMAIN log' : log'[p].seq = n
    BY DEF Unanswered
  <2>1. n > Current.seq
    BY <1>1, <1>4, AnsweredUpTo
  <2>2. n > Passed /\ \E p \in DOMAIN log : log[p].seq = n
    BY <1>1 DEF Unanswered
  <2>3. n > checkpoint /\ n > disk.processed
    BY <1>1, <1>3, <2>2, PassedFacts DEF Seqs
  <2> QED
    BY <1>6, <2>1, <2>2, <2>3
<1>8. CursorBehind'
  <2>1. cursor <= Len(log) /\ \A p \in 1..cursor : p \in DOMAIN log /\ p < at
    BY <1>2, <1>3, <1>4
  <2>2. \A p \in 1..cursor : log[p].seq <= Current.seq
    BY <1>2, <1>3, <1>4, <2>1
  <2>3. pc' # "scan"
    OBVIOUS
  <2> QED
    BY <1>5, <2>1, <2>2, <2>3 DEF CursorBehind
<1>9. UnderWay'
  <2>1. CASE pc' = "idle"
    BY <2>1 DEF UnderWay, Handling
  <2>2. CASE pc' = "checkpoint" /\ window' = window
    <3>1. Current' = Current
      BY <2>2 DEF Current
    <3>2. \A p \in DOMAIN log : p < at => log[p].seq <= Current.seq
      BY <1>2, <1>3, <1>4
    <3> QED
      BY <1>1, <1>4, <1>5, <2>2, <3>1, <3>2 DEF UnderWay
  <2> QED
    BY <2>1, <2>2
<1>10. Increasing' /\ SameProcessed'
  BY <1>1 DEF Increasing, SameProcessed
<1> QED
  BY <1>7, <1>8, <1>9, <1>10 DEF InOrder

\* The checkpoint and the cursor move past it too, and the next record is up.
LEMMA CheckpointMoves ==
    ASSUME IInv, InOrder, CommitCheckpoint
    PROVE  InOrder'
<1> USE DEF vars, writerVars, memoryVars, history
<1>1. /\ Typed /\ Lines
      /\ Increasing /\ Unanswered /\ CursorBehind /\ UnderWay /\ SameProcessed
      /\ pc = "checkpoint" /\ pc \in Handling
  BY DEF IInv, InOrder, Handling, CommitCheckpoint
<1> DEFINE at == window[1].next
<1>2. /\ at \in DOMAIN log /\ at \in Nat /\ log[at] = Current /\ Current.seq \in Seqs
      /\ Current.seq \in Nat /\ Head(window) = window[1]
  BY <1>1, PlaceFacts
<1>3. /\ last \in Nat /\ checkpoint \in Nat /\ disk.processed \in Nat /\ cursor \in Nat
      /\ Len(log) \in Nat /\ DOMAIN log = 1..Len(log)
      /\ \A p \in DOMAIN log : log[p].seq \in Nat
  BY <1>1, LogFacts DEF Typed, TypeOK, Registry
<1>4. /\ cursor < at /\ last = Current.seq
      /\ \A p \in DOMAIN log : p < at => log[p].seq <= last
  BY <1>1 DEF UnderWay
<1>5. /\ checkpoint' = last /\ cursor' = MaxOf(cursor, at) /\ window' = Tail(window)
      /\ pc' = IF Tail(window) = <<>> THEN "idle" ELSE "handle"
      /\ UNCHANGED <<log, sent, disk, mem, last, answers>>
  BY <1>2 DEF CommitCheckpoint
<1>6. cursor' = at
  BY <1>2, <1>3, <1>4, <1>5 DEF MaxOf
<1>7. Passed' \in Nat /\ Passed' <= Passed
  BY <1>1, <1>3, <1>5 DEF Passed, MaxOf
<1>8. Increasing' /\ Unanswered' /\ SameProcessed'
  <2>1. Unanswered'
    BY <1>1, <1>5, <1>7, UnansweredKept
  <2> QED
    BY <1>1, <1>5, <2>1 DEF Increasing, SameProcessed
<1>9. \A p \in DOMAIN log : p < at + 1 => log[p].seq <= last
  <2> SUFFICES ASSUME NEW p \in DOMAIN log, p < at + 1 PROVE log[p].seq <= last
    OBVIOUS
  <2>1. p < at \/ p = at
    BY <1>2, <1>3
  <2> QED
    BY <1>2, <1>3, <1>4, <2>1
<1>10. CursorBehind'
  <2>1. at <= Len(log) /\ \A p \in 1..at : log[p].seq <= last
    BY <1>2, <1>3, <1>9
  <2>2. pc' # "scan"
    BY <1>5
  <2> QED
    BY <1>5, <1>6, <2>1, <2>2 DEF CursorBehind
<1>11. ASSUME pc' \in Handling PROVE UnderWay'
  <2>1. Tail(window) # <<>> /\ pc' = "handle" /\ window # <<>>
    BY <1>1, <1>5, <1>11 DEF Handling, Lines
  <2>2. /\ Tail(window) \in Seq([line : Line, next : Nat])
        /\ \A i \in DOMAIN Tail(window) : Tail(window)[i] = window[i + 1]
                                          /\ i + 1 \in DOMAIN window
    BY <1>1, <2>1, CurrentFacts
  <2>3. 1 \in DOMAIN window' /\ Head(window') = window'[1]
    BY <1>5, <2>1, <2>2
  <2>4. \A i \in DOMAIN window' :
              /\ i \in Nat
              /\ window'[i].next = at + i
              /\ window'[i].next \in DOMAIN log
              /\ log[window'[i].next] = window'[i].line
    <3> TAKE i \in DOMAIN window'
    <3>1. i \in Nat /\ window'[i] = window[i + 1] /\ i + 1 \in DOMAIN window
      BY <1>5, <2>2
    <3> QED
      BY <1>1, <1>2, <3>1 DEF UnderWay
  <2>5. window'[1].next = at + 1 /\ at + 1 \in DOMAIN log
    BY <2>3, <2>4
  <2>6. Current' = log[at + 1]
    BY <2>3, <2>4, <2>5 DEF Current
  <2>7. log[at + 1].seq > last
    BY <1>1, <1>2, <1>4, <2>5 DEF Increasing
  <2>8. \A i \in DOMAIN window' : window'[i].next = window'[1].next + (i - 1)
    BY <1>2, <2>4, <2>5
  <2>9. last < log[at + 1].seq
    BY <1>3, <2>5, <2>7
  <2>10. /\ cursor' < window'[1].next /\ Current'.seq > checkpoint'
         /\ pc' = "handle" /\ last' < Current'.seq
    BY <1>2, <1>5, <1>6, <2>1, <2>5, <2>6, <2>7, <2>9
  <2>11. \A p \in DOMAIN log' : p < window'[1].next => log'[p].seq <= last'
    BY <1>5, <1>9, <2>5
  <2>12. \A i \in DOMAIN window' :
              /\ window'[i].next = window'[1].next + (i - 1)
              /\ window'[i].next \in DOMAIN log'
              /\ log'[window'[i].next] = window'[i].line
    BY <1>5, <2>4, <2>8
  <2> QED
    BY <2>10, <2>11, <2>12 DEF UnderWay
<1>12. UnderWay'
  BY <1>11 DEF UnderWay
<1> QED
  BY <1>8, <1>10, <1>12 DEF InOrder

\* An answer stays.
LEMMA AnswersGrow ==
    ASSUME IInv, [Next]_vars
    PROVE  \A n \in Seqs : answers[n] # {} => answers'[n] # {}
<1> SUFFICES ASSUME NEW n \in Seqs, answers[n] # {} PROVE answers'[n] # {}
  OBVIOUS
<1>1. AnswerStep /\ answers \in [Seqs -> SUBSET Answer]
  BY AnswerFacts DEF IInv, Typed
<1>2. CASE answers' = answers
  BY <1>2
<1>3. ASSUME NEW results \in SUBSET Answer,
             answers' = [answers EXCEPT ![Current.seq] = @ \cup results]
      PROVE  answers'[n] # {}
  BY <1>1, <1>3
<1> QED
  BY <1>1, <1>2, <1>3 DEF AnswerStep

\* Outside a commit the high-water mark of the state file does not move.
LEMMA ProcessedStays ==
    ASSUME IInv, InOrder, [Next]_vars, pc # "down", pc # "commit" \/ disk' = disk
    PROVE  /\ disk'.processed = disk.processed
           /\ pc' # "down" => mem'.processed = disk.processed
<1>1. DiskStep
  BY RegistryStep DEF IInv
<1>2. mem.processed = disk.processed
  BY DEF InOrder, SameProcessed
<1>3. disk'.processed = disk.processed
  BY <1>1, <1>2 DEF DiskStep
<1> QED
  BY <1>1, <1>2, <1>3 DEF DiskStep

LEMMA AnswerWritten ==
    ASSUME IInv, pc \in Handling, NEW results,
           answers' = [answers EXCEPT ![Current.seq] = @ \cup results], results # {}
    PROVE  answers'[Current.seq] # {}
<1>1. Current.seq \in Seqs /\ answers \in [Seqs -> SUBSET Answer]
  BY CurrentFacts DEF IInv, Lines, Typed
<1> QED
  BY <1>1

\* Every other step leaves the log and the marks alone, or dies.
LEMMA NextOrder ==
    ASSUME ~ClearDuringPoll, IInv, InOrder, [Next]_vars
    PROVE  InOrder'
<1> USE DEF vars, writerVars, memoryVars, history
<1>1. /\ \A n \in Seqs : answers[n] # {} => answers'[n] # {}
      /\ \A results : pc \in Handling /\ results # {}
            /\ answers' = [answers EXCEPT ![Current.seq] = @ \cup results]
            => answers'[Current.seq] # {}
  BY AnswersGrow, AnswerWritten
<1>2. pc # "down" /\ (pc # "commit" \/ disk' = disk) =>
         /\ disk'.processed = disk.processed
         /\ pc' # "down" => mem'.processed = disk.processed
  BY ProcessedStays
<1>3. CASE Writer
  BY <1>3, WriterOrder
<1>4. CASE Start \/ ProbeLog \/ ScanLog
  BY <1>4, ReadOrder
<1>5. ASSUME /\ pc \in Handling \ {"commit", "checkpoint"} /\ pc' = "commit"
             /\ answers'[Current.seq] # {}
             /\ UNCHANGED <<log, sent, last, cursor, checkpoint, window>>
      PROVE  InOrder'
  <2>1. pc # "down" /\ pc # "commit" /\ pc # "checkpoint"
    BY <1>5 DEF Handling
  <2> QED
    BY <1>1, <1>2, <1>5, <2>1, RecordOrder
<1>6. CASE HandlePlain \/ HandleUndated \/ AllocationFails \/ CallbackThrows \/ Accept
  <2>1. /\ pc \in Handling \ {"commit", "checkpoint"} /\ pc' = "commit"
        /\ UNCHANGED <<log, sent, last, cursor, checkpoint, window>>
    BY <1>6 DEF HandlePlain, HandleUndated, AllocationFails, CallbackThrows, Accept, Handling
  <2>2. PICK result :
           answers' = [answers EXCEPT ![Current.seq] = @ \cup {result}]
    BY <1>6 DEF HandlePlain, HandleUndated, AllocationFails, CallbackThrows, Accept, Answered
  <2>3. {result} # {}
    OBVIOUS
  <2> QED
    BY <1>1, <1>5, <2>1, <2>2, <2>3
<1>7. CASE HandleKnown
  <2>1. /\ pc \in Handling \ {"commit", "checkpoint"} /\ pc' = "commit"
        /\ UNCHANGED <<log, sent, last, cursor, checkpoint, window>>
    BY <1>7 DEF HandleKnown, Handling
  <2>2. PICK result :
           answers' = [answers EXCEPT ![Current.seq] = @ \cup {result}]
    BY <1>7 DEF HandleKnown, Answered
  <2>3. {result} # {}
    OBVIOUS
  <2> QED
    BY <1>1, <1>5, <2>1, <2>2, <2>3
<1>8. CASE HandleStale
  <2>1. /\ pc \in Handling \ {"commit", "checkpoint"} /\ pc' = "commit"
        /\ UNCHANGED <<log, sent, last, cursor, checkpoint, window>>
    BY <1>8 DEF HandleStale, Handling
  <2>2. PICK results : /\ results # {}
                       /\ answers' = [answers EXCEPT ![Current.seq] = @ \cup results]
    <3> DEFINE told == {[status |-> "rejected", op |-> Current.seq]}
               both == told \cup {[status |-> "error", op |-> 0]}
    <3>1. \/ answers' = [answers EXCEPT ![Current.seq] = @ \cup told]
          \/ answers' = [answers EXCEPT ![Current.seq] = @ \cup both]
      BY <1>8 DEF HandleStale
    <3>2. told # {} /\ both # {}
      OBVIOUS
    <3> HIDE DEF told, both
    <3> QED
      BY <3>1, <3>2
  <2> QED
    BY <1>1, <1>5, <2>1, <2>2
<1>9. CASE HandleNew \/ MarkInDoubt \/ CallbackReturns
  <2>1. /\ pc \in Handling \ {"commit", "checkpoint"}
        /\ pc' \in Handling \ {"commit", "checkpoint"}
        /\ UNCHANGED <<log, sent, last, cursor, checkpoint, window>>
    BY <1>9 DEF HandleNew, MarkInDoubt, CallbackReturns, Handling
  <2>2. pc # "down" /\ pc # "commit" /\ pc # "checkpoint" /\ pc' # "commit" /\ pc' # "checkpoint"
        /\ pc' # "scan"
    BY <2>1 DEF Handling
  <2> QED
    BY <1>1, <1>2, <2>1, <2>2, RecordOrder
<1>10. CASE MarkRefused \/ AcceptUnanswered \/ (WriteFails /\ pc # "commit")
  <2>1. /\ pc # "down" /\ pc # "commit" /\ pc' = "idle"
        /\ UNCHANGED <<log, sent, last, cursor, checkpoint>>
    BY <1>10 DEF MarkRefused, AcceptUnanswered, WriteFails, Abort
  <2>2. pc' # "scan" /\ pc' \notin Handling
    BY <2>1 DEF Handling
  <2> QED
    BY <1>1, <1>2, <2>1, <2>2, RecordOrder
<1>11. CASE CommitProcessed \/ (WriteFails /\ pc = "commit")
  <2>1. last \in Nat /\ mem \in Registry /\ disk.processed \in Nat
        /\ mem.processed = disk.processed
    <3>1. last \in Nat /\ mem \in Registry /\ disk \in Registry
      BY DEF IInv, Typed, TypeOK
    <3>2. pc = "commit" /\ disk.processed \in Nat
      BY <1>11, <3>1 DEF Registry, CommitProcessed
    <3>3. mem.processed = disk.processed
      BY <3>2 DEF InOrder, SameProcessed
    <3> QED
      BY <3>1, <3>2, <3>3
  <2>2. CASE CommitProcessed
    <3>1. DiskStep /\ pc = "commit" /\ pc' = "checkpoint"
      BY <2>2, RegistryStep DEF IInv, CommitProcessed
    <3>2. mem' = disk' /\ last' = MaxOf(last, Current.seq)
      BY <2>2 DEF CommitProcessed
    <3>3. disk'.processed \in {disk.processed, Current.seq}
      <4>1. Current.seq > last /\ Current.seq \in Nat
        BY <2>1, <3>1, PlaceFacts DEF IInv, InOrder, UnderWay, Handling
      <4>2. MaxOf(last, Current.seq) = Current.seq
        BY <2>1, <4>1 DEF MaxOf
      <4> QED
        BY <2>1, <3>1, <4>2 DEF DiskStep
    <3>4. UNCHANGED <<log, sent, checkpoint, cursor, answers, window>>
      BY <2>2 DEF CommitProcessed
    <3> QED
      BY <3>1, <3>2, <3>3, <3>4, MarkMoves
  <2>3. CASE WriteFails /\ pc = "commit"
    BY <2>1, <2>3, MarkMoves DEF WriteFails, Abort
  <2> QED
    BY <1>11, <2>2, <2>3
<1>12. CASE CommitCheckpoint
  BY <1>12, CheckpointMoves
<1>13. CASE Crash
  <2>1. /\ last' = 0 /\ cursor' = 0 /\ pc' = "down"
        /\ UNCHANGED <<log, sent, checkpoint, disk, answers>>
    BY <1>13 DEF Crash
  <2>2. last \in Nat /\ checkpoint \in Nat /\ disk.processed \in Nat
    BY DEF IInv, Typed, TypeOK, Registry
  <2>3. Passed' \in Nat /\ Passed' <= Passed
    BY <2>1, <2>2 DEF Passed, MaxOf
  <2>4. Unanswered'
    BY <2>1, <2>3, UnansweredKept DEF IInv, InOrder
  <2>5. CursorBehind'
    <3>1. \A p \in DOMAIN log : log[p].seq \in Nat /\ log[p].seq > 0
      BY LogFacts DEF IInv, Seqs
    <3>2. Len(log) \in Nat /\ (log # <<>> => 1 \in DOMAIN log)
      BY LogFacts DEF IInv
    <3> QED
      BY <2>1, <3>1, <3>2 DEF CursorBehind
  <2>6. Increasing' /\ UnderWay' /\ SameProcessed'
    BY <2>1 DEF InOrder, Increasing, UnderWay, SameProcessed, Handling
  <2> QED
    BY <2>4, <2>5, <2>6 DEF InOrder
<1>14. CASE LoseCheckpoint
  <2>1. /\ UNCHANGED <<log, sent, last, cursor, disk>> /\ checkpoint' = 0
        /\ pc' = "down" /\ pc' # "scan" /\ pc' \notin Handling
    BY <1>14 DEF LoseCheckpoint, Handling
  <2> QED
    BY <1>1, <2>1, RecordOrder
<1>15. CASE Tick \/ UNCHANGED vars
  <2>1. UNCHANGED <<log, sent, last, cursor, disk, mem, pc, window, checkpoint, answers>>
    BY <1>15 DEF Tick
  <2>2. pc' # "down" => mem'.processed = disk.processed
    BY <2>1 DEF InOrder, SameProcessed
  <2>3. pc = "commit" => answers[Current.seq] # {}
    BY DEF InOrder, UnderWay, Handling
  <2> QED
    BY <1>1, <2>1, <2>2, <2>3, RecordOrder
<1> QED
  BY <1>3, <1>4, <1>6, <1>7, <1>8, <1>9, <1>10, <1>11, <1>12, <1>13, <1>14, <1>15
  DEF Next, Bridge, Faults

LEMMA InitOrder == Init => InOrder
<1> SUFFICES ASSUME Init PROVE InOrder
  OBVIOUS
<1>1. log = <<>> /\ DOMAIN log = {} /\ pc = "down" /\ \A n \in Seqs : sent[n] = NoLine
  BY DEF Init
<1> QED
  BY <1>1 DEF InOrder, Increasing, Unanswered, CursorBehind, UnderWay, SameProcessed,
              Handling

\* Every command that a mark has not reached is still in the log, and the cursor
\* and the window are behind it: for a writer that does not clear the log
\* between the probe of its identity and the read behind it.
THEOREM OrderKept == ASSUME ~ClearDuringPoll PROVE Spec => []InOrder
<1>1. IInv /\ InOrder /\ [Next]_vars => InOrder'
  BY NextOrder
<1> QED
  BY <1>1, InitOrder, Invariance, PTL DEF Spec

\* No failure of a file operation, no crash, no lost checkpoint and no cleanup of
\* the log makes the bridge pass over a command that it has not answered.  It
\* holds under the condition named here only: a writer that clears the log between
\* the two reads of one poll can make it false.
THEOREM NothingIsSkipped == ASSUME ~ClearDuringPoll PROVE Spec => []AnsweredBeforePassed
<1>1. IInv /\ InOrder => AnsweredBeforePassed
  <2> SUFFICES ASSUME IInv, InOrder,
                      NEW n \in Seqs, sent[n] # NoLine, n <= Passed, answers[n] = {}
               PROVE  FALSE
    BY DEF AnsweredBeforePassed
  <2>1. n > Passed /\ Passed \in Nat /\ n \in Nat
    BY PassedFacts DEF IInv, InOrder, Unanswered, Seqs
  <2> QED
    BY <2>1
<1> QED
  BY <1>1, OrderKept, Invariance, PTL
=============================================================================
