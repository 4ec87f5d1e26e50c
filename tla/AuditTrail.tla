----------------------------- MODULE AuditTrail -----------------------------
(***************************************************************************)
(* audit/log.py: several processes append batches of records to one file,  *)
(* one JSON line per record, while summarize reads it from the start.      *)
(*                                                                         *)
(* The file is a sequence of cells, three to a record: the beginning of    *)
(* its line, the rest of it, and the line end.  CPython flushes the buffer *)
(* of an open text file between two writes, so a flush ends where a record *)
(* ends; what cuts a record is the operating system's short write when the *)
(* disk is full.  All records are cut at the same place, the case in which *)
(* the halves of two of them could be taken for one.                       *)
(***************************************************************************)
EXTENDS Naturals, SequencesExt, FiniteSetsExt

CONSTANTS Writers,    \* processes that append to the file
          Batches,    \* for each, the arguments of its calls of write, in turn
          MaxTears    \* bound on the short writes that end inside a record

ASSUME BatchesAreSequences == Batches \in [Writers -> Seq(Seq(Nat))] /\ MaxTears \in Nat

\* Each record of each call is one of its own, and is named by a number.
ASSUME RecordsAreNamedApart ==
  \A v, w \in Writers : \A i \in DOMAIN Batches[v], k \in DOMAIN Batches[w] :
    \A j \in DOMAIN Batches[v][i], l \in DOMAIN Batches[w][k] :
      Batches[v][i][j] = Batches[w][k][l] => v = w /\ i = k /\ j = l

VARIABLES file,       \* the cells on disk
          left,       \* per writer, the calls still to come
          pending,    \* per writer, the cells its open file still buffers
          tears,      \* short writes so far
          reading,    \* is summarize under way?
          pos,        \* how far it has read
          since,      \* how long the file was when it began
          rows        \* the rows it has found
trailVars == <<file, left, pending, tears, reading, pos, since, rows>>

Beginning(r) == <<r, 1>>
Rest(r)      == <<r, 2>>
LineEnd(r)   == <<r, 3>>
IsLineEnd(cell) == cell[2] = 3

\* The lines of a batch: json.dumps(asdict(rec)) + "\n" for each record.
Lines(batch) == [i \in 1..3 * Len(batch) |->
                   <<batch[(i + 2) \div 3], 1 + ((i - 1) % 3)>>]

TrailInit ==
  /\ file = <<>> /\ tears = 0
  /\ left = Batches
  /\ pending = [w \in Writers |-> <<>>]
  /\ reading = FALSE /\ pos = 0 /\ since = 0 /\ rows = <<>>

NotReading == UNCHANGED <<reading, pos, since, rows>>

-----------------------------------------------------------------------------
(* write *)

\* A call: nothing for an empty batch, else its lines go to the file's buffer.
Write(w) ==
  /\ pending[w] = <<>> /\ left[w] # <<>>
  /\ left' = [left EXCEPT ![w] = Tail(@)]
  /\ pending' = [pending EXCEPT ![w] = Lines(Head(left[w]))]
  /\ NotReading /\ UNCHANGED <<file, tears>>

\* The first n cells of the buffer are appended, wherever the file then ends.
Put(w, n) ==
  /\ file' = file \o SubSeq(pending[w], 1, n)
  /\ pending' = [pending EXCEPT ![w] = SubSeq(@, n + 1, Len(@))]
  /\ NotReading /\ UNCHANGED left

Flush(w) == \E n \in DOMAIN pending[w] :
  IsLineEnd(pending[w][n]) /\ Put(w, n) /\ UNCHANGED tears

\* The disk takes only a part.  The buffered writer tries again at once, and
\* once more when the file is closed, so a Flush may still follow.
ShortWrite(w) == \E n \in DOMAIN pending[w] :
  /\ ~IsLineEnd(pending[w][n]) /\ tears < MaxTears
  /\ Put(w, n) /\ tears' = tears + 1

\* The disk stays full and write raises, or the process dies.
Abandon(w) ==
  /\ pending[w] # <<>>
  /\ pending' = [pending EXCEPT ![w] = <<>>]
  /\ NotReading /\ UNCHANGED <<file, left, tears>>

Writing(w) == Write(w) \/ Flush(w) \/ ShortWrite(w) \/ Abandon(w)

-----------------------------------------------------------------------------
(* summarize *)

OpenTrail ==
  /\ ~reading /\ reading' = TRUE
  /\ pos' = 0 /\ rows' = <<>> /\ since' = Len(file)
  /\ UNCHANGED <<file, left, pending, tears>>

\* Faulty variant: whatever ends like a record is taken for one.
ParsesEnd(line) == Len(line) >= 2 /\ line[1][2] = 1 /\ Last(line)[2] = 2

\* json.loads accepts a beginning and a rest with nothing else in the line.
Parses(line) == Len(line) = 2 /\ line[1][2] = 1 /\ line[2][2] = 2

\* Where the next turn of the loop reads to: the next line end, or where the
\* file now ends.
Stop ==
  LET ends == {n \in pos + 1..Len(file) : IsLineEnd(file[n])}
  IN  IF ends = {} THEN Len(file) ELSE Min(ends)

\* What it reads, without the line end.
TheLine == SubSeq(file, pos + 1, IF IsLineEnd(file[Stop]) THEN Stop - 1 ELSE Stop)

\* Faulty variants: the loop ends at a line that does not parse; the next line
\* is looked for one cell too far.
ReadUntilBroken ==
  /\ reading /\ pos < Len(file)
  /\ pos' = IF Parses(TheLine) THEN Stop ELSE Len(file)
  /\ rows' = IF Parses(TheLine) THEN Append(rows, TheLine) ELSE rows
  /\ UNCHANGED <<file, left, pending, tears, reading, since>>
ReadTooFar ==
  /\ reading /\ pos < Len(file)
  /\ pos' = Stop + 1
  /\ UNCHANGED <<file, left, pending, tears, reading, since, rows>>

\* One turn of the loop.  Empty lines and lines that do not parse are passed
\* over.
ReadLine ==
  /\ reading /\ pos < Len(file)
  /\ pos' = Stop
  /\ rows' = IF Parses(TheLine) THEN Append(rows, TheLine) ELSE rows
  /\ UNCHANGED <<file, left, pending, tears, reading, since>>

CloseTrail ==
  /\ reading /\ pos = Len(file) /\ reading' = FALSE
  /\ UNCHANGED <<file, left, pending, tears, pos, since, rows>>

-----------------------------------------------------------------------------
(* Properties *)

\* Type invariant of the file, its writers and the summary being taken.
TrailTypeOK ==
  LET Cell == UNION {Range(Lines(b)) : b \in UNION {Range(Batches[w]) : w \in Writers}}
  IN  /\ file \in Seq(Cell)
      /\ left \in [Writers -> Seq(Seq(Nat))] /\ pending \in [Writers -> Seq(Cell)]
      /\ tears \in 0..MaxTears /\ reading \in BOOLEAN
      /\ pos \in 0..Len(file) /\ since \in 0..Len(file) /\ rows \in Seq(Cell \X Cell)

\* Records whose line was complete among the first n cells of the file.
Complete(n) == {file[i][1] : i \in {j \in 1..n : IsLineEnd(file[j])}}

\* summarize invents nothing: each of its rows is one record that was written,
\* and none is counted twice.  It takes two short writes for the halves of two
\* records to meet on a line of their own, the reader having taken what was
\* before them for a line.
RowsAreRecords == tears < 2 =>
  /\ \A i \in DOMAIN rows : rows[i][1][1] = rows[i][2][1]
  /\ IsInjective(rows)

\* Of the records that were complete when a summary began, each short write
\* costs it at most two: the one cut and the one that shares its line.  Without
\* short writes the summary misses none, whatever is appended meanwhile.
LossesAreBounded == ~reading =>
  Cardinality(Complete(since) \ {rows[i][1][1] : i \in DOMAIN rows}) <= 2 * tears

=============================================================================
