----------------------------- MODULE FileJournal -----------------------------
(***************************************************************************)
(* Journals that keep their entries in files: JournalFile of               *)
(* cashmere/plugins/src/file.cpp with SeekToLine of utils/src/fileutils.cpp *)
(* and JournalBase::insert.  The directory of a journal has one file per   *)
(* author, to which lines are added and never rewritten; an entry is found *)
(* by the number of its line.  The clock lives in memory only: a journal   *)
(* that is opened on a directory with files has an empty one.              *)
(***************************************************************************)
EXTENDS EntryText

CONSTANTS
  Id,       \* ids of the journals
  Amount,   \* values an entry can carry
  MaxTime   \* largest value of a clock component

ASSUME FileIdAssumption == Id \subseteq Nat \ {0}
ASSUME FileMaxTimeAssumption == MaxTime \in Nat \ {0}

VARIABLES
  clock,    \* clock[n]: JournalBase::clock()
  files     \* files[n][i]: the text of the file of author i in the directory of n

vars == <<clock, files>>

\* JournalFile::JournalFile on an empty directory.
Init ==
  /\ clock = [n \in Id |-> EmptyClock]
  /\ files = [n \in Id |-> [i \in Id |-> <<>>]]

-----------------------------------------------------------------------------
(***************************************************************************)
(* Reading.                                                                *)
(***************************************************************************)
LineFeeds(text) == {k \in 1..Len(text) : text[k] = Sign("LF")}

LineCount(text) == Cardinality(LineFeeds(text))

\* Where the given line starts.
LineStart(text, line) ==
  IF line = 1
    THEN 1
    ELSE 1 + CHOOSE k \in LineFeeds(text) : Cardinality({j \in LineFeeds(text) : j <= k}) = line - 1

\* A turn of the loop of JournalFile::entries: Entry::Read and ReadChar of the line
\* feed.  Every line was written by save, so a read can fail at the end of the file
\* only, where it stays.  Like the reads of EntryText it gives a set of one element.
ReadLine(text, list) ==
  LET reads == ReadEntry(text, list.at)
  IN  IF reads = {}
        THEN {list}
        ELSE {[at |-> IF ReadChars(text, read.at, <<"LF">>) = {} THEN read.at ELSE read.at + 1,
               entries |-> list.entries \cup {read.entry}] : read \in reads}

\* The loop over one file.
ReadLines(text, count) ==
  LET after[k \in 0..count] ==
        IF k = 0
          THEN {[at |-> 1, entries |-> {}]}
          ELSE UNION {ReadLine(text, list) : list \in after[k - 1]}
  IN  UNION {list.entries : list \in after[count]}

\* The entries of author i, and of all authors, that n saved.
Saved(n, i) == ReadLines(files[n][i], LineCount(files[n][i]))

Stored(n) == UNION {Saved(n, i) : i \in Id}

\* A slip in entries(): the last line that the clock counts is not read.
ShownShort(n, i) == ReadLines(files[n][i], IF At(clock[n], i) > 0 THEN At(clock[n], i) - 1 ELSE 0)

\* JournalFile::entries: of each file as many lines as the clock counts.
Shown(n, i) == ReadLines(files[n][i], At(clock[n], i))

\* A slip in SeekToLine: lines are numbered from 0.
SeekToLineFromZero(text, line) ==
  [ok |-> LineCount(text) > line,
   at |-> IF LineCount(text) > line THEN LineStart(text, line + 1) ELSE Len(text) + 1]

\* SeekToLine skips line - 1 lines.  It notices the end of the file one line late,
\* and a file that does not exist can be asked for its first line only.
SeekToLine(text, line) ==
  [ok |-> IF text = <<>> THEN line = 1 ELSE line \in 1..LineCount(text) + 2,
   at |-> IF line \in 1..LineCount(text) THEN LineStart(text, line) ELSE Len(text) + 1]

\* JournalFile::entry: the files of the ids in the clock are tried by increasing
\* id, up to the first that SeekToLine fails on.
Lookup(n, c) ==
  LET Seek(i) == SeekToLine(files[n][i], c[i])
      Found(i) == {e \in {read.entry : read \in ReadEntry(files[n][i], Seek(i).at)} : e.clock = c}
      tried == {i \in DOMAIN c : \A j \in DOMAIN c : j <= i => Seek(j).ok}
      hits == {i \in tried : Found(i) # {}}
  IN  IF hits = {} THEN {} ELSE Found(CHOOSE i \in hits : \A j \in hits : i <= j)

-----------------------------------------------------------------------------
(***************************************************************************)
(* Writing.                                                                *)
(***************************************************************************)

\* JournalFile::save adds one line.
Save(n, e) == files' = [files EXCEPT ![n][e.id] = @ \o WriteEntry(e) \o <<Sign("LF")>>]

\* A slip in JournalBase::insert: isNext is not asked.
InsertAny(n, e) ==
  /\ Save(n, e)
  /\ clock' = [clock EXCEPT ![n] = Merge(@, e.clock)]

\* JournalBase::insert, with the local part of Broker::insert.
Insert(n, e) ==
  /\ IsNext(e.clock, clock[n], e.id)
  /\ Save(n, e)
  /\ clock' = [clock EXCEPT ![n] = Merge(@, e.clock)]

\* The entry that BrokerBase::append, replace and erase make at the clock c.
NewEntry(n, c, value, alters) == [clock |-> Tick(c, n), id |-> n, value |-> value, alters |-> alters]

AppendData(n, value, alters) ==
  /\ At(clock[n], n) < MaxTime
  /\ Insert(n, NewEntry(n, clock[n], value, alters))

\* JournalFile::JournalFile: the clock is empty, whatever the files hold,
Open(n) == clock' = [clock EXCEPT ![n] = EmptyClock] /\ UNCHANGED files

\* or that of the entry e, if e is inserted at once.
OpenAndInsert(n, e) == clock' = [clock EXCEPT ![n] = e.clock] /\ Save(n, e)

-----------------------------------------------------------------------------
\* Every entry that was saved, and that the clock counts, is listed by
\* entries(), as the test RetrieveAllEntries wants: the number of lines that are
\* read is enough, and no other line stands before it.
AllListed ==
  \A n, i \in Id : \A e \in Saved(n, i) : e.clock[i] <= At(clock[n], i) => e \in Shown(n, i)

\* entry(clock) finds every entry that was saved, as the test EntriesRetrieval wants.
EveryEntryFound == \A n \in Id : \A e \in Stored(n) : Lookup(n, e.clock) = {e}

\* The file of author i has a line for each of its entries that the clock counts.
Gapless(n, i) == LineCount(files[n][i]) = At(clock[n], i)

\* entry(clock), which takes the files of whichever ids are in the clock by the
\* numbers of their lines, never finds another entry than the one that was saved
\* with this clock, and finds that one unless a file that it looks into has gaps.
FoundWithoutGaps ==
  \A n \in Id : \A e \in Stored(n) :
    /\ Lookup(n, e.clock) \subseteq {e}
    /\ (\A i \in DOMAIN e.clock : Gapless(n, i)) => Lookup(n, e.clock) = {e}

\* JournalFile saves without looking for the clock it is given, and still the
\* journals are those of module Journal, which refuse a clock they hold.
Pool == INSTANCE Journal WITH entries <- [n \in Id |-> Stored(n)]

ImplementsPool == Pool!Spec

=============================================================================
