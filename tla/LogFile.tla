-------------------------------- MODULE LogFile --------------------------------
(***************************************************************************)
(* LogFile (log/LogFile.cc): the back end of AsyncLogging appends buffers  *)
(* of log lines to a file and changes to a new file when the current one   *)
(* is too large or a new day has begun.  One thread calls append(); the    *)
(* clock runs on between its steps, so the several calls of time() in one  *)
(* append() may disagree.                                                  *)
(*                                                                         *)
(* A byte is known by its number.  What is in the stdio buffer of a FILE*  *)
(* may reach the disk at any moment and does at fflush and fclose; the     *)
(* disk has room, and only an interrupted fwrite takes less than it is     *)
(* given.                                                                  *)
(*                                                                         *)
(* A file is named by the local time of its second, without the zone:      *)
(* LocalTime may give two seconds one name, as it does for the hour that   *)
(* comes twice when summer time ends, and the second file of a name is the *)
(* first one, opened again.                                                *)
(***************************************************************************)
EXTENDS Integers, Sequences

CONSTANTS
  Lens,             \* how long the data of one append() may be
  MaxBytes,         \* bound on what is appended in all
  MaxClock,         \* bound on the clock, in seconds
  Names,            \* the names of files
  LocalTime,        \* the name a file opened at a time gets
  rollSize,         \* rollSize_
  flushInterval,    \* flushInterval_
  checkEveryN,      \* checkEveryN_
  kRollPerSeconds   \* kRollPerSeconds_: the length of a day

ASSUME LogFileAssumption ==
  /\ Lens \subseteq Nat \ {0}
  /\ MaxBytes \in Nat
  /\ MaxClock \in Nat \ {0}
  /\ LocalTime \in [1..MaxClock -> Names]
  /\ rollSize \in Nat
  /\ flushInterval \in Nat
  /\ checkEveryN \in Nat
  /\ kRollPerSeconds \in Nat \ {0}

VARIABLES
  clock,          \* the time
  disk,           \* the bytes on disk in the file of each name
  name,           \* the name of the current file
  stdio,          \* the bytes in the buffer of the current file
  written,        \* writtenBytes_: what was written since it was opened
  count,          \* count_
  startOfPeriod,  \* startOfPeriod_
  lastRoll,       \* lastRoll_
  lastFlush,      \* lastFlush_
  pc,             \* where append() is
  remain,         \* what it still has to write
  appended,       \* how many bytes append() has been given so far
  calledAt,       \* history: when this append() was called
  checkedAt,      \* history: when the last full file was last looked at
  late            \* history: appends since the file was of the current day

counters == <<count, startOfPeriod, lastRoll, lastFlush>>
history == <<calledAt, checkedAt, late>>
vars == <<clock, disk, name, stdio, written, counters, pc, remain, appended, history>>

TypeOK ==
  /\ clock \in 1..MaxClock
  /\ disk \in [Names -> Seq(Nat)]
  /\ name \in Names
  /\ stdio \in Seq(Nat)
  /\ written \in Nat
  /\ count \in Nat
  /\ {startOfPeriod, lastRoll, lastFlush, remain, appended} \subseteq Nat
  /\ {calledAt, checkedAt, late} \subseteq Nat
  /\ pc \in {"idle", "write", "size", "check", "roll", "flush"}

\* now / kRollPerSeconds_ * kRollPerSeconds_
PeriodOf(now) == (now \div kRollPerSeconds) * kRollPerSeconds

\* The bytes from number "first" to number "end".
Bytes(first, end) == [k \in 1..((end - first) + 1) |-> (first + k) - 1]

\* What has been given to fwrite.
Taken == appended - remain

\* The constructor's rollFile() has opened the first file: lastRoll_ was 0 and
\* the time is later than that.
Init ==
  /\ clock = 1
  /\ disk = [n \in Names |-> <<>>]
  /\ name = LocalTime[1]
  /\ stdio = <<>>
  /\ written = 0
  /\ count = 0
  /\ startOfPeriod = PeriodOf(1)
  /\ lastRoll = 1
  /\ lastFlush = 1
  /\ pc = "idle"
  /\ remain = 0
  /\ appended = 0
  /\ calledAt = 1
  /\ checkedAt = 1
  /\ late = 0

Tick ==
  /\ clock < MaxClock
  /\ clock' = clock + 1
  /\ UNCHANGED <<disk, name, stdio, written, counters, pc, remain, appended, history>>

\* The bytes of the files once the buffer of the current one is flushed, at the
\* end of that file whoever has written to it (mode "a").
Flushed == [disk EXCEPT ![name] = @ \o stdio]

\* stdio writes out what it holds of its own accord.
StdioWritesOut ==
  /\ stdio # <<>>
  /\ disk' = Flushed
  /\ stdio' = <<>>
  /\ UNCHANGED <<clock, name, written, counters, pc, remain, appended, history>>

------------------------------------------------------------------------------
(* append() *)

AppendStart ==
  /\ pc = "idle"
  /\ \E len \in Lens :
       /\ appended + len <= MaxBytes
       /\ remain' = len
       /\ appended' = appended + len
  /\ pc' = "write"
  /\ calledAt' = clock
  /\ UNCHANGED <<clock, disk, name, stdio, written, counters, checkedAt, late>>

\* The loop of FileUtil::append goes on with what fwrite has not taken.
StillToWrite(n) == remain - n

\* FileUtil::append: fwrite_unlocked takes n bytes.
Write ==
  /\ pc = "write"
  /\ \E n \in 1..remain :
       /\ stdio' = stdio \o Bytes(Taken + 1, Taken + n)
       /\ remain' = StillToWrite(n)
       /\ written' = written + n
  /\ pc' = IF remain' = 0 THEN "size" ELSE "write"
  /\ UNCHANGED <<clock, disk, name, counters, appended, history>>

\* Mutant: the size of the file is not looked at.
IsFull_Never == FALSE

\* writtenBytes() > rollSize_
IsFull == written > rollSize

SizeCheck ==
  /\ pc = "size"
  /\ pc' = IF IsFull THEN "roll"
           ELSE IF count + 1 >= checkEveryN THEN "check" ELSE "flush"
  /\ count' = IF IsFull THEN count ELSE count + 1
  /\ UNCHANGED <<clock, disk, name, stdio, written, startOfPeriod, lastRoll,
                 lastFlush, remain, appended, history>>

\* count_ = 0
CountAfterCheck == 0

\* Mutant: a day that is only just over is still taken for today.
IsNewDay_TwoDays(now) == PeriodOf(now) > startOfPeriod + kRollPerSeconds

\* thisPeriod != startOfPeriod_
IsNewDay(now) == PeriodOf(now) # startOfPeriod

\* checkEveryN_ appends have passed: a new day rolls the file, else the flush
\* interval is looked at.
PeriodCheck ==
  /\ pc = "check"
  /\ count' = CountAfterCheck
  /\ IF IsNewDay(clock)
     THEN pc' = "roll" /\ UNCHANGED <<disk, stdio, lastFlush>>
     ELSE /\ pc' = "flush"
          /\ IF clock - lastFlush > flushInterval
             THEN lastFlush' = clock /\ disk' = Flushed /\ stdio' = <<>>
             ELSE UNCHANGED <<disk, stdio, lastFlush>>
  /\ UNCHANGED <<clock, name, written, startOfPeriod, lastRoll, remain, appended, history>>

\* now > lastRoll_
MayRoll == clock > lastRoll

\* Mutant: an older file of the name is emptied (mode "w").
Opened_Emptied(n, bytes) == [bytes EXCEPT ![n] = <<>>]

\* fopen(fileName, "ae"): an older file of the name is gone on with.
Opened(n, bytes) == bytes

\* rollFile: the new file is opened, then the old one closed, which flushes it
\* (the two may be one file).
RollFile ==
  /\ pc = "roll"
  /\ MayRoll
  /\ name' = LocalTime[clock]
  /\ disk' = Opened(name', Flushed)
  /\ stdio' = <<>>
  /\ written' = 0
  /\ lastRoll' = clock
  /\ lastFlush' = clock
  /\ startOfPeriod' = PeriodOf(clock)
  /\ pc' = "flush"
  /\ UNCHANGED <<clock, count, remain, appended, history>>

RollTooSoon ==
  /\ pc = "roll"
  /\ ~MayRoll
  /\ checkedAt' = clock
  /\ pc' = "flush"
  /\ UNCHANGED <<clock, disk, name, stdio, written, counters, remain, appended,
                 calledAt, late>>

\* append() ends with file_->flush().  A day the file is not of counts against
\* it only if it had begun when append() was called.
Return ==
  /\ pc = "flush"
  /\ disk' = Flushed
  /\ stdio' = <<>>
  /\ late' = IF PeriodOf(calledAt) > startOfPeriod THEN late + 1 ELSE 0
  /\ pc' = "idle"
  /\ UNCHANGED <<clock, name, written, counters, remain, appended, calledAt,
                 checkedAt>>

------------------------------------------------------------------------------
AppendStep ==
  AppendStart \/ Write \/ SizeCheck \/ PeriodCheck \/ RollFile \/ RollTooSoon \/ Return

Next == AppendStep \/ StdioWritesOut \/ Tick

Spec == Init /\ [][Next]_vars

------------------------------------------------------------------------------
(* Properties *)

\* The bytes in the file of name n, and how many bytes have left stdio.
Held(n) == {disk[n][k] : k \in 1..Len(disk[n])}
Out == Taken - Len(stdio)

\* Each byte append() was given is in one file or on its way to it, once, and
\* those of an append() that has returned are on disk, so that a crash of the
\* process loses none; and every file tells its bytes in the order they were
\* given, the ones too that local time names twice and a roll opens again, the
\* current file among them (FileUtil::append, rollFile, getLogFileName, the
\* last flush of append).
NothingLost ==
  /\ Len(stdio) <= Taken
  /\ stdio = Bytes(Out + 1, Taken)
  /\ UNION {Held(n) : n \in Names} = 1..Out
  /\ \A m, n \in Names : m # n => Held(m) \cap Held(n) = {}
  /\ \A n \in Names : \A i, j \in 1..Len(disk[n]) : i < j => disk[n][i] < disk[n][j]
  /\ pc = "idle" => (stdio = <<>> /\ remain = 0)

\* What makes these and the two below inductive: where append() is and what it
\* still has to write; the file in use is the one opened last, and no time is
\* ahead of the clock; what the size check and the period check leave behind.
InStep ==
  /\ remain <= appended
  /\ remain = 0 <=> pc # "write"
  /\ name = LocalTime[lastRoll]
  /\ lastRoll \in 1..MaxClock
  /\ startOfPeriod = PeriodOf(lastRoll)
  /\ lastRoll <= clock
  /\ calledAt <= clock

SizeIsChecked ==
  /\ pc = "check" => written <= rollSize
  /\ pc \in {"flush", "idle"} /\ written > rollSize => checkedAt = lastRoll

DayIsChecked ==
  /\ pc \in {"idle", "write", "size"} =>
       late = 0 \/ (late <= count /\ count < checkEveryN)
  /\ pc = "flush" =>
       PeriodOf(calledAt) <= startOfPeriod \/ (late < count /\ count < checkEveryN)

Inv ==
  /\ TypeOK
  /\ NothingLost
  /\ InStep
  /\ SizeIsChecked
  /\ DayIsChecked

\* A file is left with more than rollSize_ bytes written since it was opened
\* only by appends made in that second; the first one that ends later rolls it
\* (append's size check, rollFile's "now > lastRoll_").
LargeOnlyInItsSecond ==
  (pc = "idle" /\ written > rollSize) => checkedAt = lastRoll

\* Fewer than checkEveryN_ appends made after midnight go to the file of the
\* day before and leave it in use, although rollFile may decline and the size
\* branch skips the count.
SoonANewDay == (pc = "idle" /\ late > 0) => late < checkEveryN
==============================================================================
