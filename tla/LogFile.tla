------------------------------- MODULE LogFile -------------------------------
(***************************************************************************)
(* RN::LogFile over FileUtil::AppendFile, as one thread uses it: when a    *)
(* new file is begun, and when stdio's buffer is written out.  A file is   *)
(* named for the second it was begun in, lastRoll_ for the open one, and   *)
(* rollFile never begins one unless its name comes after that: the files   *)
(* are kept here as one, in the order of their names.                      *)
(*                                                                         *)
(* append_unlocked compares the beginning of the day with lastRoll_, the   *)
(* time of the last roll, and not with startOfPeriod_, which nothing       *)
(* reads: every checkEveryN_ appends it rolls, unless the file was begun   *)
(* at midnight to the second.                                              *)
(***************************************************************************)
EXTENDS Naturals, Sequences, Functions

CONSTANTS rollSize_, flushInterval_, checkEveryN_,
          kSecondsPerRoll,
          Clock            \* what the clock shows, in seconds, one after another

ASSUME LogFileAssumption ==
    /\ rollSize_ \in Nat /\ flushInterval_ \in Nat
    /\ checkEveryN_ \in Nat \ {0} /\ kSecondsPerRoll \in Nat \ {0}
    /\ Clock \in Seq(Nat \ {0}) /\ Clock # <<>>

VARIABLES
    tick,
    diskFull,    \* there is no room any more for what is written out
    content,     \* what has been appended, in all the files
    saved,       \* how much of it stdio has written out
    written,     \* file_->writtenBytes()
    count_, lastRoll_, lastFlush_

now == Clock[tick]     \* ::time(NULL)

fileVars == <<content, saved, written, count_, lastRoll_, lastFlush_>>

LFTypeOK(Entry) ==
    /\ tick \in DOMAIN Clock /\ diskFull \in BOOLEAN
    /\ content \in Seq(Entry) /\ saved \in 0 .. Len(content)
    /\ written \in Nat
    /\ count_ \in 0 .. checkEveryN_ - 1
    /\ {lastRoll_, lastFlush_} \subseteq Range(Clock) \cup {0}

LFInit ==
    /\ tick = 1 /\ diskFull = FALSE
    /\ content = <<>> /\ saved = 0 /\ written = 0
    /\ count_ = 0 /\ lastRoll_ = 0 /\ lastFlush_ = 0

PeriodStart(t) == (t \div kSecondsPerRoll) * kSecondsPerRoll

(* AppendFile::flush, and fclose: with the disk full nothing comes of it.   *)
WriteOut == saved' = IF diskFull THEN saved ELSE Len(content')

(* AppendFile::AppendFile                                                   *)
AppendFileOpens == written' = 0

(* A new file, unless the last was begun in this second or later; it        *)
(* closes the one before.  fopen is taken to succeed.                       *)
rollFile(size) ==
    IF now > lastRoll_
    THEN lastRoll_' = now /\ lastFlush_' = now /\ WriteOut /\ AppendFileOpens
    ELSE written' = size /\ UNCHANGED <<saved, lastRoll_, lastFlush_>>

(* LogFile::LogFile                                                         *)
LogFileOpens == UNCHANGED <<content, count_>> /\ rollFile(0)

(* AppendFile::append goes on until all is written, so that it spins when   *)
(* the disk is full.                                                        *)
AppendFile(entries, bytes) ==
    /\ ~diskFull \/ bytes = 0
    /\ content' = content \o entries

(* append_unlocked                                                          *)
appendFile(entries, bytes) ==
    LET size == written + bytes IN
    /\ AppendFile(entries, bytes)
    /\ IF size > rollSize_
       THEN rollFile(size) /\ UNCHANGED count_
       ELSE /\ count_' = (count_ + 1) % checkEveryN_
            /\ IF count_' = 0 /\ PeriodStart(now) # lastRoll_
               THEN rollFile(size)
               ELSE /\ written' = size /\ UNCHANGED lastRoll_
                    /\ IF count_' = 0 /\ now > lastFlush_ + flushInterval_
                       THEN WriteOut /\ lastFlush_' = now
                       ELSE UNCHANGED <<saved, lastFlush_>>

flush == UNCHANGED <<content, written, count_, lastRoll_, lastFlush_>> /\ WriteOut

OnDisk == Range(SubSeq(content, 1, saved))
=============================================================================
