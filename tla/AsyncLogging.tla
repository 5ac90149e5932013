---------------------------- MODULE AsyncLogging ----------------------------
(***************************************************************************)
(* RN::AsyncLogging between the threads that log, each line made by its    *)
(* Logger, and the thread that writes what they logged to a LogFile.       *)
(* The back end holds mutex_ from its waking to the end of a turn, so that *)
(* those who log wait while it writes; append is one step, under mutex_.   *)
(* A wait ends by a notify, by its time, or for no reason: the notifies    *)
(* only hasten it and are left out.                                        *)
(*                                                                         *)
(* A line is known by its place in accepted, a buffer is the lines in it.  *)
(***************************************************************************)
EXTENDS LogStream, LogFile, SequencesExt

CONSTANTS
    Thread,        \* those who log
    Messages,      \* Thread -> what it may log
    kLargeBuffer,  \* bytes of a buffer, 4000 * 1000
    kMaxBuffers,   \* more than so many are cut to two, 25
    Null,
    MaxLines       \* bound on the lines logged

Note == 0          \* "Dropped log message at ..." in a file
CONSTANT NoteLen

ASSUME AsyncLoggingAssumption ==
    /\ Messages \in [Thread -> SUBSET Message]
    /\ kLargeBuffer \in Nat /\ kSmallBuffer < kLargeBuffer
    /\ kMaxBuffers \in Nat \ {0, 1} /\ MaxLines \in Nat /\ NoteLen \in Nat
    /\ Null # <<>>

VARIABLES
    running_, buffers_,
    currentBuffer_, nextBuffer_,
    opc,                              \* the owner in start and stop
    bpc,                              \* the back end
    firstNewBuffer, secondNewBuffer,  \* its spare buffers
    bufferToWrite, i,
    t_lastSecond, t_time,             \* formatTime's cache, in each thread
    fpc, line,                        \* a line made and not yet appended
    aborted,
    accepted,                         \* history: the lengths of the lines appended
    dropped                           \* history: those the back end dropped

system == <<tick, diskFull>>
front  == <<fpc, line, t_lastSecond, t_time>>
shared == <<buffers_, currentBuffer_, nextBuffer_>>
local  == <<firstNewBuffer, secondNewBuffer, bufferToWrite, i>>
hist   == <<accepted, dropped>>
vars == <<system, fileVars, running_, shared, opc, bpc, local, front, aborted, hist>>

Line == 1 .. Len(accepted)
Mutex == bpc \in {"note", "write", "recycle"}    \* the back end holds mutex_

size(buffer) == Total([j \in DOMAIN buffer |-> accepted[buffer[j]]])

Init ==
    /\ LFInit
    /\ running_ = FALSE /\ buffers_ = <<>>
    /\ currentBuffer_ = <<>> /\ nextBuffer_ = <<>>
    /\ opc = "new" /\ bpc = "none"
    /\ firstNewBuffer = Null /\ secondNewBuffer = Null
    /\ bufferToWrite = <<>> /\ i = 1
    /\ t_lastSecond = [t \in Thread |-> 0] /\ t_time = [t \in Thread |-> 0]
    /\ fpc = [t \in Thread |-> "idle"] /\ line = [t \in Thread |-> Null]
    /\ aborted = FALSE
    /\ accepted = <<>> /\ dropped = {}

-----------------------------------------------------------------------------
(* A thread that logs: the whole life of a Logger up to g_outputFunc is its *)
(* own; a level that is not logged makes none.                              *)

(* Mutation: the text of the first second is kept.                          *)
FormatTimeOnce(t) ==
    /\ t_lastSecond' = [t_lastSecond EXCEPT ![t] = now]
    /\ t_time' = [t_time EXCEPT ![t] = IF t_lastSecond[t] = 0 THEN now ELSE @]

formatTime(t) ==
    IF now # t_lastSecond[t]
    THEN /\ t_lastSecond' = [t_lastSecond EXCEPT ![t] = now]
         /\ t_time' = [t_time EXCEPT ![t] = now]
    ELSE UNCHANGED <<t_lastSecond, t_time>>

Made == Len(accepted) + Cardinality({t \in Thread : fpc[t] = "append"})

(* LOG_WARN and those above it are not subject to g_logLevel.               *)
logged(level) == level >= WARN \/ g_logLevel <= level

log(t, m) ==
    /\ ~aborted /\ fpc[t] = "idle" /\ Made < MaxLines
    /\ logged(m.level)
    /\ formatTime(t)
    /\ line' = [line EXCEPT ![t] =
          [at |-> now, from |-> m,
           text |-> LET head == Logger(t_time'[t], m.level, m.error)
                    IN  finish(Streamed(head, m.items), m.line)]]
    /\ fpc' = [fpc EXCEPT ![t] = "append"]
    /\ UNCHANGED <<system, fileVars, running_, shared, opc, bpc, local,
                   aborted, hist>>

Room(new) == kLargeBuffer - size(currentBuffer_) > length(new.text)

(* Mutation: the line that found no room is not put into the new buffer.    *)
AppendForgets(new, k) ==
    IF Room(new)
    THEN /\ currentBuffer_' = Append(currentBuffer_, k)
         /\ UNCHANGED <<buffers_, nextBuffer_>>
    ELSE /\ buffers_' = Append(buffers_, currentBuffer_)
         /\ currentBuffer_' = IF nextBuffer_ # Null THEN nextBuffer_ ELSE <<>>
         /\ nextBuffer_' = Null

append_line(new, k) ==
    IF Room(new)
    THEN /\ currentBuffer_' = Append(currentBuffer_, k)
         /\ UNCHANGED <<buffers_, nextBuffer_>>
    ELSE /\ buffers_' = Append(buffers_, currentBuffer_)
         /\ currentBuffer_' = Append(IF nextBuffer_ # Null THEN nextBuffer_ ELSE <<>>, k)
         /\ nextBuffer_' = Null

(* g_outputFunc; after a FATAL one abort ends the process.                  *)
append_front(t) ==
    /\ ~aborted /\ fpc[t] = "append" /\ ~Mutex
    /\ append_line(line[t], Len(accepted) + 1)
    /\ accepted' = Append(accepted, length(line[t].text))
    /\ fpc' = [fpc EXCEPT ![t] = IF line[t].from.level = FATAL THEN "abort" ELSE "idle"]
    /\ line' = [line EXCEPT ![t] = Null]
    /\ UNCHANGED <<system, fileVars, running_, opc, bpc, local, t_lastSecond,
                   t_time, aborted, dropped>>

abort(t) ==
    /\ ~aborted /\ fpc[t] = "abort"
    /\ aborted' = TRUE
    /\ UNCHANGED <<system, fileVars, running_, shared, opc, bpc, local, front, hist>>

-----------------------------------------------------------------------------
(* The owner.                                                               *)

OwnerGoes(from, to) ==
    /\ ~aborted /\ opc = from /\ opc' = to
    /\ UNCHANGED <<system, fileVars, shared, local, front, aborted, hist>>

start ==
    /\ OwnerGoes("new", "starting")
    /\ running_' = TRUE /\ bpc' = "starting"

(* latch_.wait                                                              *)
Started ==
    /\ OwnerGoes("starting", "started")
    /\ bpc # "starting"
    /\ UNCHANGED <<running_, bpc>>

(* The destructor calls it too.  mutex_ is not taken.                       *)
stop ==
    /\ OwnerGoes("started", "joining")
    /\ running_' = FALSE /\ UNCHANGED bpc

Joined ==
    /\ OwnerGoes("joining", "stopped")
    /\ bpc = "gone"
    /\ UNCHANGED <<running_, bpc>>

-----------------------------------------------------------------------------
(* threadFunc.                                                              *)

BackEndGoes(from, to) ==
    /\ ~aborted /\ bpc = from /\ bpc' = to
    /\ UNCHANGED <<system, running_, opc, front, aborted, accepted>>

logFile ==
    /\ BackEndGoes("starting", "test")
    /\ LogFileOpens
    /\ firstNewBuffer' = <<>> /\ secondNewBuffer' = <<>>
    /\ UNCHANGED <<shared, bufferToWrite, i, dropped>>

while_running ==
    /\ BackEndGoes("test", IF running_ THEN "wait" ELSE "final")
    /\ UNCHANGED <<fileVars, shared, local, dropped>>

(* cond_.waitForSeconds ends; the buffers are swapped.                      *)
SwapBuffers ==
    LET taken == Append(buffers_, currentBuffer_) IN
    /\ buffers_' = <<>> /\ bufferToWrite' = taken
    /\ currentBuffer_' = firstNewBuffer /\ firstNewBuffer' = Null
    /\ nextBuffer_' = IF nextBuffer_ = Null THEN secondNewBuffer ELSE nextBuffer_
    /\ secondNewBuffer' = IF nextBuffer_ = Null THEN Null ELSE secondNewBuffer
    /\ i' = 1

wakes ==
    /\ BackEndGoes("wait", IF Len(buffers_) + 1 > kMaxBuffers THEN "note" ELSE "write")
    /\ SwapBuffers
    /\ UNCHANGED <<fileVars, dropped>>

(* Mutation: one buffer is left for two to be made of.                      *)
EraseTooMuch == 1

Spared == 2

(* "Dropped log message", and erase.                                        *)
note ==
    LET gone == SubSeq(bufferToWrite, Spared + 1, Len(bufferToWrite)) IN
    /\ BackEndGoes("note", "write")
    /\ appendFile(<<Note>>, NoteLen)
    /\ bufferToWrite' = SubSeq(bufferToWrite, 1, Spared)
    /\ dropped' = dropped \cup Range(FlattenSeq(gone))
    /\ UNCHANGED <<shared, firstNewBuffer, secondNewBuffer, i>>

write ==
    /\ BackEndGoes("write", IF i = Len(bufferToWrite) THEN "recycle" ELSE "write")
    /\ appendFile(bufferToWrite[i], size(bufferToWrite[i]))
    /\ i' = i + 1
    /\ UNCHANGED <<shared, firstNewBuffer, secondNewBuffer, bufferToWrite, dropped>>

(* FixedBuffer::reset                                                       *)
reset == <<>>

(* resize(2), the last two buffers reset and kept, clear.                   *)
Spares ==
    LET two  == IF Len(bufferToWrite) > 2 THEN 2 ELSE Len(bufferToWrite)
        left == two - IF firstNewBuffer = Null THEN 1 ELSE 0
    IN  /\ firstNewBuffer' = IF firstNewBuffer = Null /\ two > 0 THEN reset ELSE firstNewBuffer
        /\ secondNewBuffer' = IF secondNewBuffer = Null /\ left > 0 THEN reset ELSE secondNewBuffer
        /\ bufferToWrite' = <<>> /\ i' = 1

(* Mutation: only the end of threadFunc flushes.                            *)
RecycleUnflushed ==
    /\ BackEndGoes("recycle", "test")
    /\ Spares
    /\ UNCHANGED <<fileVars, shared, dropped>>

(* The end of a turn, with its flush.                                       *)
recycle ==
    /\ BackEndGoes("recycle", "test")
    /\ Spares
    /\ flush
    /\ UNCHANGED <<shared, dropped>>

(* The last flush; logFile's destructor closes the file.                    *)
threadEnds ==
    /\ BackEndGoes("final", "gone")
    /\ flush
    /\ UNCHANGED <<shared, local, dropped>>

-----------------------------------------------------------------------------
(* The system: the clock, which may be set back, and the disk, of which     *)
(* nothing is asked while the back end waits.                               *)

System ==
    /\ ~aborted
    /\ \/ tick < Len(Clock) /\ tick' = tick + 1 /\ UNCHANGED diskFull
       \/ (Mutex \/ bpc = "final") /\ ~diskFull /\ diskFull' = TRUE /\ UNCHANGED tick
    /\ UNCHANGED <<fileVars, running_, shared, opc, bpc, local, front, aborted, hist>>

FrontEnd(t) == (\E m \in Messages[t] : log(t, m)) \/ append_front(t) \/ abort(t)

Owner == start \/ Started \/ stop \/ Joined

BackEnd ==
    logFile \/ while_running \/ wakes \/ note \/ write \/ recycle \/ threadEnds

Next == Owner \/ BackEnd \/ System \/ \E t \in Thread : FrontEnd(t)

(* Threads that can run do, and the wait has an end.  Nobody has to log, to *)
(* start or to stop, and the disk need not get room: start and stop go on   *)
(* once they have been called, and a logger may run for ever.               *)
Fairness ==
    /\ WF_vars(BackEnd) /\ WF_vars(Started \/ Joined)
    /\ \A t \in Thread : WF_vars(append_front(t) \/ abort(t))

Spec == Init /\ [][Next]_vars /\ Fairness

-----------------------------------------------------------------------------
(* Properties.                                                              *)

Buffer == Seq(Line)

(* A front end always has a buffer, the back end always finds one to write  *)
(* and enough of them to make its two spare ones of, empty at the next      *)
(* turn: the asserts at AsyncLogging.cpp:65, 76-78, 91, 107 and 114.  No    *)
(* buffer holds more than it has room for.                                  *)
TypeOK ==
    /\ LFTypeOK(Line \cup {Note})
    /\ running_ \in BOOLEAN /\ aborted \in BOOLEAN
    /\ opc \in {"new", "starting", "started", "joining", "stopped"}
    /\ bpc \in {"none", "starting", "test", "wait", "note", "write", "recycle",
                "final", "gone"}
    /\ buffers_ \in Seq(Buffer) /\ bufferToWrite \in Seq(Buffer)
    /\ currentBuffer_ \in Buffer /\ nextBuffer_ \in {Null, <<>>}
    /\ firstNewBuffer \in {Null, <<>>} /\ secondNewBuffer \in {Null, <<>>}
    /\ \A b \in Range(Append(buffers_ \o bufferToWrite, currentBuffer_)) :
          size(b) < kLargeBuffer
    /\ bpc = "starting" => running_
    /\ bpc \in {"test", "wait"} =>
          firstNewBuffer = <<>> /\ secondNewBuffer = <<>> /\ bufferToWrite = <<>>
    /\ bpc = "write" => i \in DOMAIN bufferToWrite
    /\ bpc = "recycle" =>
          bufferToWrite # <<>> /\ (secondNewBuffer = Null => Len(bufferToWrite) > 1)
    /\ \A t \in Thread : fpc[t] \in {"idle", "append", "abort"}
    /\ \A t \in Thread : fpc[t] # "append" => line[t] = Null
    /\ dropped \subseteq Line

(* Nothing is lost, doubled or turned round between append and the files:   *)
(* the files, what is being written, and the buffers hold, in that order,   *)
(* every line appended but those the back end dropped, in their order.      *)
Unwritten ==
    CASE bpc \in {"note", "write"} -> SubSeq(bufferToWrite, i, Len(bufferToWrite))
      [] OTHER -> <<>>

Held == content \o FlattenSeq(Append(Unwritten \o buffers_, currentBuffer_))

Complete ==
    /\ Range(Held) \ {Note} = Line \ dropped
    /\ \A j, k \in DOMAIN Held :
          j < k /\ Note \notin {Held[j], Held[k]} => Held[j] < Held[k]

(* The numbers a line is to show.                                           *)
Asked(items) ==
    LET upTo[n \in 0 .. Len(items)] ==
            IF n = 0 THEN <<>>
            ELSE IF items[n].kind \notin {"number", "pointer"} THEN upTo[n - 1]
                 ELSE Append(upTo[n - 1], items[n].value)
    IN  upTo[Len(items)]

Wanted(m) ==
    (IF m.error = 0 THEN <<>> ELSE <<m.error>>) \o Asked(m.items) \o <<m.line>>

(* A line shows the second it was made in, though the thread's last one is  *)
(* kept and the clock may be set back, and its numbers read as they were    *)
(* given, the least int included.  A line that would not fill its buffer is *)
(* complete; a longer one lacks pieces but is within the buffer, with room  *)
(* for a NUL.                                                               *)
LineRight(l) ==
    /\ length(l.text) < kSmallBuffer
    /\ l.text[1].time = l.at
    /\ Range(Shown(l.text)) \subseteq Range(Wanted(l.from))
    /\ length(l.text) <= kSmallBuffer - kMaxNumbericSize =>
          Shown(l.text) = Wanted(l.from)

LinesRight ==
    \A t \in Thread : fpc[t] = "append" => LineRight(line[t])

(* What is in the buffers when the back end waits is on the disk in the     *)
(* end, or dropped and told of, whether the logger is stopped, even before  *)
(* the wait is over, or runs for ever and only the flush of each turn puts  *)
(* it there; and stop returns.  An abort or a full disk is in the way.      *)
Hopeless == aborted \/ diskFull

BackEndDelivers ==
    /\ \A k \in 1 .. MaxLines :
          (bpc = "wait" /\ k <= Len(accepted)) ~> (k \in OnDisk \cup dropped \/ Hopeless)
    /\ (opc = "joining") ~> (opc = "stopped" \/ Hopeless)
=============================================================================
