----------------------------- MODULE MCLogging ------------------------------
(* Two threads; lines with the least int, lines in which a string and the   *)
(* line's number find no room, and a FATAL one whose last number just does. *)
(* Two lines of the first kind fill a buffer and one of the second.  The    *)
(* DEBUG line is below g_logLevel and never made.                           *)
EXTENDS AsyncLogging
CONSTANTS t1, t2
Number(value)  == [kind |-> "number", value |-> value]
Pointer(value) == [kind |-> "pointer", value |-> value]
Double(len)    == [kind |-> "double", len |-> len]
Info  == [level |-> INFO, error |-> 0, items |-> <<Number(-16), Double(3)>>, line |-> 7]
Warn  == [level |-> WARN, error |-> 0, line |-> 8,
          items |-> <<String(25), Pointer(31), String(30)>>]
SysFatal == [level |-> FATAL, error |-> 11, items |-> <<String(10)>>, line |-> 9]
Debug == [level |-> DEBUG, error |-> 0, items |-> <<Number(0)>>, line |-> 6]
MCMessages == [t \in {t1, t2} |-> IF t = t1 THEN {Info, Warn} ELSE {SysFatal, Debug}]
MCClock == <<2, 3>>
=============================================================================
