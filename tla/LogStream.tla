------------------------------ MODULE LogStream ------------------------------
(***************************************************************************)
(* What RN::LogStream writes into its FixedBuffer, and the text Logger     *)
(* makes with it.  A text is a sequence of pieces, one for each operator<< *)
(* that found room: a piece goes in whole or, without a word, not at all.  *)
(* Of a string only its length matters; a number is kept digit by digit.   *)
(***************************************************************************)
EXTENDS Integers, Sequences

CONSTANTS
    kSmallBuffer,     \* bytes of a LogStream's buffer, 4000
    kMaxNumbericSize, \* room asked for before a number is converted, 32
    Bits,             \* of the widest integer and of a pointer, 64
    g_logLevel,
    HeaderLen,        \* bytes of the time, the thread's id and the level
    FuncLen, FileLen, \* of __func__ and of the file's name
    StrErrorLen       \* of what strerror_r says

(* LogLevel *)
TRACE == 0
DEBUG == 1
INFO  == 2
WARN  == 3
ERROR == 4
FATAL == 5

(* What initLogLevel can return.                                            *)
initLogLevel == {TRACE, DEBUG, INFO}

(* Folds are recursive functions here: the prover knows neither ^ nor what  *)
(* a fold of an operator is.                                                *)
Power(base, e) ==
    LET upTo[n \in 0 .. e] == IF n = 0 THEN 1 ELSE base * upTo[n - 1]
    IN  upTo[e]

Total(w) ==
    LET upTo[n \in 0 .. Len(w)] == IF n = 0 THEN 0 ELSE upTo[n - 1] + w[n]
    IN  upTo[Len(w)]

Int_t     == -Power(2, Bits - 1) .. Power(2, Bits - 1) - 1
uintptr_t == 0 .. Power(2, Bits) - 1

(* The room asked for is enough for every type, a static_assert: digits10,  *)
(* how many nines a value can have, is less than kMaxNumbericSize - 10.     *)
staticCheck == Power(10, kMaxNumbericSize - 10) - 1 \notin Int_t

ASSUME LogStreamAssumption ==
    /\ kSmallBuffer \in Nat /\ Bits \in Nat \ {0}
    /\ kMaxNumbericSize \in Nat /\ kMaxNumbericSize > 10 /\ staticCheck
    /\ g_logLevel \in initLogLevel
    /\ {HeaderLen, FuncLen, FileLen, StrErrorLen} \subseteq Nat
    /\ HeaderLen < kSmallBuffer

(* What a Logger may be given to make a line of.                            *)
Item == [kind : {"string"}, len : Nat] \cup [kind : {"number"}, value : Int_t]
          \cup [kind : {"pointer"}, value : uintptr_t]
          \cup [kind : {"double"}, len : 0 .. kMaxNumbericSize - 1]
Message == [level : TRACE .. FATAL, error : Int_t, items : Seq(Item), line : Int_t]

length(text) == Total([j \in DOMAIN text |-> text[j].len])
avail(text)  == kSmallBuffer - length(text)

(* FixedBuffer::append leaves at least one byte free.                       *)
append(text, piece) ==
    IF avail(text) > piece.len THEN Append(text, piece) ELSE text

String(len) == [kind |-> "string", len |-> len]

-----------------------------------------------------------------------------
(* convert and convertHex: the digits of i % base while i /= base goes on,  *)
(* turned round.  % and / truncate towards zero, and zero[lsd] looks a      *)
(* negative remainder up in the left half of "9876543210123456789", so that *)
(* no value has to be negated.                                              *)

Quotient(i, base) == IF i >= 0 THEN i \div base ELSE -((-i) \div base)
Remainder(i, base) == i - base * Quotient(i, base)
zero(lsd) == IF lsd >= 0 THEN lsd ELSE -lsd

Digits(value, base) ==
    LET digits[i \in -zero(value) .. zero(value)] ==
            LET last == zero(Remainder(i, base)) IN
            IF Quotient(i, base) = 0 THEN <<last>>
            ELSE Append(digits[Quotient(i, base)], last)
    IN  digits[value]

Converted(value, base, minus, prefix) ==
    LET digits == Digits(value, base) IN
    [kind |-> "number", base |-> base, minus |-> minus, digits |-> digits,
     len |-> prefix + Len(digits)]

(* Mutation: the sign is that of i, which the loop has left at zero.        *)
ConvertUnsigned(value) == Converted(value, 10, FALSE, 0)

convert(value) == Converted(value, 10, value < 0, IF value < 0 THEN 1 ELSE 0)

(* With the "0x" before it.                                                 *)
convertHex(value) == Converted(value, 16, FALSE, 2)

(* The number is written where the buffer ends, with a NUL behind it.       *)
Roomy(text) == avail(text) >= kMaxNumbericSize

formatInteger(text, value) == IF Roomy(text) THEN Append(text, convert(value)) ELSE text
formatPointer(text, value) == IF Roomy(text) THEN Append(text, convertHex(value)) ELSE text
formatDouble(text, len)    == IF Roomy(text) THEN Append(text, String(len)) ELSE text

-----------------------------------------------------------------------------
(* Logger: its constructors, what the user streams, and its destructor.     *)

Stream(text, item) ==
    CASE item.kind = "string"  -> append(text, item)
      [] item.kind = "number"  -> formatInteger(text, item.value)
      [] item.kind = "pointer" -> formatPointer(text, item.value)
      [] item.kind = "double"  -> formatDouble(text, item.len)

Streamed(text, items) ==
    LET upTo[n \in 0 .. Len(items)] ==
            IF n = 0 THEN text ELSE Stream(upTo[n - 1], items[n])
    IN  upTo[Len(items)]

put(text, len) == append(text, String(len))

(* Impl::Impl: LengthChecker keeps the lengths fixed; the error's text, and *)
(* "(errno=" and ") " around its number.                                    *)
Header(second) == [kind |-> "header", time |-> second, len |-> HeaderLen]

Impl(second, savedError) ==
    LET head == append(<<>>, Header(second))
    IN  IF savedError = 0 THEN head
        ELSE put(formatInteger(put(put(head, StrErrorLen), 7), savedError), 2)

(* The function's name up to INFO; errno only with LOG_SYSERR and -FATAL.   *)
Logger(second, level, savedError) ==
    LET text == Impl(second, savedError)
    IN  IF level <= INFO THEN put(put(text, FuncLen), 1) ELSE text

(* finish: " - ", the file's name, ':', the line's number, '\n'.            *)
finish(text, line) ==
    put(formatInteger(put(put(put(text, 3), FileLen), 1), line), 1)

(* What a reader makes of a number, and the numbers in a text.              *)
Magnitude(digits, base) ==
    LET upTo[n \in 0 .. Len(digits)] ==
            IF n = 0 THEN 0 ELSE upTo[n - 1] * base + digits[n]
    IN  upTo[Len(digits)]

ReadBack(piece) ==
    LET magnitude == Magnitude(piece.digits, piece.base)
    IN  IF piece.minus THEN -magnitude ELSE magnitude

Shown(text) ==
    LET upTo[n \in 0 .. Len(text)] ==
            IF n = 0 THEN <<>>
            ELSE IF text[n].kind # "number" THEN upTo[n - 1]
                 ELSE Append(upTo[n - 1], ReadBack(text[n]))
    IN  upTo[Len(text)]
=============================================================================
