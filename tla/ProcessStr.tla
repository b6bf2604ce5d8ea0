------------------------------ MODULE ProcessStr ------------------------------
(***************************************************************************)
(* ser2net's template expander (dataxfer.c): process_str, which walks a    *)
(* banner, open-string, close-string or trace-file template and hands each *)
(* output byte to a callback, and process_str_to_str / process_str_to_buf, *)
(* which run it twice: count_op sizes a malloc'd buffer, buffer_op fills   *)
(* it.  Beside it, SpecStr expands a template as the escape table of the   *)
(* specification describes.                                                *)
(*                                                                         *)
(* A template and an expansion are sequences of one-character strings.     *)
(* A byte given by its code (a C or numeric escape) is ByteChar(code).     *)
(* The context is a record: devname, portname and serparms (what           *)
(* serparm_to_str writes) as character sequences; tm, the struct tm of     *)
(* localtime_r; tv, the struct timeval; peerIp, the peer's numeric         *)
(* address.  Month and weekday names are one token each.                   *)
(***************************************************************************)
EXTENDS Naturals, Sequences, SequencesExt, TLC

DigitChars == <<"0", "1", "2", "3", "4", "5", "6", "7", "8", "9">>
Digits == Range(DigitChars)                           \* isdigit
OctChars == {DigitChars[i] : i \in 1..8}              \* case '0' ... '7'
HexLetters == [c \in {"a", "b", "c", "d", "e", "f", "A", "B", "C", "D", "E",
                      "F"} |-> CASE c \in {"a", "A"} -> 10 [] c \in {"b", "B"} -> 11
                                 [] c \in {"c", "C"} -> 12 [] c \in {"d", "D"} -> 13
                                 [] c \in {"e", "E"} -> 14 [] c \in {"f", "F"} -> 15]
XDigits == Digits \cup DOMAIN HexLetters             \* isxdigit

\* c - '0' for a decimal digit.
DigitVal(c) == CHOOSE i \in 0..9 : DigitChars[i + 1] = c

\* from_hex_digit: 0 for a character that is not a hex digit.
FromHexDigit(c) ==
    IF c \in Digits THEN DigitVal(c)
    ELSE IF c \in DOMAIN HexLetters THEN HexLetters[c] ELSE 0

\* The byte with code v.
ByteChar(v) == IF v \in 48..57 THEN DigitChars[v - 47] ELSE "#" \o ToString(v)

\* A byte of malloc'd or stack memory that nothing wrote.
Uninit == "~"

\* snprintf "%d" of a non-negative number, and "%w.wd" (at least w digits).
RECURSIVE Itoa(_)
Itoa(n) == IF n < 10 THEN <<DigitChars[n + 1]>>
           ELSE Itoa(n \div 10) \o <<DigitChars[(n % 10) + 1]>>
Pad(n, w) == LET d == Itoa(n)
             IN [i \in 1..(w - Len(d)) |-> "0"] \o d

Months == <<"Jan", "Feb", "Mar", "Apr", "May", "Jun",
            "Jul", "Aug", "Sep", "Oct", "Nov", "Dec">>          \* smonths
Days == <<"Sun", "Mon", "Tue", "Wed", "Thu", "Fri", "Sat">>    \* sdays

\* The standard C escapes.
CEscapes == ("a" :> 7) @@ ("b" :> 8) @@ ("f" :> 12) @@ ("n" :> 10)
            @@ ("r" :> 13) @@ ("t" :> 9) @@ ("v" :> 11) @@ ("\\" :> 92)
            @@ ("?" :> 63) @@ ("'" :> 39) @@ ("\"" :> 34)

\* strrchr(devname, '/') + 1, or the whole name without a '/'.
Basename(s) ==
    LET slashes == {i \in 1..Len(s) : s[i] = "/"}
    IN IF slashes = {} THEN s ELSE SubSeq(s, Max(slashes) + 1, Len(s))

\* \h: the hour on a 12-hour clock.
Hour12(h) == IF h = 0 THEN 12 ELSE IF h > 12 THEN h - 12 ELSE h

(* What process_str emits for the escape \c, other than a numeric one.    *)
(* ip is what the \I case emits: getnameinfo's success makes it break     *)
(* before the loop that copies ip[], so it is << >> on success and the    *)
(* uninitialized ip[] up to its first NUL on failure.                     *)
Escape(c, ctx, ip, isfilename) ==
    CASE c \in DOMAIN CEscapes -> <<ByteChar(CEscapes[c])>>
      [] c = "d" -> IF isfilename THEN Basename(ctx.devname) ELSE ctx.devname
      [] c = "p" -> ctx.portname
      [] c = "s" -> IF isfilename THEN Pad(ctx.tm.sec, 2) ELSE ctx.serparms
      [] c = "B" -> ctx.serparms
      [] c = "Y" -> Itoa(ctx.tm.year + 1900)
      [] c = "y" -> Itoa(ctx.tm.yday)
      [] c = "M" -> IF ctx.tm.mon >= 12 THEN <<"?">> ELSE <<Months[ctx.tm.mon + 1]>>
      [] c = "m" -> Itoa(ctx.tm.mon)
      [] c = "A" -> IF ctx.tm.wday >= 7 THEN <<"?">> ELSE <<Days[ctx.tm.wday + 1]>>
      [] c = "D" -> Itoa(ctx.tm.mday)
      [] c = "H" -> Pad(ctx.tm.hour, 2)
      [] c = "h" -> Pad(Hour12(ctx.tm.hour), 2)
      [] c = "i" -> Pad(ctx.tm.min, 2)
      [] c = "S" -> Pad(ctx.tm.sec, 2)
      [] c = "q" -> <<IF ctx.tm.hour < 12 THEN "a" ELSE "p", "m">>
      [] c = "P" -> <<IF ctx.tm.hour < 12 THEN "A" ELSE "P", "M">>
      [] c = "T" -> Pad(ctx.tm.hour, 2) \o <<":">> \o Pad(ctx.tm.min, 2)
                      \o <<":">> \o Pad(ctx.tm.sec, 2)
      [] c = "e" -> Itoa(ctx.tv.sec)
      [] c = "U" -> Pad(ctx.tv.usec, 6)
      [] c = "I" -> ip
      [] OTHER -> <<c>>

(***************************************************************************)
(* process_str's loop.  After a backslash at the end it returns.  A       *)
(* numeric escape emits its byte only when the template ends right after  *)
(* its first or second digit: a non-digit after a digit is a `continue`,  *)
(* which drops the value and goes on from that character, and the third   *)
(* octal (second hex) digit ends the case with `break` and no op call.    *)
(***************************************************************************)
RECURSIVE ProcessStr(_, _, _, _), Octal(_, _, _, _, _), Hex(_, _, _, _),
          OctalNoLastOp(_, _, _, _, _)

ProcessStr(s, ctx, ip, isfilename) ==
    IF s = << >> THEN << >>
    ELSE IF Head(s) # "\\"
    THEN <<Head(s)>> \o ProcessStr(Tail(s), ctx, ip, isfilename)
    ELSE IF Len(s) = 1 THEN << >>
    ELSE LET c == s[2]
             rest == SubSeq(s, 3, Len(s))
         IN CASE c \in OctChars -> Octal(DigitVal(c), rest, ctx, ip, isfilename)
              [] c = "x" -> Hex(rest, ctx, ip, isfilename)
              [] OTHER -> Escape(c, ctx, ip, isfilename)
                            \o ProcessStr(rest, ctx, ip, isfilename)

\* Mutant: a second octal digit that ends the template is not emitted.
OctalNoLastOp(val, r, ctx, ip, isfilename) ==
    IF r = << >> THEN <<ByteChar(val)>>
    ELSE IF Head(r) \notin Digits THEN ProcessStr(r, ctx, ip, isfilename)
    ELSE IF Tail(r) = << >> THEN << >>
    ELSE IF Head(Tail(r)) \notin Digits THEN ProcessStr(Tail(r), ctx, ip, isfilename)
    ELSE ProcessStr(Tail(Tail(r)), ctx, ip, isfilename)

\* case '0' ... '7', with val the first digit's value and r what follows it.
Octal(val, r, ctx, ip, isfilename) ==
    IF r = << >> THEN <<ByteChar(val)>>
    ELSE IF Head(r) \notin Digits THEN ProcessStr(r, ctx, ip, isfilename)
    ELSE LET val2 == val * 8 + DigitVal(Head(r))
             r2 == Tail(r)
         IN IF r2 = << >> THEN <<ByteChar(val2)>>
            ELSE IF Head(r2) \notin Digits THEN ProcessStr(r2, ctx, ip, isfilename)
            ELSE ProcessStr(Tail(r2), ctx, ip, isfilename)

\* case 'x', with r what follows the x.
Hex(r, ctx, ip, isfilename) ==
    IF r = << >> THEN << >>
    ELSE IF Head(r) \notin XDigits THEN ProcessStr(r, ctx, ip, isfilename)
    ELSE LET val == FromHexDigit(Head(r))
             r2 == Tail(r)
         IN IF r2 = << >> THEN <<ByteChar(val)>>
            ELSE IF Head(r2) \notin Digits THEN ProcessStr(r2, ctx, ip, isfilename)
            ELSE ProcessStr(Tail(r2), ctx, ip, isfilename)

(***************************************************************************)
(* The expander the specification describes: \NNN is an octal byte of     *)
(* one to three digits, \xNN a hex byte of one or two, \I the peer's      *)
(* address, and every other escape as process_str has it.                 *)
(***************************************************************************)
\* The longest prefix of s, at most n long, of elements of S.
LeadIn(s, S, n) ==
    LET k == Max({i \in 0..Min({n, Len(s)}) : \A j \in 1..i : s[j] \in S})
    IN SubSeq(s, 1, k)

NumVal(digits, base) == FoldLeft(LAMBDA v, d : v * base + FromHexDigit(d), 0, digits)

RECURSIVE SpecStr(_, _, _)
SpecStr(s, ctx, isfilename) ==
    IF Len(s) < 2 THEN (IF s = <<"\\">> THEN << >> ELSE s)
    ELSE IF Head(s) # "\\" THEN <<Head(s)>> \o SpecStr(Tail(s), ctx, isfilename)
    ELSE LET c == s[2]
             rest == SubSeq(s, 3, Len(s))
             oct == LeadIn(Tail(s), OctChars, 3)
             hex == LeadIn(rest, XDigits, 2)
         IN CASE c \in OctChars ->
                   <<ByteChar(NumVal(oct, 8) % 256)>>
                     \o SpecStr(SubSeq(s, 2 + Len(oct), Len(s)), ctx, isfilename)
              [] c = "x" ->
                   (IF hex = << >> THEN << >> ELSE <<ByteChar(NumVal(hex, 16))>>)
                     \o SpecStr(SubSeq(rest, Len(hex) + 1, Len(rest)), ctx, isfilename)
              [] OTHER -> Escape(c, ctx, ctx.peerIp, isfilename)
                            \o SpecStr(rest, ctx, isfilename)

(***************************************************************************)
(* process_str_to_str with a length (process_str_to_buf): count_op counts *)
(* the bytes, malloc takes that many, buffer_op writes them, and the      *)
(* result is a buffer of the counted length.  The two passes run the \I   *)
(* case separately (ip1, ip2): where the second emits fewer bytes the     *)
(* tail is never written, where it emits more they land past the buffer.  *)
(***************************************************************************)
ProcessStrToBuf(s, ctx, ip1, ip2) ==
    LET len == Len(ProcessStr(s, ctx, ip1, FALSE))
        out == ProcessStr(s, ctx, ip2, FALSE)
    IN [i \in 1..len |-> IF i <= Len(out) THEN out[i] ELSE Uninit]
==============================================================================
