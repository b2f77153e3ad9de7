------------------------------ MODULE Printfmt ------------------------------
(***************************************************************************)
(* lib/printfmt.c: vprintfmt, which walks a format string by one character *)
(* at a time with its flags in local variables, and what has it print:     *)
(* vsnprintf, into a buffer of limited size, and cprintf of kern/printf.c, *)
(* to the console.                                                         *)
(*                                                                         *)
(* Characters are atoms, "NUL" ends a string; the text of an error message *)
(* is one atom.  An argument is a record of its number and of its string,  *)
(* whichever it is; a character is a string of one.                        *)
(***************************************************************************)
EXTENDS Integers, SequencesExt, Powers

CONSTANTS
  Printfs,    \* the calls made: [fmt, args, parts, rest], see the properties for parts
  INT,        \* values of an int and of a long (2^32)
  LONGLONG,   \* values of a long long (2^64)
  BUFSIZES    \* sizes passed to vsnprintf, for a buffer that is not NULL

NULL == <<"NULL">>
\* The texts that the error codes 1 .. 6 have.
error_string == <<"unspecified error", "bad environment", "invalid parameter",
                  "out of memory", "out of environments", "segmentation fault">>

DigitChars == <<"0", "1", "2", "3", "4", "5", "6", "7", "8", "9", "a", "b", "c", "d", "e", "f">>
DigitChar(d) == DigitChars[d + 1]
IsDigit(ch) == \E d \in 0 .. 9 : ch = DigitChar(d)
ValueOf(ch) == CHOOSE d \in 0 .. 9 : ch = DigitChar(d)

\* The characters and texts that a directive or what is printed of it is made of.
Atoms == {DigitChars[k] : k \in 1 .. 16} \cup {error_string[k] : k \in 1 .. 6}
         \cup {" ", "-", "#", ".", "*", "l", "%", "x", "?", "(", "n", "u", ")", "error "}

ASSUME PrintfmtAssumption ==
  /\ INT \in Nat \ {0} /\ LONGLONG \in Nat \ {0}
  /\ BUFSIZES \subseteq Int
  /\ Atoms \subseteq STRING

VARIABLES
  printf,     \* the printf being made
  fmt, ap,    \* how many characters and arguments have been taken
  mode,       \* "start", "text", "switch", "number", "done"
  padc, width, precision, lflag, altflag,
  via,        \* "vsnprintf" or "cprintf"
  sink,       \* struct sprintbuf: [n, buf, pos, cnt]; n is the size passed.  For cprintf,
              \* cnt is its variable of that name, and the buffer is not there.
  out,        \* history: what has been given to putch
  returned

flags == <<padc, width, precision, lflag, altflag>>
printVars == <<printf, via, fmt, ap, mode, flags, sink, out, returned>>

\* The character fmt points to, and the argument ap points to.
ch == IF fmt < Len(printf.fmt) THEN printf.fmt[fmt + 1] ELSE "NUL"
va_arg == printf.args[ap + 1]

-----------------------------------------------------------------------------
\* What sprintputch does with the characters s, one after the other: it stores those
\* there is room for before the last byte, and counts them all.
\* Mutant: only those stored are counted.
sprintputch_counts_kept(b, s) ==
  LET room == b.n - 1 - b.pos
      kept == IF Len(s) < room THEN Len(s) ELSE room
  IN  [n |-> b.n,
       buf |-> [k \in DOMAIN b.buf |-> IF k - b.pos \in 0 .. kept - 1 THEN s[k - b.pos + 1] ELSE b.buf[k]],
       pos |-> b.pos + kept, cnt |-> b.cnt + kept]
\* Mutant: the byte for the NUL is filled as well.
sprintputch_fills(b, s) ==
  LET room == b.n - b.pos
      kept == IF Len(s) < room THEN Len(s) ELSE room
  IN  [n |-> b.n,
       buf |-> [k \in DOMAIN b.buf |-> IF k - b.pos \in 0 .. kept - 1 THEN s[k - b.pos + 1] ELSE b.buf[k]],
       pos |-> b.pos + kept, cnt |-> b.cnt + Len(s)]
sprintputch(b, s) ==
  LET room == b.n - 1 - b.pos
      kept == IF Len(s) < room THEN Len(s) ELSE room
  IN  [n |-> b.n,
       buf |-> [k \in DOMAIN b.buf |-> IF k - b.pos \in 0 .. kept - 1 THEN s[k - b.pos + 1] ELSE b.buf[k]],
       pos |-> b.pos + kept, cnt |-> b.cnt + Len(s)]

\* printf.c's putch hands the characters to cputchar.  It counts up its pointer to the
\* count, and not the count.
putch(s) ==
  /\ out' = out \o s
  /\ sink' = IF via = "vsnprintf" THEN sprintputch(sink, s) ELSE sink

Repeat(c, n) == IF n > 0 THEN [k \in 1 .. n |-> c] ELSE <<>>

\* printnum, for one base, padding character and number.
printnum(num, base, w, c) ==
  LET pn[x \in Nat \X Int] ==   \* of what is left of the number and of the width
        (IF x[1] >= base THEN pn[<<x[1] \div base, x[2] - 1>>] ELSE Repeat(c, x[2] - 1))
        \o <<DigitChar(x[1] % base)>>
  IN  pn[<<num, w>>]

-----------------------------------------------------------------------------
(* The text between directives, and the end. *)

TextChar ==
  /\ mode = "text" /\ ch \notin {"%", "NUL"}
  /\ putch(<<ch>>)
  /\ fmt' = fmt + 1
  /\ UNCHANGED <<printf, via, ap, mode, flags, returned>>

\* vsnprintf terminates the buffer; both return the count.
Finish ==
  /\ mode = "text" /\ ch = "NUL"
  /\ sink' = IF via = "vsnprintf" THEN [sink EXCEPT !.buf[sink.pos] = "NUL"] ELSE sink
  /\ returned' = sink.cnt
  /\ mode' = "done"
  /\ UNCHANGED <<printf, via, fmt, ap, flags, out>>

\* vsnprintf has been given no room, not even for the NUL.
\* Mutant: a size of 0 is not noticed.
NoRoom_negative == mode = "start" /\ via = "vsnprintf" /\ sink.n < 0
NoRoom == mode = "start" /\ via = "vsnprintf" /\ sink.n < 1

E_INVAL == 3
Refuse ==
  /\ NoRoom
  /\ returned' = -E_INVAL
  /\ mode' = "done"
  /\ UNCHANGED <<printf, via, fmt, ap, flags, sink, out>>

StartFormat ==
  /\ mode = "start" /\ ~NoRoom
  /\ mode' = "text"
  /\ UNCHANGED <<printf, via, fmt, ap, flags, sink, out, returned>>

\* Mutant: the flags of the directive before are still set.
Percent_keeps_flags ==
  /\ mode = "text" /\ ch = "%"
  /\ mode' = "switch" /\ fmt' = fmt + 1
  /\ width' = -1 /\ precision' = -1
  /\ UNCHANGED <<printf, via, ap, padc, lflag, altflag, sink, out, returned>>
Percent ==
  /\ mode = "text" /\ ch = "%"
  /\ mode' = "switch" /\ fmt' = fmt + 1
  /\ padc' = " " /\ width' = -1 /\ precision' = -1 /\ lflag' = 0 /\ altflag' = FALSE
  /\ UNCHANGED <<printf, via, ap, sink, out, returned>>

-----------------------------------------------------------------------------
(* The cases of the switch that go on to reswitch. *)

Flag ==
  /\ mode = "switch" /\ ch \in {"-", "0", "#", "l", "."}
  /\ padc' = IF ch \in {"-", "0"} THEN ch ELSE padc
  /\ altflag' = (altflag \/ ch = "#")
  /\ lflag' = IF ch = "l" THEN lflag + 1 ELSE lflag
  /\ width' = IF ch = "." /\ width < 0 THEN 0 ELSE width
  /\ fmt' = fmt + 1
  /\ UNCHANGED <<printf, via, ap, mode, precision, sink, out, returned>>

\* process_precision with the number p: it is the width, if there was none so far.
ProcessPrecision(p) ==
  IF width < 0 THEN width' = p /\ precision' = -1 ELSE width' = width /\ precision' = p

FirstDigit ==
  /\ mode = "switch" /\ IsDigit(ch) /\ ch # "0"
  /\ precision' = ValueOf(ch)
  /\ mode' = "number" /\ fmt' = fmt + 1
  /\ UNCHANGED <<printf, via, ap, padc, width, lflag, altflag, sink, out, returned>>

NextDigit ==
  /\ mode = "number" /\ IsDigit(ch)
  /\ precision' = precision * 10 + ValueOf(ch)
  /\ fmt' = fmt + 1
  /\ UNCHANGED <<printf, via, ap, mode, padc, width, lflag, altflag, sink, out, returned>>

\* Mutant: once it has been processed, the number is looked at again.
NumberEnds_again ==
  /\ mode = "number" /\ ~IsDigit(ch)
  /\ ProcessPrecision(precision)
  /\ UNCHANGED <<printf, via, fmt, ap, mode, padc, lflag, altflag, sink, out, returned>>
NumberEnds ==
  /\ mode = "number" /\ ~IsDigit(ch)
  /\ ProcessPrecision(precision)
  /\ mode' = "switch"
  /\ UNCHANGED <<printf, via, fmt, ap, padc, lflag, altflag, sink, out, returned>>

Star ==
  /\ mode = "switch" /\ ch = "*"
  /\ ProcessPrecision(va_arg.num)
  /\ ap' = ap + 1 /\ fmt' = fmt + 1
  /\ UNCHANGED <<printf, via, mode, padc, lflag, altflag, sink, out, returned>>

-----------------------------------------------------------------------------
(* The conversions. *)

Modulus == IF lflag >= 2 THEN LONGLONG ELSE INT

\* What getuint makes of a number, and %d of a negative one: its sign, its size.
getuint(v) == v % Modulus
Signed(v) == IF v < 0 THEN <<"-">> ELSE <<>>
Magnitude(v) == IF v < 0 THEN -v ELSE v

NumberText(v) ==
  CASE ch = "d" -> Signed(v) \o printnum(Magnitude(v), 10, width, padc)
    [] ch = "u" -> printnum(getuint(v), 10, width, padc)
    [] ch = "o" -> printnum(getuint(v), 8, width, padc)
    [] ch = "x" -> printnum(getuint(v), 16, width, padc)
    [] ch = "p" -> <<"0", "x">> \o printnum(v % INT, 16, width, padc)

Shown(s) ==
  [k \in DOMAIN s |-> IF altflag /\ s[k] \in {"CTRL", "HIGH"} THEN "?" ELSE s[k]]
String(v) ==
  LET s == IF v = NULL THEN <<"(", "n", "u", "l", "l", ")">> ELSE v
      n == IF precision >= 0 /\ precision < Len(s) THEN precision ELSE Len(s)
      pad == IF padc = "-" THEN <<>> ELSE Repeat(padc, width - n)
  IN  pad \o Shown(SubSeq(s, 1, n)) \o (IF padc = "-" THEN Repeat(" ", width - n) ELSE <<>>)

\* The least int has no positive counterpart and would index outside the table.
Error(v) ==
  LET err == IF v < 0 THEN -v ELSE v IN
  IF err \in DOMAIN error_string THEN <<error_string[err]>>
  ELSE <<"error ">> \o printnum(err, 10, -1, " ")

Converted(v) ==
  CASE ch \in {"d", "u", "o", "x", "p"} -> NumberText(v.num)
    [] ch = "s" -> String(v.str)
    [] ch = "c" -> v.str
    [] ch = "e" -> Error(v.num)

Conversion ==
  /\ mode = "switch" /\ ch \in {"d", "u", "o", "x", "p", "s", "c", "e"}
  /\ putch(Converted(va_arg))
  /\ ap' = ap + 1 /\ fmt' = fmt + 1 /\ mode' = "text"
  /\ UNCHANGED <<printf, via, flags, returned>>

PercentSign ==
  /\ mode = "switch" /\ ch = "%"
  /\ putch(<<"%">>)
  /\ fmt' = fmt + 1 /\ mode' = "text"
  /\ UNCHANGED <<printf, via, ap, flags, returned>>

\* Back to just after the percent sign, so that what follows is printed as text.
AfterPercent == CHOOSE k \in 1 .. fmt :
  printf.fmt[k] = "%" /\ \A j \in k + 1 .. fmt : printf.fmt[j] # "%"

Unrecognized ==
  /\ mode = "switch"
  /\ ~IsDigit(ch)
  /\ ch \notin {"-", "#", "l", ".", "*", "%", "d", "u", "o", "x", "p", "s", "c", "e"}
  /\ putch(<<"%">>)
  /\ fmt' = AfterPercent /\ mode' = "text"
  /\ UNCHANGED <<printf, via, ap, flags, returned>>

-----------------------------------------------------------------------------
\* One of the two is called.
PrintInit ==
  /\ printf \in Printfs /\ via \in {"vsnprintf", "cprintf"}
  /\ fmt = 0 /\ ap = 0 /\ mode = "start"
  /\ padc = " " /\ width = -1 /\ precision = -1 /\ lflag = 0 /\ altflag = FALSE
  /\ sink \in {[n |-> n, buf |-> [k \in 0 .. n - 1 |-> "junk"], pos |-> 0, cnt |-> 0] :
                 n \in IF via = "vsnprintf" THEN BUFSIZES ELSE {0}}
  /\ out = <<>> /\ returned = -1

vprintfmt ==
  \/ TextChar \/ Percent \/ Flag \/ FirstDigit \/ NextDigit \/ NumberEnds \/ Star
  \/ Conversion \/ PercentSign \/ Unrecognized

PrintNext == StartFormat \/ Refuse \/ vprintfmt \/ Finish

PrintSpec == PrintInit /\ [][PrintNext]_printVars
PrintFairSpec == PrintSpec /\ WF_printVars(PrintNext)

-----------------------------------------------------------------------------
(* Properties. *)

\* Whatever is printed, the buffer ends up with as much of it as there is room for
\* and a NUL after that, and the result says how much there was.  Without room for the
\* NUL nothing is written at all.
BufferHoldsPrefix ==
  mode = "done" /\ via = "vsnprintf" =>
    IF sink.n < 1 THEN returned = -E_INVAL /\ out = <<>>
    ELSE LET kept == IF Len(out) < sink.n THEN Len(out) ELSE sink.n - 1 IN
         /\ DOMAIN sink.buf = 0 .. sink.n - 1
         /\ \A k \in 0 .. kept - 1 : sink.buf[k] = out[k + 1]
         /\ sink.buf[kept] = "NUL"
         /\ returned = Len(out)

\* Formatting ends, on every format: going back over a directive that was not
\* recognised does not go round in circles.
FormattingEnds == <>(mode = "done")

-----------------------------------------------------------------------------
(* What a format means, without parsing it: printf.parts has a record for   *)
(* each directive, with the text before it, its flags, its width and         *)
(* precision (0 and -1 for none) and whether these are arguments, its        *)
(* conversion ("NUL" for a format that ends before it) and its argument.     *)
(*                                                                           *)
(* The meaning is K & R's, which the comment at printfmt.c:86 quotes, for    *)
(* text, numbers and strings with the flags - and 0, a width and, for        *)
(* strings, a precision.  Elsewhere it is this printf's own: a number has no *)
(* precision, %c, %% and %e no width, # hides characters of a string and     *)
(* changes no number, %e is an error's text, %p is 0x and hexadecimal, and   *)
(* 0 fills the field of a string too.                                        *)

Conversions == {"d", "u", "o", "x", "p", "s", "c", "e"}
Modifiers == {"-", "#", "l", ".", "*"}
ModulusOf(p) == IF p.longs >= 2 /\ p.conv \notin {"p", "e"} THEN LONGLONG ELSE INT

\* Directives: flags, width, precision, longs, conversion, in this order.  Numbers and
\* arguments are of the type that C requires; an argument for the width is not negative.
Plain == STRING \ {"%", "NUL"}
Part ==
  {p \in [before : Seq(Plain), flags : Seq({"-", "0", "#"}),
          width : 0 .. INT \div 2 - 1, prec : -(INT \div 2) .. INT \div 2 - 1,
          wstar : BOOLEAN, pstar : BOOLEAN, longs : Nat, conv : STRING \ Modifiers,
          arg : [num : -(LONGLONG \div 2) .. LONGLONG - 1, str : Seq(STRING \ {"NUL"})]] :
     /\ ~p.pstar => p.prec >= -1
     /\ ~IsDigit(p.conv)
     /\ p.arg.num \in -(ModulusOf(p) \div 2) .. ModulusOf(p) - 1
     /\ p.conv = "d" => p.arg.num < ModulusOf(p) \div 2
     /\ p.conv = "c" => Len(p.arg.str) = 1
     /\ p.conv = "e" => p.arg.num \in -(INT \div 2) + 1 .. INT \div 2 - 1}

\* The digits of v in base b.
Numeral(v, b) ==
  LET n == CHOOSE k \in 1 .. v + 1 : v < Power(b, k) /\ (k = 1 \/ v >= Power(b, k - 1))
  IN  [k \in 1 .. n |-> DigitChar((v \div Power(b, n - k)) % b)]

\* The text of a directive after the percent sign, and the arguments it takes.
WidthText(p) == IF p.wstar THEN <<"*">> ELSE IF p.width > 0 THEN Numeral(p.width, 10) ELSE <<>>
PrecisionText(p) ==
  IF p.pstar THEN <<".", "*">> ELSE IF p.prec >= 0 THEN <<".">> \o Numeral(p.prec, 10) ELSE <<>>
Ending(p) == [k \in 1 .. p.longs |-> "l"] \o (IF p.conv = "NUL" THEN <<>> ELSE <<p.conv>>)
Text(p) == p.flags \o WidthText(p) \o PrecisionText(p) \o Ending(p)

Number(n) == [num |-> n, str |-> <<>>]
Arguments(p) ==
  (IF p.wstar THEN <<Number(p.width)>> ELSE <<>>) \o (IF p.pstar THEN <<Number(p.prec)>> ELSE <<>>)
  \o (IF p.conv \in Conversions THEN <<p.arg>> ELSE <<>>)

\* A call has the format and the arguments that its directives and the text after them make up.
ASSUME PrintfsAssumption == \A c \in Printfs :
  /\ c.parts \in Seq(Part) /\ c.rest \in Seq(Plain)
  /\ \A k \in DOMAIN c.parts : c.parts[k].conv = "NUL" => k = Len(c.parts) /\ c.rest = <<>>
  /\ c.fmt = FlattenSeq([k \in DOMAIN c.parts |-> c.parts[k].before \o <<"%">> \o Text(c.parts[k])])
             \o c.rest
  /\ c.args = FlattenSeq([k \in DOMAIN c.parts |-> Arguments(c.parts[k])])

Numeric(p) == p.conv \in {"d", "u", "o", "x", "p"}
Base(p) == CASE p.conv = "o" -> 8 [] p.conv \in {"x", "p"} -> 16 [] OTHER -> 10
Has(p, flag) == \E k \in DOMAIN p.flags : p.flags[k] = flag

\* The field of width w around a text s, and the sign or prefix that goes before zeros.
Field(p, sign, s) ==
  LET missing == p.width - Len(sign) - Len(s) IN
  IF Has(p, "-") THEN sign \o s \o Repeat(" ", missing)
  ELSE IF Has(p, "0") THEN sign \o Repeat("0", missing) \o s
  ELSE Repeat(" ", missing) \o sign \o s

SignOf(p) == IF p.conv = "p" THEN <<"0", "x">> ELSE IF p.conv = "d" THEN Signed(p.arg.num) ELSE <<>>
Absolute(p) == Numeral(IF p.conv = "d" THEN Magnitude(p.arg.num) ELSE p.arg.num % ModulusOf(p), Base(p))

StringMeaning(p) ==
  LET s == IF p.arg.str = NULL THEN <<"(", "n", "u", "l", "l", ")">> ELSE p.arg.str
      kept == IF p.prec >= 0 /\ p.prec < Len(s) THEN SubSeq(s, 1, p.prec) ELSE s
      hidden(c) == Has(p, "#") /\ c \in {"CTRL", "HIGH"}
  IN  Field(p, <<>>, [k \in DOMAIN kept |-> IF hidden(kept[k]) THEN "?" ELSE kept[k]])

ErrorMeaning(p) ==
  LET err == Magnitude(p.arg.num) IN
  IF err \in DOMAIN error_string THEN <<error_string[err]>> ELSE <<"error ">> \o Numeral(err, 10)

Meaning(p) ==
  CASE Numeric(p) -> Field(p, SignOf(p), Absolute(p))
    [] p.conv = "s" -> StringMeaning(p)
    [] p.conv = "c" -> p.arg.str
    [] p.conv = "%" -> <<"%">>
    [] p.conv = "e" -> ErrorMeaning(p)
    [] OTHER -> <<"%">> \o Text(p)

\* Where Meaning is K & R's and this code does something else: it does not pad a number on the
\* right, prints a sign or prefix before the padding and does not count it, lets the later of the
\* flags - and 0 win, and takes the 0 of a precision of 0 for a flag.
PadsRight(p) == Numeric(p) /\ Has(p, "-") /\ p.width > Len(Absolute(p))
SignInField(p) == Numeric(p) /\ SignOf(p) # <<>> /\ p.width > Len(Absolute(p))
MinusAndZero(p) == Has(p, "-") /\ Has(p, "0")
NoPrecision(p) == ~p.pstar /\ p.prec = 0

\* What is printed is what the directives mean, one by one, whatever stands before, between and
\* after them, in every combination of flags, width, precision and conversion but these four.
PrintsMeaning ==
  /\ mode = "done" /\ returned # -E_INVAL
  /\ \A k \in DOMAIN printf.parts :
       LET p == printf.parts[k] IN
       ~PadsRight(p) /\ ~SignInField(p) /\ ~MinusAndZero(p) /\ ~NoPrecision(p)
  => out = FlattenSeq([k \in DOMAIN printf.parts |-> printf.parts[k].before \o Meaning(printf.parts[k])])
           \o printf.rest
=============================================================================
