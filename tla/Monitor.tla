------------------------------- MODULE Monitor -------------------------------
(***************************************************************************)
(* The kernel monitor of kern/monitor.c: monitor, which reads lines for    *)
(* ever, and runcmd, which cuts each line into arguments inside readline's *)
(* own static buffer and looks the first of them up.                       *)
(***************************************************************************)
EXTENDS Readline

CONSTANTS
  MAXARGS,    \* size of the argv array, 16 in the source
  Commands,   \* the table commands: a sequence of [name, desc, func]
  Reports,    \* what mon_kerninfo and mon_backtrace print, by func
  Greeting,   \* what monitor prints when it is called
  Complaint,  \* what the two error messages print first
  HighBytes,  \* the bytes of Input from 0x80 up
  MaxCalls    \* bound of the model: calls of readline

ASSUME MonitorAssumption ==
  /\ MAXARGS \in Nat /\ MAXARGS > 1
  /\ HighBytes \subseteq Input \ Control
  /\ MaxCalls \in Nat

VARIABLES
  mon,    \* where monitor and runcmd are
  p,      \* runcmd's buf pointer, as an index of readline's buffer
  argv,   \* the arguments found so far, as indices; argc is its length
  line,   \* history: the line runcmd is dealing with, as readline returned it
  ran,    \* history: which command has just run, 0 for none
  calls   \* calls of readline

runcmdVars == <<p, argv, line, ran>>
vars == <<readlineVars, mon, runcmdVars, calls>>

\* No tab, return or newline gets into the buffer, but runcmd tests for them.
Whitespace == {"TAB", "CR", "NL", " "}

\* A char of a "%s" string is signed, so bytes from 0x80 up arrive extended.
Chars(text) == [k \in DOMAIN text |-> Plain(text[k])]
StringChars(text) ==
  [k \in DOMAIN text |-> IF text[k] \in HighBytes THEN Extended(text[k]) ELSE Plain(text[k])]

\* What a command prints: mon_help goes through the very table it stands in.
mon_help ==
  FlattenSeq([k \in DOMAIN Commands |->
                Commands[k].name \o <<" ", "-", " ">> \o Commands[k].desc \o <<"NL">>])
Report(k) == IF Commands[k].func = "mon_help" THEN mon_help ELSE Reports[Commands[k].func] \o <<"NL">>

\* What is printed consists of characters.
ASSUME PrintedAssumption ==
  /\ Greeting \in Seq(STRING) /\ Complaint \in Seq(STRING)
  /\ Commands \in Seq([name : Seq(STRING), desc : Seq(STRING), func : STRING])
  /\ \A k \in DOMAIN Commands : Report(k) \in Seq(STRING)

-----------------------------------------------------------------------------
(* monitor's loop. *)

\* runcmd is left, and its variables are gone.
Leaves == mon' = "prompt" /\ p' = 0 /\ argv' = <<>> /\ line' = <<>>

\* A call of monitor, with other things still to print before its greeting.  Whatever
\* its caller was doing is left as it is.
monitor(before) ==
  /\ out' = before \o Chars(Greeting)
  /\ Leaves /\ pc' = "caller" /\ i' = 0

Prompts ==
  /\ mon = "prompt"
  /\ calls < MaxCalls
  /\ calls' = calls + 1
  /\ CallReadline
  /\ mon' = "readline"
  /\ ran' = 0
  /\ UNCHANGED <<p, argv, line>>

Prints ==
  /\ PrintChar
  /\ UNCHANGED <<mon, runcmdVars, calls>>

Edits ==
  /\ mon = "readline"
  /\ getchar
  /\ pc' = "reading"
  /\ UNCHANGED <<mon, runcmdVars, calls>>

Enters ==
  /\ mon = "readline"
  /\ getchar
  /\ pc' = "caller"
  /\ mon' = "gobble" /\ p' = 0 /\ argv' = <<>>
  /\ line' = CString(buf', 0)
  /\ UNCHANGED <<ran, calls>>

-----------------------------------------------------------------------------
(* runcmd. *)

\* Mutant: white space is skipped without ending the argument before it.
GobbleWhitespace_keep ==
  /\ mon = "gobble"
  /\ buf[p] \in Whitespace
  /\ p' = p + 1
  /\ UNCHANGED <<readlineVars, calls, mon, argv, line, ran>>
GobbleWhitespace ==
  /\ mon = "gobble"
  /\ buf[p] \in Whitespace
  /\ buf' = [buf EXCEPT ![p] = "NUL"]
  /\ p' = p + 1
  /\ UNCHANGED <<i, scr, out, pc, calls, mon, argv, line, ran>>

EndOfLine ==
  /\ mon = "gobble"
  /\ buf[p] = "NUL"
  /\ mon' = "lookup"
  /\ UNCHANGED <<readlineVars, calls, runcmdVars>>

TooManyArguments ==
  /\ mon = "gobble"
  /\ buf[p] \notin Whitespace \cup {"NUL"}
  /\ Len(argv) = MAXARGS - 1
  /\ out' = Chars(Complaint) \o <<Plain("NL")>>
  /\ Leaves
  /\ UNCHANGED <<buf, i, scr, pc, calls, ran>>

\* Mutant: the slot for the null pointer at the end of argv is used as well.
SaveArgument_last_slot ==
  /\ mon = "gobble"
  /\ buf[p] \notin Whitespace \cup {"NUL"}
  /\ Len(argv) < MAXARGS
  /\ argv' = Append(argv, p)
  /\ mon' = "scan"
  /\ UNCHANGED <<readlineVars, calls, p, line, ran>>
SaveArgument ==
  /\ mon = "gobble"
  /\ buf[p] \notin Whitespace \cup {"NUL"}
  /\ Len(argv) < MAXARGS - 1
  /\ argv' = Append(argv, p)
  /\ mon' = "scan"
  /\ UNCHANGED <<readlineVars, calls, p, line, ran>>

ScanArgument ==
  /\ mon = "scan"
  /\ buf[p] \notin Whitespace \cup {"NUL"}
  /\ p' = p + 1
  /\ UNCHANGED <<readlineVars, calls, mon, argv, line, ran>>

\* Mutant: an argument is taken to be done at white space only.
ArgumentEnds_blank ==
  /\ mon = "scan"
  /\ buf[p] \in Whitespace
  /\ mon' = "gobble"
  /\ UNCHANGED <<readlineVars, calls, runcmdVars>>
ArgumentEnds ==
  /\ mon = "scan"
  /\ buf[p] \in Whitespace \cup {"NUL"}
  /\ mon' = "gobble"
  /\ UNCHANGED <<readlineVars, calls, runcmdVars>>

EmptyCommand ==
  /\ mon = "lookup" /\ argv = <<>>
  /\ Leaves
  /\ UNCHANGED <<readlineVars, calls, ran>>

\* strcmp returned 0.  Mutant: the argument need only begin with the name.
IsNamed_prefix(k) == IsPrefix(Commands[k].name, CString(buf, argv[1]))
IsNamed(k) == Commands[k].name = CString(buf, argv[1])

\* The command prints its report and returns 0.
RunCommand ==
  /\ mon = "lookup" /\ argv # <<>> /\ out = <<>>
  /\ \E k \in DOMAIN Commands :
       /\ IsNamed(k)
       /\ \A j \in 1 .. k - 1 : ~IsNamed(j)
       /\ out' = Chars(Report(k))
       /\ ran' = k
  /\ Leaves
  /\ UNCHANGED <<buf, i, scr, pc, calls>>

UnknownCommand ==
  /\ mon = "lookup" /\ argv # <<>> /\ out = <<>>
  /\ \A k \in DOMAIN Commands : ~IsNamed(k)
  /\ out' = Chars(Complaint) \o StringChars(CString(buf, argv[1])) \o <<Plain("NL")>>
  /\ Leaves
  /\ UNCHANGED <<buf, i, scr, pc, calls, ran>>

-----------------------------------------------------------------------------
\* i386_init calls monitor.
Init ==
  /\ ReadlineInit /\ out = Chars(Greeting)
  /\ mon = "prompt" /\ p = 0 /\ argv = <<>> /\ line = <<>> /\ ran = 0 /\ calls = 0

runcmd ==
  \/ GobbleWhitespace \/ EndOfLine \/ TooManyArguments \/ SaveArgument
  \/ ScanArgument \/ ArgumentEnds
  \/ EmptyCommand \/ RunCommand \/ UnknownCommand

Next == Prompts \/ Prints \/ Edits \/ Enters \/ runcmd

Spec == Init /\ [][Next]_vars

\* runcmd and cprintf keep executing; nobody owes the monitor another character.
FairSpec == Spec /\ WF_vars(runcmd \/ Prints)

-----------------------------------------------------------------------------
(* Properties. *)

\* Every variable has its type, readline's included: the pointer stays inside the
\* buffer and argv has room for its terminating null pointer.
MonitorTypeOK ==
  /\ TypeOK
  /\ mon \in {"prompt", "readline", "gobble", "scan", "lookup"}
  /\ p \in 0 .. BUFLEN - 1
  /\ argv \in Seq(0 .. BUFLEN - 1) /\ Len(argv) < MAXARGS
  /\ ran \in 0 .. Len(Commands) /\ calls \in 0 .. MaxCalls

\* The words of a line: its maximal runs of other characters than white space.
Blank_at(l, k) == k \notin DOMAIN l \/ l[k] \in Whitespace
WordStarts(l) == {k \in DOMAIN l : ~Blank_at(l, k) /\ Blank_at(l, k - 1)}
WordFrom(l, k) ==
  SubSeq(l, k, Max({e \in k .. Len(l) : \A m \in k .. e : ~Blank_at(l, m)}))
\* They start at the places Starts(l), in increasing order.
Starts(l) ==
  CHOOSE q \in UNION {[1 .. m -> WordStarts(l)] : m \in 0 .. Len(l)} :
    /\ \A s \in WordStarts(l) : \E k \in DOMAIN q : q[k] = s
    /\ \A j, k \in DOMAIN q : j < k => q[j] < q[k]
Words(l) == [k \in DOMAIN Starts(l) |-> WordFrom(l, Starts(l)[k])]

\* When runcmd looks a command up, argv holds the words of the line the user
\* entered, in order, each a string of its own: cutting the line up in place has
\* changed none of them.
ArgumentsAreWords ==
  mon = "lookup" => [k \in DOMAIN argv |-> CString(buf, argv[k])] = Words(line)

\* The command that runs is the one whose name is the first word, none otherwise.
CommandOfFirstWord ==
  [][mon = "lookup" /\ runcmd =>
       \/ ran' = 0 /\ \A k \in DOMAIN Commands : Words(line) = <<>> \/ Words(line)[1] # Commands[k].name
       \/ ran' \in DOMAIN Commands /\ Words(line)[1] = Commands[ran'].name
    ]_vars

\* Every line entered is answered: from anywhere in runcmd or in what is printed, the
\* monitor gets back to where the user can type, with everything said.
LineIsAnswered ==
  (mon \notin {"prompt", "readline"} \/ out # <<>>) ~> (mon \in {"prompt", "readline"} /\ out = <<>>)
=============================================================================
