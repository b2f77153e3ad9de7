----------------------------- MODULE Backtrace ------------------------------
(***************************************************************************)
(* The kernel's stack, and mon_backtrace, which walks it: the calls that   *)
(* lead to it from entry.S by i386_init and test_backtrace, and then from  *)
(* the monitor's command line, with what each leaves on the stack.         *)
(*                                                                         *)
(* The stack is of words, and an address is a word's.  A function's code   *)
(* is ten addresses.  Calls that have returned before anything is read     *)
(* from the stack, like those of cprintf, are left out.                    *)
(***************************************************************************)
EXTENDS Integers, SequencesExt

CONSTANTS
  X,          \* what i386_init calls test_backtrace with (5)
  bootstack,  \* the first word of the stack
  KSTKSIZE,   \* its words
  LOCALS      \* how many words a compiler may have a function keep for itself

\* The stack has room for the calls of test_backtrace, and for those of the monitor; the
\* kernel's is of 8192 words.
ASSUME BacktraceAssumption ==
  /\ X \in Nat /\ bootstack \in Nat \ {0} /\ KSTKSIZE \in Nat /\ LOCALS \subseteq Nat
  /\ \A l \in LOCALS : (X + 2) * (3 + l) + l + 4 <= KSTKSIZE /\ 4 * l + 14 <= KSTKSIZE

bootstacktop == bootstack + KSTKSIZE

Functions == <<"entry", "i386_init", "test_backtrace", "monitor", "runcmd", "mon_backtrace">>
Start(f) == 10 * (CHOOSE k \in DOMAIN Functions : Functions[k] = f)

\* debuginfo_eip: the function that an address is in.
FunctionAt(a) == IF a \div 10 \in DOMAIN Functions THEN Functions[a \div 10] ELSE "none"

VARIABLES
  stack, esp, ebp,
  build,        \* what the compiler has chosen: how many locals, and whether to put
                \* runcmd into monitor
  chain,        \* the calls not returned from: [fn, args, at], the innermost last;
                \* at is how far the function has come
  walk,         \* the variable ebp of mon_backtrace
  lines,        \* the frames printed by the backtrace being made
  out           \* what test_backtrace has printed

stack_vars == <<stack, esp, ebp>>
vars == <<stack_vars, build, chain, walk, lines, out>>

top == Last(chain)
In(f, n) == chain # <<>> /\ top.fn = f /\ top.at = n
Advanced(n) == [chain EXCEPT ![Len(chain)].at = n]

-----------------------------------------------------------------------------
(* Calls. *)

\* The caller, which goes on from n, pushes the arguments and its address; the callee
\* pushes %ebp, makes it point there, and takes room for its locals.
Pushed(caller, n, args) ==
  LET base == esp - Len(args) IN
  /\ stack' = [a \in DOMAIN stack |->
                 CASE a \in base .. esp - 1 -> args[a - base + 1]
                   [] a = base - 1 -> Start(caller) + n
                   [] a = base - 2 -> ebp
                   [] OTHER -> stack[a]]
  /\ ebp' = base - 2
  /\ esp' = base - 2 - build.locals

Call(n, f, args) ==
  /\ Pushed(top.fn, n, args)
  /\ chain' = Append(Advanced(n), [fn |-> f, args |-> args, at |-> 0])

\* leave and ret; the caller takes the arguments off.
\* Mutant: %ebp is left as it is.
Return_keeps_ebp ==
  /\ esp' = ebp + 2 + Len(top.args)
  /\ chain' = Front(chain)
  /\ UNCHANGED <<stack, ebp>>
\* Mutant: the arguments stay on the stack.
Return_leaves_arguments ==
  /\ ebp' = stack[ebp]
  /\ esp' = ebp + 2
  /\ chain' = Front(chain)
  /\ UNCHANGED stack
Return ==
  /\ ebp' = stack[ebp]
  /\ esp' = ebp + 2 + Len(top.args)
  /\ chain' = Front(chain)
  /\ UNCHANGED stack

-----------------------------------------------------------------------------
(* entry.S, i386_init and test_backtrace. *)

Entry ==
  /\ chain = <<>>
  /\ Pushed("entry", 1, <<>>)
  /\ chain' = <<[fn |-> "i386_init", args |-> <<>>, at |-> 0]>>
  /\ UNCHANGED <<build, walk, lines, out>>

InitCallsTest ==
  /\ In("i386_init", 0)
  /\ Call(1, "test_backtrace", <<X>>)
  /\ UNCHANGED <<build, walk, lines, out>>

Entering ==
  /\ In("test_backtrace", 0)
  /\ out' = Append(out, <<"entering", top.args[1]>>)
  /\ chain' = Advanced(1)
  /\ UNCHANGED <<stack_vars, build, walk, lines>>

Recurse ==
  /\ In("test_backtrace", 1) /\ top.args[1] > 0
  /\ Call(2, "test_backtrace", <<top.args[1] - 1>>)
  /\ UNCHANGED <<build, walk, lines, out>>

TestCallsBacktrace ==
  /\ In("test_backtrace", 1) /\ top.args[1] <= 0
  /\ Call(2, "mon_backtrace", <<0, 0, 0>>)
  /\ UNCHANGED <<build, walk, lines, out>>

\* x is where the caller has put it on the stack.
\* Mutant: one word further.
Leaving_next ==
  /\ In("test_backtrace", 2)
  /\ out' = Append(out, <<"leaving", stack[ebp + 3]>>)
  /\ Return
  /\ UNCHANGED <<build, walk, lines>>
Leaving ==
  /\ In("test_backtrace", 2)
  /\ out' = Append(out, <<"leaving", stack[ebp + 2]>>)
  /\ Return
  /\ UNCHANGED <<build, walk, lines>>

-----------------------------------------------------------------------------
(* The monitor, its only command here being backtrace: the others, and empty  *)
(* lines, return without a call that lasts.                                   *)

InitCallsMonitor ==
  /\ In("i386_init", 1)
  /\ Call(1, "monitor", <<0>>)
  /\ UNCHANGED <<build, walk, lines, out>>

buf == 7
argv == 8

MonitorRunsCommand ==
  /\ In("monitor", 0)
  /\ IF build.inlined THEN Call(0, "mon_backtrace", <<1, argv, 0>>) ELSE Call(0, "runcmd", <<buf, 0>>)
  /\ UNCHANGED <<build, walk, lines, out>>

RuncmdCallsBacktrace ==
  /\ In("runcmd", 0)
  /\ Call(1, "mon_backtrace", <<1, argv, 0>>)
  /\ UNCHANGED <<build, walk, lines, out>>

RuncmdReturns ==
  /\ In("runcmd", 1)
  /\ Return
  /\ UNCHANGED <<build, walk, lines, out>>

-----------------------------------------------------------------------------
(* mon_backtrace. *)

ReadEbp ==
  /\ In("mon_backtrace", 0)
  /\ walk' = ebp /\ lines' = <<>>
  /\ chain' = Advanced(1)
  /\ UNCHANGED <<stack_vars, build, out>>

\* Mutant: the arguments are taken from the word after the frame pointer.
Line_shifted(p) ==
  LET eip == stack[p + 1] IN
  [ebp |-> p, eip |-> eip, args |-> [i \in 1 .. 5 |-> stack[p + i]],
   fn |-> FunctionAt(eip)]
Line(p) ==
  LET eip == stack[p + 1] IN
  [ebp |-> p, eip |-> eip, args |-> [i \in 1 .. 5 |-> stack[p + 1 + i]],
   fn |-> FunctionAt(eip)]

PrintFrame ==
  /\ In("mon_backtrace", 1) /\ walk # 0
  /\ lines' = Append(lines, Line(walk))
  /\ walk' = stack[walk]
  /\ UNCHANGED <<stack_vars, build, chain, out>>

BacktraceReturns ==
  /\ In("mon_backtrace", 1) /\ walk = 0
  /\ Return
  /\ UNCHANGED <<build, walk, lines, out>>

-----------------------------------------------------------------------------
\* entry.S has cleared %ebp; the words above the stack are something or other.
\* Mutant: it has not.
NoFrame_left == bootstacktop
NoFrame == 0

Init ==
  /\ stack = [a \in bootstack .. bootstacktop + 6 |-> 0]
  /\ esp = bootstacktop /\ ebp = NoFrame
  /\ build \in [locals : LOCALS, inlined : BOOLEAN]
  /\ chain = <<>> /\ walk = 0 /\ lines = <<>> /\ out = <<>>

Next ==
  \/ Entry \/ InitCallsTest \/ Entering \/ Recurse \/ TestCallsBacktrace \/ Leaving
  \/ InitCallsMonitor \/ MonitorRunsCommand \/ RuncmdCallsBacktrace \/ RuncmdReturns
  \/ ReadEbp \/ PrintFrame \/ BacktraceReturns

Spec == Init /\ [][Next]_vars

-----------------------------------------------------------------------------
(* Properties. *)

\* The call that has the k-th frame from the innermost, and the function it was made in.
Called(k) == chain[Len(chain) - k + 1]
Caller(k) == IF k = Len(chain) THEN "entry" ELSE Called(k + 1).fn

\* A backtrace shows the calls as they are, from the innermost: each once, with an
\* address in the function that made it, its arguments first among the five, and
\* nothing after the call of i386_init.
BacktraceShowsCalls ==
  chain # <<>> /\ top.fn = "mon_backtrace" /\ top.at = 1 =>
    /\ Len(lines) <= Len(chain)
    /\ \A k \in DOMAIN lines :
         /\ lines[k].fn = Caller(k)
         /\ SubSeq(lines[k].args, 1, Len(Called(k).args)) = Called(k).args
    /\ walk = 0 => Len(lines) = Len(chain)

\* While a function runs, the word above its frame pointer's is an address of its
\* caller's: it can return.  %ebp is 0 for as long as nothing has been called.  The
\* stack does not grow below its bottom.
CanReturn ==
  /\ esp \in bootstack .. bootstacktop
  /\ IF chain = <<>> THEN ebp = 0 ELSE FunctionAt(stack[ebp + 1]) = Caller(1)

\* test_backtrace leaves in the reverse order that it entered, each call with the
\* number it entered with.
MessagesNest ==
  \A k \in DOMAIN out :
    out[k] = IF k <= X + 1 THEN <<"entering", X + 1 - k>> ELSE <<"leaving", k - X - 2>>

\* Together: the calls that a backtrace walks over are not disturbed by it, they all
\* return and find their arguments as they were.
CallsUndisturbed == CanReturn /\ MessagesNest

\* The backtrace that test_backtrace makes is as grade-lab1:20-34 expects it: X + 3
\* frames, whose first arguments are 0, 0, 1 ... X, with the symbols test_backtrace
\* and then i386_init.
GradedBacktrace ==
  (\E k \in DOMAIN chain : chain[k].fn = "test_backtrace") /\ In("mon_backtrace", 1) /\ walk = 0 =>
    /\ Len(lines) = X + 3
    /\ \A k \in 1 .. X + 2 : lines[k].args[1] = IF k = 1 THEN 0 ELSE k - 2
    /\ \A k \in 1 .. X + 2 : lines[k].fn = IF k = X + 2 THEN "i386_init" ELSE "test_backtrace"
=============================================================================
