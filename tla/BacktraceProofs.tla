-------------------------- MODULE BacktraceProofs ---------------------------
(***************************************************************************)
(* The calls on the boot stack for every X, every stack that is deep       *)
(* enough and every choice of the compiler's: each frame pointer leads to  *)
(* the next outer frame, so that mon_backtrace meets every call once, and  *)
(* all return with their arguments undisturbed.                            *)
(***************************************************************************)
EXTENDS Backtrace, SequenceTheorems, TLAPS

Names == {"entry", "i386_init", "test_backtrace", "monitor", "runcmd", "mon_backtrace"}
Made == [fn : Names, args : Seq(Int), at : 0 .. 2]

-----------------------------------------------------------------------------
(* Addresses and calls. *)

LEMMA Symbols == \A f \in Names, m \in 0 .. 2 : Start(f) + m \in Nat /\ FunctionAt(Start(f) + m) = f
<1> DEFINE At(f) == CHOOSE k \in DOMAIN Functions : Functions[k] = f
<1>1. DOMAIN Functions = 1 .. 6
  BY DEF Functions
<1>2. \A f \in Names : \E k \in DOMAIN Functions : Functions[k] = f
  BY DEF Functions, Names
<1>3. \A f \in Names : At(f) \in 1 .. 6 /\ Functions[At(f)] = f
  BY <1>1, <1>2
<1> HIDE DEF At
<1>4. \A k \in 1 .. 6, m \in 0 .. 2 : ((10 * k) + m) \div 10 = k
  OBVIOUS
<1> SUFFICES ASSUME NEW f \in Names, NEW m \in 0 .. 2
             PROVE  Start(f) + m \in Nat /\ FunctionAt(Start(f) + m) = f
  OBVIOUS
<1>5. Start(f) = 10 * At(f)
  BY DEF Start, At
<1>6. (Start(f) + m) \div 10 = At(f)
  BY <1>3, <1>4, <1>5
<1>7. Start(f) + m \in Nat
  BY <1>3, <1>5
<1> QED
  BY <1>1, <1>3, <1>6, <1>7 DEF FunctionAt

LEMMA ChainAdvance ==
  ASSUME chain \in Seq(Made), chain # <<>>, NEW m \in 0 .. 2
  PROVE  /\ Advanced(m) \in Seq(Made) /\ Len(Advanced(m)) = Len(chain)
         /\ \A k \in 1 .. Len(chain) - 1 : Advanced(m)[k] = chain[k]
         /\ Advanced(m)[Len(chain)] = [fn |-> top.fn, args |-> top.args, at |-> m]
<1> DEFINE n == Len(chain)
           e == [chain[n] EXCEPT !.at = m]
<1>1. n \in Nat \ {0}
  BY EmptySeq
<1>2. chain[n] \in Made /\ top = chain[n]
  BY <1>1 DEF top, Last
<1>3. e \in Made /\ e = [fn |-> top.fn, args |-> top.args, at |-> m]
  BY <1>2 DEF Made
<1>4. Advanced(m) = [chain EXCEPT ![n] = e]
  BY DEF Advanced
<1> HIDE DEF e, n
<1>5. n \in 1 .. Len(chain) /\ n = Len(chain)
  BY <1>1 DEF n
<1>6. /\ Advanced(m) \in Seq(Made) /\ Len(Advanced(m)) = Len(chain)
      /\ \A j \in 1 .. Len(chain) : Advanced(m)[j] = IF j = n THEN e ELSE chain[j]
  BY <1>3, <1>4, <1>5, ExceptSeq
<1> QED
  BY <1>1, <1>3, <1>5, <1>6

LEMMA ChainCall ==
  ASSUME chain \in Seq(Made), chain # <<>>, NEW m \in 0 .. 2, NEW f \in Names, NEW args \in Seq(Int),
         chain' = Append(Advanced(m), [fn |-> f, args |-> args, at |-> 0])
  PROVE  /\ chain' \in Seq(Made) /\ Len(chain') = Len(chain) + 1
         /\ \A k \in 1 .. Len(chain) - 1 : chain'[k] = chain[k]
         /\ chain'[Len(chain)] = [fn |-> top.fn, args |-> top.args, at |-> m]
         /\ chain'[Len(chain) + 1] = [fn |-> f, args |-> args, at |-> 0]
<1> DEFINE s == Advanced(m)
           e == [fn |-> f, args |-> args, at |-> 0]
<1>1. /\ s \in Seq(Made) /\ Len(s) = Len(chain)
      /\ \A k \in 1 .. Len(chain) - 1 : s[k] = chain[k]
      /\ s[Len(chain)] = [fn |-> top.fn, args |-> top.args, at |-> m]
  BY ChainAdvance
<1>2. e \in Made
  BY DEF Made
<1>3. Len(chain) \in Nat \ {0}
  BY EmptySeq
<1> HIDE DEF s, e
<1>4. /\ Append(s, e) \in Seq(Made) /\ Len(Append(s, e)) = Len(s) + 1
      /\ \A k \in 1 .. Len(s) : Append(s, e)[k] = s[k]
      /\ Append(s, e)[Len(s) + 1] = e
  BY <1>1, <1>2, AppendProperties
<1>5. chain' = Append(s, e)
  BY DEF s, e
<1>6. e = [fn |-> f, args |-> args, at |-> 0]
  BY DEF e
<1>7. \A k \in 1 .. Len(chain) - 1 : Append(s, e)[k] = chain[k]
  BY <1>1, <1>3, <1>4
<1>8. Append(s, e)[Len(chain)] = s[Len(chain)] /\ Append(s, e)[Len(chain) + 1] = e
  BY <1>1, <1>3, <1>4
<1>9. Append(s, e) \in Seq(Made) /\ Len(Append(s, e)) = Len(chain) + 1
  BY <1>1, <1>4
<1> QED
  BY <1>1, <1>5, <1>6, <1>7, <1>8, <1>9

LEMMA ChainReturn ==
  ASSUME chain \in Seq(Made), chain # <<>>, chain' = Front(chain)
  PROVE  /\ chain' \in Seq(Made) /\ Len(chain') = Len(chain) - 1
         /\ \A k \in 1 .. Len(chain) - 1 : chain'[k] = chain[k]
<1>1. Len(chain) \in Nat \ {0}
  BY EmptySeq
<1>2. \A S : \A s \in Seq(S), l \in Nat : l <= Len(s) =>
        /\ SubSeq(s, 1, l) \in Seq(S) /\ Len(SubSeq(s, 1, l)) = l
        /\ \A k \in 1 .. l : SubSeq(s, 1, l)[k] = s[k]
  OBVIOUS
<1>3. chain' = SubSeq(chain, 1, Len(chain) - 1) /\ Len(chain) - 1 \in Nat /\ Len(chain) - 1 <= Len(chain)
  BY <1>1 DEF Front
<1> QED
  BY <1>2, <1>3

-----------------------------------------------------------------------------
(* The invariant. *)

Types ==
  /\ build \in [locals : LOCALS, inlined : BOOLEAN]
  /\ stack \in [bootstack .. bootstacktop + 6 -> Int]
  /\ chain \in Seq(Made)
  /\ out \in Seq({"entering", "leaving"} \X Int)

\* Where the k-th of the calls c has its frame, if functions keep l words: one word of
\* arguments for each call, and two or three more below for those that have more.
Beyond(c, k) ==
  IF c[k].fn = "runcmd" THEN 1
  ELSE IF c[k].fn # "mon_backtrace" THEN 0
  ELSE IF k > 1 /\ c[k - 1].fn = "runcmd" THEN 3 ELSE 2
Down(l, k) == (k - 1) * (3 + l)
Place(c, l, k) == bootstacktop - 2 - Down(l, k) - Beyond(c, k)
Places(c, l) == [k \in 1 .. Len(c) |-> Place(c, l, k)]

\* The frames lie one below the other on the stack.
Spaced(p, n, c, l) ==
  /\ \A k \in 1 .. n : bootstack + l <= p[k] /\ p[k] + 2 + Len(c[k].args) <= bootstacktop
  /\ \A k \in 2 .. n : p[k] + 2 + Len(c[k].args) = p[k - 1] - l
  /\ \A j, k \in 1 .. n : j <= k => p[k] <= p[j]

\* A frame holds the caller's frame pointer, an address in the caller, and the arguments.
Linked(p, n, c, st) ==
  \A k \in 1 .. n :
    /\ st[p[k]] = IF k = 1 THEN 0 ELSE p[k - 1]
    /\ FunctionAt(st[p[k] + 1]) = IF k = 1 THEN "entry" ELSE c[k - 1].fn
    /\ \A j \in 1 .. Len(c[k].args) : st[p[k] + 1 + j] = c[k].args[j]

Framed(c, l, st, sp, fp) ==
  LET n == Len(c) IN
  /\ IF n = 0 THEN fp = 0 /\ sp = bootstacktop ELSE fp = Places(c, l)[n] /\ sp = fp - l
  /\ Spaced(Places(c, l), n, c, l)
  /\ Linked(Places(c, l), n, c, st)
Frames == Framed(chain, build.locals, stack, esp, ebp)

\* Which calls can be in progress, and how much has been printed then.
I386Init(n) == [fn |-> "i386_init", args |-> <<>>, at |-> n]
Test(k, n) == [fn |-> "test_backtrace", args |-> <<X + 2 - k>>, at |-> n]
Runcmd(n) == [fn |-> "runcmd", args |-> <<buf, 0>>, at |-> n]
Reader(args, n) == [fn |-> "mon_backtrace", args |-> args, at |-> n]

Starting == Len(chain) <= 1 /\ Len(out) = 0 /\ (Len(chain) = 1 => chain[1] = I386Init(0))
Tested == Len(chain) = 1 /\ Len(out) = 2 * X + 2 /\ chain[1] = I386Init(1)
Testing ==
  /\ Len(chain) \in 2 .. X + 2 /\ chain[1] = I386Init(1)
  /\ \A k \in 2 .. Len(chain) - 1 : chain[k] = Test(k, 2)
  /\ \/ chain[Len(chain)] = Test(Len(chain), 0) /\ Len(out) = Len(chain) - 2
     \/ chain[Len(chain)] = Test(Len(chain), 1) /\ Len(out) = Len(chain) - 1
     \/ chain[Len(chain)] = Test(Len(chain), 2) /\ Len(out) = 2 * X + 3 - Len(chain)
Graded ==
  /\ Len(chain) = X + 3 /\ Len(out) = X + 1 /\ chain[1] = I386Init(1)
  /\ \A k \in 2 .. X + 2 : chain[k] = Test(k, 2)
  /\ \E n \in {0, 1} : chain[X + 3] = Reader(<<0, 0, 0>>, n)
Monitoring ==
  /\ Len(chain) \in 2 .. 4 /\ Len(out) = 2 * X + 2 /\ chain[1] = I386Init(1)
  /\ chain[2] = [fn |-> "monitor", args |-> <<0>>, at |-> 0]
  /\ Len(chain) = 3 => \E n \in {0, 1} : chain[3] = Runcmd(n) \/ chain[3] = Reader(<<1, argv, 0>>, n)
  /\ Len(chain) = 4 => chain[3] = Runcmd(1) /\ \E n \in {0, 1} : chain[4] = Reader(<<1, argv, 0>>, n)
Shape == Starting \/ Tested \/ Testing \/ Graded \/ Monitoring

\* What mon_backtrace has printed, and where it goes on.
Walked(p, n) ==
  /\ lines \in Seq({Line(q) : q \in Int}) /\ Len(lines) <= n
  /\ \A k \in 1 .. Len(lines) : lines[k] = Line(p[n + 1 - k])
  /\ walk = IF Len(lines) = n THEN 0 ELSE p[n - Len(lines)]
Walking ==
  chain # <<>> /\ top.fn = "mon_backtrace" /\ top.at = 1 =>
    Walked(Places(chain, build.locals), Len(chain))

IInv == Types /\ Frames /\ Shape /\ MessagesNest /\ Walking

-----------------------------------------------------------------------------
(* Places on the stack. *)

LEMMA Sizes ==
  ASSUME build \in [locals : LOCALS, inlined : BOOLEAN]
  PROVE  /\ build.locals \in Nat /\ X \in Nat /\ bootstack \in Nat \ {0}
         /\ bootstacktop \in Nat /\ bootstacktop = bootstack + KSTKSIZE
         /\ (X + 2) * (3 + build.locals) + build.locals + 4 <= KSTKSIZE
         /\ 4 * build.locals + 14 <= KSTKSIZE
<1>1. build.locals \in LOCALS
  OBVIOUS
<1>2. \A l \in LOCALS : (X + 2) * (3 + l) + l + 4 <= KSTKSIZE /\ 4 * l + 14 <= KSTKSIZE
  BY BacktraceAssumption
<1>3. /\ X \in Nat /\ bootstack \in Nat \ {0} /\ KSTKSIZE \in Nat /\ LOCALS \subseteq Nat
  BY BacktraceAssumption
<1>4. bootstacktop \in Nat /\ bootstacktop = bootstack + KSTKSIZE
  BY <1>3 DEF bootstacktop
<1>5. (X + 2) * (3 + build.locals) + build.locals + 4 <= KSTKSIZE /\ 4 * build.locals + 14 <= KSTKSIZE
  BY <1>1, <1>2, Zenon
<1> QED
  BY <1>1, <1>3, <1>4, <1>5

LEMMA Products == \A a, b, w \in Nat : a <= b => a * w \in Nat /\ a * w <= b * w /\ (a + 1) * w = a * w + w
<1> SUFFICES ASSUME NEW a \in Nat, NEW b \in Nat, NEW w \in Nat, a <= b
             PROVE  a * w \in Nat /\ a * w <= b * w /\ (a + 1) * w = a * w + w
  OBVIOUS
<1>1. a * w \in Nat /\ (b - a) * w >= 0
  OBVIOUS
<1>2. (b - a) * w = b * w - a * w
  OBVIOUS
<1>3. (a + 1) * w = a * w + w
  OBVIOUS
<1>4. b * w \in Nat
  OBVIOUS
<1> QED
  BY <1>1, <1>2, <1>3, <1>4

LEMMA Downwards ==
  ASSUME build \in [locals : LOCALS, inlined : BOOLEAN], NEW l, l = build.locals, NEW k \in 1 .. X + 3
  PROVE  /\ Down(l, k) \in Nat /\ Down(l, k + 1) = Down(l, k) + 3 + l
         /\ Down(l, k) + 4 + l <= KSTKSIZE
<1>1. X \in Nat /\ l \in Nat /\ KSTKSIZE \in Nat /\ (X + 2) * (3 + l) + l + 4 <= KSTKSIZE
  BY Sizes, BacktraceAssumption
<1>2. k - 1 \in Nat /\ X + 2 \in Nat /\ k - 1 <= X + 2 /\ 3 + l \in Nat /\ (k + 1) - 1 = (k - 1) + 1
  BY <1>1
<1>3. PICK a \in Nat, b \in Nat : a = (k - 1) * (3 + l) /\ b = (X + 2) * (3 + l)
  BY <1>2
<1>4. a <= b /\ ((k - 1) + 1) * (3 + l) = a + (3 + l)
  BY <1>2, <1>3, Products
<1>5. b + l + 4 <= KSTKSIZE
  BY <1>1, <1>3
<1>6. Down(l, k) = a /\ Down(l, k + 1) = a + (3 + l)
  BY <1>2, <1>3, <1>4 DEF Down
<1>9. l \in Nat /\ KSTKSIZE \in Nat /\ a \in Nat /\ b \in Nat
  BY <1>1
<1>7. a + 4 + l <= KSTKSIZE
  BY ONLY <1>3, <1>4, <1>5, <1>9
<1>8. a + (3 + l) = a + 3 + l
  BY <1>9
<1> QED
  BY <1>6, <1>7, <1>8

\* The monitor's calls are four at most.
LEMMA FirstDowns ==
  ASSUME NEW l \in Nat
  PROVE  Down(l, 1) = 0 /\ Down(l, 2) = 3 + l /\ Down(l, 3) = 6 + 2 * l /\ Down(l, 4) = 9 + 3 * l
  BY DEF Down

-----------------------------------------------------------------------------
(* What a step does to the frames. *)

LEMMA Top ==
  ASSUME chain \in Seq(Made), chain # <<>>
  PROVE  /\ Len(chain) \in Nat \ {0} /\ top = chain[Len(chain)] /\ top \in Made
         /\ \A k \in 1 .. Len(chain) : chain[k] \in Made /\ Len(chain[k].args) \in Nat
<1>1. Len(chain) \in Nat \ {0}
  BY EmptySeq
<1>2. \A k \in 1 .. Len(chain) : chain[k] \in Made
  OBVIOUS
<1> QED
  BY <1>1, <1>2 DEF top, Last, Made

\* Only the calls' functions matter to where their frames are.
LEMMA SamePlaces ==
  ASSUME NEW c, NEW d, NEW l, NEW n \in Nat, n <= Len(c), n <= Len(d), Len(c) \in Nat, Len(d) \in Nat,
         \A k \in 1 .. n : d[k].fn = c[k].fn
  PROVE  \A k \in 1 .. n : Places(d, l)[k] = Places(c, l)[k]
<1> SUFFICES ASSUME NEW k \in 1 .. n PROVE Places(d, l)[k] = Places(c, l)[k]
  OBVIOUS
<1>1. Beyond(d, k) = Beyond(c, k)
  <2>1. k > 1 => k - 1 \in 1 .. n
    OBVIOUS
  <2> QED
    BY <2>1 DEF Beyond
<1>2. k \in 1 .. Len(c) /\ k \in 1 .. Len(d)
  OBVIOUS
<1> QED
  BY <1>1, <1>2 DEF Places, Place

\* The outer frames stay as they are while their calls and the stack do.
LEMMA StayFramed ==
  ASSUME NEW m \in Nat, NEW n \in Nat, m <= n, NEW c, NEW d, NEW l, NEW p, NEW q, NEW st,
         Spaced(p, n, c, l), Linked(p, n, c, st),
         \A k \in 1 .. m : q[k] = p[k] /\ d[k].fn = c[k].fn /\ d[k].args = c[k].args
  PROVE  Spaced(q, m, d, l) /\ Linked(q, m, d, st)
<1>1. \A k \in 1 .. m : k \in 1 .. n /\ (k # 1 => k - 1 \in 1 .. m)
  OBVIOUS
<1>2. \A k \in 2 .. m : k \in 1 .. m /\ k \in 2 .. n /\ k # 1
  OBVIOUS
<1>3. Spaced(q, m, d, l)
  BY <1>1, <1>2, Zenon DEF Spaced
<1>4. ASSUME NEW k \in 1 .. m
      PROVE  /\ st[q[k]] = IF k = 1 THEN 0 ELSE q[k - 1]
             /\ FunctionAt(st[q[k] + 1]) = IF k = 1 THEN "entry" ELSE d[k - 1].fn
             /\ \A j \in 1 .. Len(d[k].args) : st[q[k] + 1 + j] = d[k].args[j]
  <2>1. q[k] = p[k] /\ d[k].args = c[k].args
    OBVIOUS
  <2>2. k # 1 => q[k - 1] = p[k - 1] /\ d[k - 1].fn = c[k - 1].fn
    BY <1>1
  <2>3. /\ st[p[k]] = IF k = 1 THEN 0 ELSE p[k - 1]
        /\ FunctionAt(st[p[k] + 1]) = IF k = 1 THEN "entry" ELSE c[k - 1].fn
        /\ \A j \in 1 .. Len(c[k].args) : st[p[k] + 1 + j] = c[k].args[j]
    BY <1>1, Zenon DEF Linked
  <2>4. st[q[k]] = IF k = 1 THEN 0 ELSE q[k - 1]
    BY <2>1, <2>2, <2>3
  <2>5. FunctionAt(st[q[k] + 1]) = IF k = 1 THEN "entry" ELSE d[k - 1].fn
    BY <2>1, <2>2, <2>3
  <2> QED
    BY <2>1, <2>3, <2>4, <2>5, Zenon
<1> QED
  BY <1>3, <1>4, Zenon DEF Linked

\* The same after a call, which writes below them.
Unmoved(p, q, n, c, d, st, tt, low, high) ==
  /\ n \in Nat /\ low \in Int /\ high \in Int
  /\ \A k \in 1 .. n : /\ q[k] = p[k] /\ p[k] \in Int /\ low <= p[k]
                       /\ p[k] + 2 + Len(c[k].args) <= high /\ Len(c[k].args) \in Nat
                       /\ d[k].fn = c[k].fn /\ d[k].args = c[k].args
  /\ \A a \in low .. high : tt[a] = st[a]

LEMMA StayLinked ==
  ASSUME NEW p, NEW q, NEW n, NEW c, NEW d, NEW st, NEW tt, NEW low, NEW high,
         Unmoved(p, q, n, c, d, st, tt, low, high), Linked(p, n, c, st)
  PROVE  Linked(q, n, d, tt)
<1> USE DEF Unmoved
<1> SUFFICES ASSUME NEW k \in 1 .. n
             PROVE  /\ tt[q[k]] = IF k = 1 THEN 0 ELSE q[k - 1]
                    /\ FunctionAt(tt[q[k] + 1]) = IF k = 1 THEN "entry" ELSE d[k - 1].fn
                    /\ \A j \in 1 .. Len(d[k].args) : tt[q[k] + 1 + j] = d[k].args[j]
  BY DEF Linked
<1>1. PICK x \in Int, w \in Nat : x = p[k] /\ w = Len(c[k].args) /\ low <= x /\ x + 2 + w <= high
  OBVIOUS
<1>2. /\ x \in low .. high /\ x + 1 \in low .. high
      /\ \A j \in 1 .. w : x + 1 + j \in low .. high
  <2>1. \A lo, hi, y \in Int, v \in Nat : lo <= y /\ y + 2 + v <= hi =>
          y \in lo .. hi /\ y + 1 \in lo .. hi /\ \A j \in 1 .. v : y + 1 + j \in lo .. hi
    OBVIOUS
  <2> QED
    BY <1>1, <2>1, Zenon
<1>3. /\ tt[x] = st[x] /\ tt[x + 1] = st[x + 1]
      /\ \A j \in 1 .. w : tt[x + 1 + j] = st[x + 1 + j]
  BY <1>2
<1>4. /\ st[x] = IF k = 1 THEN 0 ELSE p[k - 1]
      /\ FunctionAt(st[x + 1]) = IF k = 1 THEN "entry" ELSE c[k - 1].fn
      /\ \A j \in 1 .. w : st[x + 1 + j] = c[k].args[j]
  <2>1. /\ st[p[k]] = IF k = 1 THEN 0 ELSE p[k - 1]
        /\ FunctionAt(st[p[k] + 1]) = IF k = 1 THEN "entry" ELSE c[k - 1].fn
        /\ \A j \in 1 .. Len(c[k].args) : st[p[k] + 1 + j] = c[k].args[j]
    BY Zenon DEF Linked
  <2> QED
    BY <1>1, <2>1, Zenon
<1>5. k # 1 => q[k - 1] = p[k - 1] /\ d[k - 1].fn = c[k - 1].fn
  <2>1. k # 1 => k - 1 \in 1 .. n
    OBVIOUS
  <2> QED
    BY <2>1
<1>6. q[k] = p[k] /\ d[k].args = c[k].args
  OBVIOUS
<1>7. tt[q[k]] = IF k = 1 THEN 0 ELSE q[k - 1]
  BY <1>1, <1>3, <1>4, <1>5, <1>6
<1>8. FunctionAt(tt[q[k] + 1]) = IF k = 1 THEN "entry" ELSE d[k - 1].fn
  BY <1>1, <1>3, <1>4, <1>5, <1>6
<1>9. \A j \in 1 .. Len(d[k].args) : tt[q[k] + 1 + j] = d[k].args[j]
  <2>1. \A j \in 1 .. w : tt[x + 1 + j] = c[k].args[j]
    BY <1>3, <1>4
  <2>2. \A y, v : y = x /\ v = c[k].args => \A j \in 1 .. w : tt[y + 1 + j] = v[j]
    BY <2>1
  <2>3. \A j \in 1 .. w : tt[q[k] + 1 + j] = d[k].args[j]
    <3>1. q[k] = x /\ d[k].args = c[k].args
      BY <1>1, <1>6
    <3> QED
      BY <3>1, <2>2, Zenon
  <2>4. Len(d[k].args) = w
    BY <1>1, <1>6
  <2> QED
    BY <2>3, <2>4
<1> QED
  BY <1>7, <1>8, <1>9, Zenon

\* The words of the stack after a call: e is %esp before, and symbol the address pushed.
Word(st, args, e, len, symbol, fp, a) ==
  CASE a \in e - len .. e - 1 -> args[a - (e - len) + 1]
    [] a = (e - len) - 1 -> symbol
    [] a = (e - len) - 2 -> fp
    [] OTHER -> st[a]

Placed(st, args, e, len, symbol, fp) ==
  LET word(a) == Word(st, args, e, len, symbol, fp, a) IN
  /\ \A a \in Int : a >= e => word(a) = st[a]
  /\ word(e - len - 1) = symbol /\ word(e - len - 2) = fp
  /\ \A j \in 1 .. len : word(e - len - 1 + j) = args[j]
  /\ \A a \in Int : word(a) \in {symbol, fp, st[a]} \/ \E j \in 1 .. len : word(a) = args[j]

LEMMA Words ==
  ASSUME NEW st, NEW args, NEW e \in Int, NEW len \in Nat, NEW symbol, NEW fp
  PROVE  Placed(st, args, e, len, symbol, fp)
<1>1. \A a \in Int : a >= e => Word(st, args, e, len, symbol, fp, a) = st[a]
  BY DEF Word
<1>2. Word(st, args, e, len, symbol, fp, e - len - 1) = symbol
  BY DEF Word
<1>3. Word(st, args, e, len, symbol, fp, e - len - 2) = fp
  BY DEF Word
<1>4. \A j \in 1 .. len : Word(st, args, e, len, symbol, fp, e - len - 1 + j) = args[j]
  <2> SUFFICES ASSUME NEW j \in 1 .. len
               PROVE  Word(st, args, e, len, symbol, fp, e - len - 1 + j) = args[j]
    OBVIOUS
  <2>1. e - len - 1 + j \in e - len .. e - 1 /\ (e - len - 1 + j) - (e - len) + 1 = j
    OBVIOUS
  <2> QED
    BY <2>1 DEF Word
<1>5. ASSUME NEW a \in Int
      PROVE  \/ Word(st, args, e, len, symbol, fp, a) \in {symbol, fp, st[a]}
             \/ \E j \in 1 .. len : Word(st, args, e, len, symbol, fp, a) = args[j]
  <2>1. CASE a \in e - len .. e - 1
    <3>1. a - (e - len) + 1 \in 1 .. len
      BY <2>1
    <3> QED
      BY <2>1, <3>1 DEF Word
  <2>2. CASE a \notin e - len .. e - 1
    BY <2>2 DEF Word
  <2> QED
    BY <2>1, <2>2
<1> QED
  BY <1>1, <1>2, <1>3, <1>4, <1>5, Zenon DEF Placed

Fitting(args, len, e, low, high, new) ==
  /\ len \in Nat /\ len = Len(args) /\ e \in Int /\ e = esp /\ new \in Int /\ new = e - len - 2
  /\ low \in Nat /\ low = bootstack /\ high \in Nat /\ high = bootstacktop + 6
  /\ new >= low /\ e <= high

Written(f, args, len, e, low, high, new) ==
  /\ stack' \in [low .. high -> Int]
  /\ ebp' = new /\ esp' = new - build.locals
  /\ stack'[new] = ebp /\ FunctionAt(stack'[new + 1]) = f
  /\ \A j \in 1 .. len : stack'[new + 1 + j] = args[j]
  /\ \A a \in e .. high : stack'[a] = stack[a]

LEMMA PushedWords ==
  ASSUME Types, ebp \in Int,
         NEW f \in Names, NEW m \in 0 .. 2, NEW args \in Seq(Int), Pushed(f, m, args),
         NEW len, NEW e, NEW low, NEW high, NEW new, Fitting(args, len, e, low, high, new)
  PROVE  Written(f, args, len, e, low, high, new)
<1> USE DEF Fitting, Written
<1> DEFINE symbol == Start(f) + m
           word(a) == Word(stack, args, e, len, symbol, ebp, a)
<1>1. stack \in [low .. high -> Int]
  BY DEF Types
<1>2. \A j \in 1 .. len : args[j] \in Int
  OBVIOUS
<1>3. symbol \in Int /\ FunctionAt(symbol) = f
  BY Symbols
<1>4. stack' = [a \in low .. high |-> word(a)]
  <2>1. DOMAIN stack = low .. high
    BY <1>1
  <2>2. /\ stack' = [a \in DOMAIN stack |->
                       CASE a \in esp - Len(args) .. esp - 1 -> args[a - (esp - Len(args)) + 1]
                         [] a = (esp - Len(args)) - 1 -> Start(f) + m
                         [] a = (esp - Len(args)) - 2 -> ebp
                         [] OTHER -> stack[a]]
    BY DEF Pushed
  <2> QED
    BY <2>1, <2>2 DEF Word
<1>5. ebp' = e - len - 2 /\ esp' = e - len - 2 - build.locals
  <2>1. ebp' = (esp - Len(args)) - 2 /\ esp' = (esp - Len(args)) - 2 - build.locals
    BY DEF Pushed
  <2> QED
    BY <2>1
<1>6. /\ \A a \in Int : a >= e => word(a) = stack[a]
      /\ word(e - len - 1) = symbol /\ word(e - len - 2) = ebp
      /\ \A j \in 1 .. len : word(e - len - 1 + j) = args[j]
      /\ \A a \in Int : word(a) \in {symbol, ebp, stack[a]} \/ \E j \in 1 .. len : word(a) = args[j]
  <2> HIDE DEF symbol
  <2>1. e \in Int /\ len \in Nat
    OBVIOUS
  <2>2. Placed(stack, args, e, len, symbol, ebp)
    BY <2>1, Words, Zenon
  <2> QED
    BY <2>2, Zenon DEF Placed
<1> HIDE DEF symbol, word
<1>7. /\ new \in low .. high /\ new + 1 \in low .. high /\ new + 1 = e - len - 1
      /\ \A j \in 1 .. len : new + 1 + j \in low .. high /\ new + 1 + j = e - len - 1 + j
      /\ \A a \in low .. high : a \in Int
      /\ \A a \in e .. high : a \in Int /\ a >= e /\ a \in low .. high
  <2>1. new = e - len - 2 /\ new >= low /\ e <= high
    OBVIOUS
  <2> QED
    BY <2>1
<1>8. stack' \in [low .. high -> Int]
  <2>1. ASSUME NEW a \in low .. high PROVE word(a) \in Int
    <3>1. stack[a] \in Int /\ symbol \in Int /\ ebp \in Int
      BY <1>1, <1>3
    <3>2. word(a) \in {symbol, ebp, stack[a]} \/ \E j \in 1 .. len : word(a) = args[j]
      BY <1>6, <1>7, Zenon
    <3> QED
      BY <3>1, <3>2, <1>2, Zenon
  <2> QED
    BY <1>4, <2>1
<1>9. \A a \in low .. high : stack'[a] = word(a)
  BY <1>4
<1>10. stack'[new] = ebp /\ stack'[new + 1] = symbol
  BY <1>6, <1>7, <1>9
<1>11. \A j \in 1 .. len : stack'[new + 1 + j] = args[j]
  BY <1>6, <1>7, <1>9
<1>12. \A a \in e .. high : stack'[a] = stack[a]
  BY <1>6, <1>7, <1>9
<1> QED
  BY <1>3, <1>5, <1>8, <1>10, <1>11, <1>12

\* Going on within a function leaves the frames alone.
LEMMA AdvanceStep ==
  ASSUME Types, Frames, chain # <<>>, NEW m \in 0 .. 2, chain' = Advanced(m),
         UNCHANGED <<stack_vars, build>>
  PROVE  Frames' /\ chain' \in Seq(Made)
<1>1. PICK n \in Nat \ {0}, l \in Nat : n = Len(chain) /\ l = build.locals
  BY Top, Sizes DEF Types
<1>2. chain \in Seq(Made) /\ top = chain[n]
  BY <1>1, Top DEF Types
<1>3. /\ chain' \in Seq(Made) /\ Len(chain') = n
      /\ \A k \in 1 .. n : chain'[k].fn = chain[k].fn /\ chain'[k].args = chain[k].args
  <2>1. /\ chain' \in Seq(Made) /\ Len(chain') = n
        /\ \A k \in 1 .. n - 1 : chain'[k] = chain[k]
        /\ chain'[n].fn = chain[n].fn /\ chain'[n].args = chain[n].args
    BY <1>1, <1>2, ChainAdvance
  <2> QED
    BY <2>1
<1>4. PICK p, q : p = Places(chain, l) /\ q = Places(chain', l)
  OBVIOUS
<1>5. Places(chain', l) = q /\ build'.locals = l /\ stack' = stack /\ esp' = esp /\ ebp' = ebp
  BY <1>1, <1>4 DEF stack_vars
<1>6. \A k \in 1 .. n : q[k] = p[k]
  BY <1>1, <1>3, <1>4, SamePlaces
<1>7. /\ ebp = p[n] /\ esp = ebp - l /\ Spaced(p, n, chain, l) /\ Linked(p, n, chain, stack)
  BY <1>1, <1>4 DEF Frames, Framed
<1>8. Spaced(q, n, chain', l) /\ Linked(q, n, chain', stack)
  <2>1. /\ n \in Nat /\ n <= n
        /\ \A k \in 1 .. n : q[k] = p[k] /\ chain'[k].fn = chain[k].fn /\ chain'[k].args = chain[k].args
    BY <1>3, <1>6
  <2> QED
    BY ONLY <2>1, <1>7, StayFramed
<1>10. q[n] = p[n]
  BY <1>6
<1> QED
  BY <1>3, <1>4, <1>5, <1>7, <1>8, <1>10 DEF Frames, Framed

\* A call puts a frame below the others.
LEMMA CallStep ==
  ASSUME Types, Frames, chain # <<>>, NEW m \in 0 .. 2, NEW f \in Names, NEW args \in Seq(Int),
         Call(m, f, args), UNCHANGED build,
         NEW n \in Nat \ {0}, n = Len(chain), NEW l \in Nat, l = build.locals,
         NEW len \in Nat, len = Len(args),
         NEW new \in Int, new = Place(chain', l, n + 1), new + 2 + len = Place(chain, l, n) - l,
         bootstack + l <= new
  PROVE  /\ Frames' /\ stack' \in [bootstack .. bootstacktop + 6 -> Int]
         /\ chain' \in Seq(Made)
<1>1. /\ chain \in Seq(Made) /\ top = chain[n] /\ top.fn \in Names
      /\ \A k \in 1 .. n : Len(chain[k].args) \in Nat
  BY Top DEF Types, Made
<1>2. /\ chain' \in Seq(Made) /\ Len(chain') = n + 1
      /\ \A k \in 1 .. n : chain'[k].fn = chain[k].fn /\ chain'[k].args = chain[k].args
      /\ chain'[n + 1].args = args
  <2>1. chain' = Append(Advanced(m), [fn |-> f, args |-> args, at |-> 0])
    BY DEF Call
  <2>2. /\ chain' \in Seq(Made) /\ Len(chain') = n + 1
        /\ \A k \in 1 .. n - 1 : chain'[k] = chain[k]
        /\ chain'[n] = [fn |-> top.fn, args |-> top.args, at |-> m]
        /\ chain'[n + 1] = [fn |-> f, args |-> args, at |-> 0]
    BY <1>1, <2>1, ChainCall
  <2>3. \A k \in 1 .. n : k \in 1 .. n - 1 \/ k = n
    OBVIOUS
  <2> QED
    BY <1>1, <2>2, <2>3
<1>3. PICK p, q : p = Places(chain, l) /\ q = Places(chain', l)
  OBVIOUS
<1>4. /\ ebp = p[n] /\ esp = ebp - l /\ Spaced(p, n, chain, l) /\ Linked(p, n, chain, stack)
  BY <1>3 DEF Frames, Framed
<1>5. \A k \in 1 .. n : q[k] = p[k]
  <2>1. /\ n \in Nat /\ n <= Len(chain) /\ n <= Len(chain') /\ Len(chain) \in Nat /\ Len(chain') \in Nat
        /\ \A k \in 1 .. n : chain'[k].fn = chain[k].fn
    BY <1>2
  <2>2. \A k \in 1 .. n : Places(chain', l)[k] = Places(chain, l)[k]
    BY ONLY <2>1, SamePlaces
  <2> QED
    BY <1>3, <2>2, Zenon
<1>6. p[n] = Place(chain, l, n) /\ q[n + 1] = new
  BY <1>2, <1>3 DEF Places
<1>7. bootstack \in Nat /\ bootstacktop \in Nat
  BY Sizes DEF Types
<1>8. PICK here \in Int, own \in Nat, low \in Nat, end \in Nat :
        /\ here = p[n] /\ own = Len(chain[n].args) /\ low = bootstack /\ end = bootstacktop
        /\ here + 2 + own <= end /\ new + 2 + len = here - l /\ low + l <= new
  <2>1. p[n] = bootstacktop - 2 - Down(l, n) - Beyond(chain, n)
    BY <1>6 DEF Place
  <2>2. p[n] \in Int
    <3>1. Down(l, n) \in Int
      BY DEF Down
    <3>2. Beyond(chain, n) \in Int
      BY DEF Beyond
    <3> QED
      BY <2>1, <3>1, <3>2, <1>7
  <2>3. p[n] + 2 + Len(chain[n].args) <= bootstacktop
    BY <1>4 DEF Spaced
  <2>4. Len(chain[n].args) \in Nat
    BY <1>1
  <2>5. new + 2 + len = p[n] - l
    BY <1>6
  <2> QED
    BY <2>2, <2>3, <2>4, <2>5, <1>7, Zenon
<1>9. PICK e \in Int, high \in Nat : e = here - l /\ high = end + 6
  OBVIOUS
<1>10. /\ new <= here /\ new + 2 + len <= end /\ new = e - len - 2 /\ new >= low /\ e <= high
       /\ e <= here
  <2>1. here + 2 + own <= end /\ e = here - l /\ new + 2 + len = e /\ low + l <= new /\ high = end + 6
    BY <1>8, <1>9
  <2>2. /\ here \in Int /\ e \in Int /\ new \in Int /\ low \in Nat /\ end \in Nat /\ high \in Nat
        /\ l \in Nat /\ own \in Nat /\ len \in Nat
    OBVIOUS
  <2> QED
    BY ONLY <2>1, <2>2
<1>11. esp = e /\ ebp = here
  BY <1>4, <1>8, <1>9
<1>12. /\ stack' \in [low .. high -> Int]
       /\ ebp' = new /\ esp' = new - l
       /\ stack'[new] = here /\ FunctionAt(stack'[new + 1]) = top.fn
       /\ \A j \in 1 .. len : stack'[new + 1 + j] = args[j]
       /\ \A a \in e .. high : stack'[a] = stack[a]
  <2>1. Pushed(top.fn, m, args)
    BY DEF Call
  <2>2. top.fn \in Names /\ ebp \in Int
    BY <1>1, <1>11
  <2>4. Fitting(args, len, e, low, high, new)
    BY <1>8, <1>9, <1>10, <1>11 DEF Fitting
  <2>3. Written(top.fn, args, len, e, low, high, new)
    BY <2>1, <2>2, <2>4, PushedWords
  <2> QED
    BY <2>3, <1>11 DEF Written
<1>13. \A k \in 1 .. n : /\ p[k] \in Int /\ here <= p[k] /\ low + l <= p[k]
                         /\ p[k] + 2 + Len(chain[k].args) <= end
  <2> SUFFICES ASSUME NEW k \in 1 .. n
               PROVE  /\ p[k] \in Int /\ here <= p[k] /\ low + l <= p[k]
                      /\ p[k] + 2 + Len(chain[k].args) <= end
    OBVIOUS
  <2>1. p[k] \in Int
    <3>1. Down(l, k) \in Int
      BY DEF Down
    <3>2. Beyond(chain, k) \in Int
      BY DEF Beyond
    <3>3. p[k] = bootstacktop - 2 - Down(l, k) - Beyond(chain, k)
      BY <1>3 DEF Places, Place
    <3> QED
      BY <3>1, <3>2, <3>3, <1>7
  <2>2. n \in 1 .. n /\ k <= n
    OBVIOUS
  <2>3. p[n] <= p[k] /\ bootstack + l <= p[k] /\ p[k] + 2 + Len(chain[k].args) <= bootstacktop
    BY <2>2, <1>4 DEF Spaced
  <2> QED
    BY <2>1, <2>3, <1>8
<1>14. Linked(q, n, chain', stack')
  <2>1. \A a \in here .. end : stack'[a] = stack[a]
    <3>1. \A a \in here .. end : a \in e .. high
      BY <1>9, <1>10
    <3> QED
      BY <3>1, <1>12
  <2>2. \A k \in 1 .. n : /\ q[k] = p[k] /\ p[k] \in Int /\ here <= p[k]
                          /\ p[k] + 2 + Len(chain[k].args) <= end /\ Len(chain[k].args) \in Nat
                          /\ chain'[k].fn = chain[k].fn /\ chain'[k].args = chain[k].args
    BY <1>1, <1>2, <1>5, <1>13, Zenon
  <2>3. n \in Nat /\ here \in Int /\ end \in Int
    OBVIOUS
  <2>4. Unmoved(p, q, n, chain, chain', stack, stack', here, end)
    BY <2>1, <2>2, <2>3, Zenon DEF Unmoved
  <2> QED
    BY <1>4, <2>4, StayLinked
<1>15. Linked(q, n + 1, chain', stack')
  <2>1. ASSUME NEW k \in 1 .. n + 1
        PROVE  /\ stack'[q[k]] = IF k = 1 THEN 0 ELSE q[k - 1]
               /\ FunctionAt(stack'[q[k] + 1]) = IF k = 1 THEN "entry" ELSE chain'[k - 1].fn
               /\ \A j \in 1 .. Len(chain'[k].args) : stack'[q[k] + 1 + j] = chain'[k].args[j]
    <3>1. CASE k \in 1 .. n
      BY <3>1, <1>14, Zenon DEF Linked
    <3>2. CASE k = n + 1
      <4>1. k # 1 /\ k - 1 = n /\ n \in 1 .. n
        BY <3>2
      <4>2. q[k] = new /\ q[k - 1] = here /\ chain'[k - 1].fn = top.fn /\ chain'[k].args = args
        BY <3>2, <4>1, <1>1, <1>2, <1>5, <1>6, <1>8
      <4> QED
        BY <4>1, <4>2, <1>12, Zenon
    <3> QED
      BY <3>1, <3>2
  <2> QED
    BY <2>1, Zenon DEF Linked
<1>16. Spaced(q, n + 1, chain', l)
  <2>1. Spaced(q, n, chain', l)
    <3>1. /\ n \in Nat /\ n <= n
          /\ \A k \in 1 .. n : q[k] = p[k] /\ chain'[k].fn = chain[k].fn /\ chain'[k].args = chain[k].args
      BY <1>2, <1>5
    <3> QED
      BY ONLY <3>1, <1>4, StayFramed
  <2>2. ASSUME NEW k \in 1 .. n + 1
        PROVE  bootstack + l <= q[k] /\ q[k] + 2 + Len(chain'[k].args) <= bootstacktop
    <3>1. CASE k \in 1 .. n
      BY <3>1, <2>1 DEF Spaced
    <3>2. CASE k = n + 1
      BY <3>2, <1>2, <1>6, <1>8, <1>10
    <3> QED
      BY <3>1, <3>2
  <2>3. ASSUME NEW k \in 2 .. n + 1
        PROVE  q[k] + 2 + Len(chain'[k].args) = q[k - 1] - l
    <3>1. CASE k \in 2 .. n
      BY <3>1, <2>1 DEF Spaced
    <3>2. CASE k = n + 1
      <4>1. k - 1 = n /\ n \in 1 .. n
        BY <3>2
      <4>2. q[k] = new /\ q[k - 1] = here /\ Len(chain'[k].args) = len
        BY <3>2, <4>1, <1>2, <1>5, <1>6, <1>8
      <4> QED
        BY <4>2, <1>8
    <3> QED
      BY <3>1, <3>2
  <2>4. ASSUME NEW j \in 1 .. n + 1, NEW k \in 1 .. n + 1, j <= k
        PROVE  q[k] <= q[j]
    <3>1. CASE k \in 1 .. n
      <4>1. j \in 1 .. n
        BY <3>1, <2>4
      <4> QED
        BY <3>1, <4>1, <2>1, <2>4 DEF Spaced
    <3>2. CASE k = n + 1 /\ j \in 1 .. n
      <4>1. q[k] = new /\ q[j] = p[j] /\ p[j] \in Int /\ here <= p[j]
        BY <3>2, <1>5, <1>6, <1>13
      <4> QED
        BY <4>1, <1>10
    <3>3. CASE k = n + 1 /\ j = n + 1
      BY <3>3, <1>6
    <3> QED
      BY <3>1, <3>2, <3>3
  <2> QED
    BY <2>2, <2>3, <2>4 DEF Spaced
<1>17. /\ Len(chain') = n + 1 /\ n + 1 # 0 /\ Places(chain', l) = q /\ build'.locals = l
       /\ ebp' = q[n + 1] /\ esp' = ebp' - l
  BY <1>2, <1>3, <1>6, <1>12
<1>18. Frames'
  BY <1>15, <1>16, <1>17 DEF Frames, Framed
<1>19. stack' \in [bootstack .. bootstacktop + 6 -> Int]
  BY <1>8, <1>9, <1>12
<1> QED
  BY <1>2, <1>18, <1>19

\* The call of i386_init finds an empty stack.
LEMMA EntryStep ==
  ASSUME Types, Frames, Entry
  PROVE  /\ Frames' /\ stack' \in [bootstack .. bootstacktop + 6 -> Int]
         /\ chain' \in Seq(Made) /\ Len(chain') = 1 /\ chain'[1] = I386Init(0)
<1>1. PICK l \in Nat : l = build.locals /\ 4 * l + 14 <= KSTKSIZE
  BY Sizes DEF Types
<1>2. PICK low \in Nat, end \in Nat : low = bootstack /\ end = bootstacktop /\ end = low + KSTKSIZE
  BY Sizes DEF Types
<1>3. KSTKSIZE \in Nat
  BY BacktraceAssumption
<1>4. PICK high \in Nat, new \in Int : high = end + 6 /\ new = end - 2
  OBVIOUS
<1>5. new >= low + l /\ new + 2 = end /\ end <= high /\ new = end - 0 - 2 /\ new >= low
  BY <1>1, <1>2, <1>3, <1>4
<1>6. chain = <<>> /\ Pushed("entry", 1, <<>>) /\ build' = build
  BY DEF Entry
<1>7. ebp = 0 /\ esp = end
  BY <1>2, <1>6 DEF Frames, Framed
<1>8. Written("entry", <<>>, 0, end, low, high, new)
  <2>1. Fitting(<<>>, 0, end, low, high, new)
    BY <1>2, <1>4, <1>5, <1>7 DEF Fitting
  <2>2. "entry" \in Names /\ 1 \in 0 .. 2 /\ <<>> \in Seq(Int) /\ ebp \in Int
    BY <1>7 DEF Names
  <2> QED
    BY <1>6, <2>1, <2>2, PushedWords
<1>9. chain' = <<I386Init(0)>>
  BY DEF Entry, I386Init
<1>10. I386Init(0) \in Made
  BY DEF I386Init, Made, Names
<1>11. chain' \in Seq(Made) /\ Len(chain') = 1 /\ chain'[1] = I386Init(0)
  BY <1>9, <1>10
<1>12. PICK q : q = Places(chain', l)
  OBVIOUS
<1>13. q[1] = new
  <2>1. Place(chain', l, 1) = bootstacktop - 2 - 0 - 0
    <3>1. Down(l, 1) = 0
      BY FirstDowns
    <3>2. Beyond(chain', 1) = 0
      BY <1>11 DEF Beyond, I386Init
    <3> QED
      BY <3>1, <3>2 DEF Place
  <2> QED
    BY <1>2, <1>4, <1>11, <1>12, <2>1 DEF Places
<1>14. chain'[1].args = <<>> /\ Len(chain'[1].args) = 0
  BY <1>11 DEF I386Init
<1>15. \A k \in 1 .. 1 : k = 1
  OBVIOUS
<1>16. Spaced(q, 1, chain', l)
  <2>1. bootstack + l <= q[1] /\ q[1] + 2 + Len(chain'[1].args) <= bootstacktop
    BY <1>2, <1>5, <1>13, <1>14
  <2>2. q[1] <= q[1]
    BY <1>13
  <2> QED
    BY <1>15, <2>1, <2>2 DEF Spaced
<1>17. Linked(q, 1, chain', stack')
  <2>1. stack'[new] = 0 /\ FunctionAt(stack'[new + 1]) = "entry"
    BY <1>7, <1>8 DEF Written
  <2> QED
    BY <1>13, <1>14, <1>15, <2>1 DEF Linked
<1>18. ebp' = q[1] /\ esp' = ebp' - l
  BY <1>1, <1>8, <1>13 DEF Written
<1>19. build'.locals = l
  BY <1>1, <1>6
<1>20. Frames'
  BY <1>11, <1>12, <1>16, <1>17, <1>18, <1>19 DEF Frames, Framed
<1>21. stack' \in [bootstack .. bootstacktop + 6 -> Int]
  BY <1>2, <1>4, <1>8 DEF Written
<1> QED
  BY <1>11, <1>20, <1>21

\* A function that returns leaves its caller's frame innermost.
LEMMA ReturnStep ==
  ASSUME Types, Frames, Return, UNCHANGED build, NEW n \in Nat, n = Len(chain), n >= 2
  PROVE  Frames' /\ UNCHANGED stack /\ chain' \in Seq(Made)
<1>1. chain \in Seq(Made) /\ chain # <<>>
  BY EmptySeq DEF Types
<1>2. top = chain[n]
  BY <1>1, Top
<1>3. /\ chain' \in Seq(Made) /\ Len(chain') = n - 1
      /\ \A k \in 1 .. n - 1 : chain'[k] = chain[k]
  BY <1>1, ChainReturn DEF Return
<1>4. PICK m \in Nat : m = n - 1 /\ m <= n /\ m # 0
  OBVIOUS
<1>5. PICK l : l = build.locals
  OBVIOUS
<1>6. PICK p, q : p = Places(chain, l) /\ q = Places(chain', l)
  OBVIOUS
<1>7. /\ ebp = p[n] /\ esp = ebp - l /\ Spaced(p, n, chain, l) /\ Linked(p, n, chain, stack)
  BY <1>5, <1>6 DEF Frames, Framed
<1>8. \A k \in 1 .. m : q[k] = p[k]
  <2>1. /\ m \in Nat /\ m <= Len(chain) /\ m <= Len(chain') /\ Len(chain) \in Nat /\ Len(chain') \in Nat
        /\ \A k \in 1 .. m : chain'[k].fn = chain[k].fn
    BY <1>3, <1>4
  <2>2. \A k \in 1 .. m : Places(chain', l)[k] = Places(chain, l)[k]
    BY ONLY <2>1, SamePlaces
  <2> QED
    BY <1>6, <2>2, Zenon
<1>9. Spaced(q, m, chain', l) /\ Linked(q, m, chain', stack)
  <2>1. /\ n \in Nat /\ m \in Nat /\ m <= n
        /\ \A k \in 1 .. m : q[k] = p[k] /\ chain'[k].fn = chain[k].fn /\ chain'[k].args = chain[k].args
    BY <1>3, <1>4, <1>8
  <2> QED
    BY ONLY <2>1, <1>7, StayFramed
<1>10. ebp' = q[m] /\ esp' = ebp' - l
  <2>1. n \in 1 .. n /\ n # 1 /\ n \in 2 .. n /\ n - 1 = m /\ m \in 1 .. m
    BY <1>4
  <2>2. stack[p[n]] = p[m]
    BY <2>1, <1>7 DEF Linked
  <2>3. p[n] + 2 + Len(chain[n].args) = p[m] - l
    BY <2>1, <1>7 DEF Spaced
  <2>4. q[m] = p[m]
    BY <2>1, <1>8
  <2>5. ebp' = stack[ebp] /\ esp' = ebp + 2 + Len(top.args)
    BY DEF Return
  <2> QED
    BY <1>2, <1>7, <2>2, <2>3, <2>4, <2>5
<1>11. build'.locals = l /\ stack' = stack /\ Len(chain') = m
  BY <1>3, <1>4, <1>5 DEF Return
<1>12. Frames'
  BY <1>4, <1>6, <1>9, <1>10, <1>11 DEF Frames, Framed
<1> QED
  BY <1>3, <1>11, <1>12

-----------------------------------------------------------------------------
(* Which calls are in progress when a function is innermost. *)

LEMMA Innermost ==
  ASSUME chain \in Seq(Made), Shape, NEW n \in Nat \ {0}, n = Len(chain)
  PROVE  /\ top.fn = "i386_init" => n = 1 /\ (Starting \/ Tested)
         /\ top.fn = "test_backtrace" => Testing /\ n \in 2 .. X + 2
         /\ top.fn = "monitor" => Monitoring /\ n = 2
         /\ top.fn = "runcmd" => Monitoring /\ n = 3 /\ \E j \in {0, 1} : chain[3] = Runcmd(j)
         /\ top.fn = "mon_backtrace" =>
              \/ Graded /\ n = X + 3
              \/ Monitoring /\ n = 3 /\ \E j \in {0, 1} : chain[3] = Reader(<<1, argv, 0>>, j)
              \/ Monitoring /\ n = 4
<1>1. top = chain[n]
  BY DEF top, Last
<1>2. CASE Starting \/ Tested
  <2>1. n = 1 /\ top.fn = "i386_init"
    BY <1>1, <1>2 DEF Starting, Tested, I386Init
  <2> QED
    BY <1>2, <2>1
<1>3. CASE Testing
  <2>1. chain[n].fn = "test_backtrace" /\ n \in 2 .. X + 2
    BY <1>3 DEF Testing, Test
  <2> QED
    BY <1>1, <1>3, <2>1
<1>4. CASE Graded
  <2>1. n = X + 3 /\ chain[n].fn = "mon_backtrace"
    BY <1>4 DEF Graded, Reader
  <2> QED
    BY <1>1, <1>4, <2>1
<1>5. CASE Monitoring
  <2>1. n = 2 \/ n = 3 \/ n = 4
    BY <1>5 DEF Monitoring
  <2>2. CASE n = 2
    <3>1. chain[n].fn = "monitor"
      BY <1>5, <2>2 DEF Monitoring
    <3> QED
      BY <1>1, <1>5, <2>2, <3>1
  <2>3. CASE n = 3
    <3>1. PICK j \in {0, 1} : chain[3] = Runcmd(j) \/ chain[3] = Reader(<<1, argv, 0>>, j)
      BY <1>5, <2>3 DEF Monitoring
    <3>2. CASE chain[3] = Runcmd(j)
      <4>1. top.fn = "runcmd"
        BY <1>1, <2>3, <3>2 DEF Runcmd
      <4> QED
        BY <1>5, <2>3, <3>2, <4>1
    <3>3. CASE chain[3] = Reader(<<1, argv, 0>>, j)
      <4>1. top.fn = "mon_backtrace"
        BY <1>1, <2>3, <3>3 DEF Reader
      <4> QED
        BY <1>5, <2>3, <3>3, <4>1
    <3> QED
      BY <3>1, <3>2, <3>3
  <2>4. CASE n = 4
    <3>1. PICK j \in {0, 1} : chain[4] = Reader(<<1, argv, 0>>, j)
      BY <1>5, <2>4 DEF Monitoring
    <3>2. top.fn = "mon_backtrace"
      BY <1>1, <2>4, <3>1 DEF Reader
    <3> QED
      BY <1>5, <2>4, <3>2
  <2> QED
    BY <2>1, <2>2, <2>3, <2>4
<1> QED
  BY <1>2, <1>3, <1>4, <1>5 DEF Shape

LEMMA Quiet ==
  ASSUME NEW n \in Nat \ {0}, n = Len(chain'), chain'[n].fn # "mon_backtrace" \/ chain'[n].at # 1
  PROVE  Walking'
<1>1. top' = chain'[n]
  BY DEF top, Last
<1> QED
  BY <1>1 DEF Walking

\* The calls of test_backtrace are the deepest.
LEMMA TestRoom ==
  ASSUME build \in [locals : LOCALS, inlined : BOOLEAN], NEW l, l = build.locals, NEW k \in 1 .. X + 2
  PROVE  /\ bootstacktop - 2 - Down(l, k) \in Int /\ bootstacktop - 2 - Down(l, k + 1) \in Int
         /\ (bootstacktop - 2 - Down(l, k + 1)) + 2 + 1 = (bootstacktop - 2 - Down(l, k)) - l
         /\ bootstack + l <= bootstacktop - 2 - Down(l, k + 1) - 2
<1>1. l \in Nat /\ X \in Nat /\ bootstack \in Nat /\ bootstacktop = bootstack + KSTKSIZE
  BY Sizes
<1>2. KSTKSIZE \in Nat
  BY BacktraceAssumption
<1>3. k \in 1 .. X + 3 /\ k + 1 \in 1 .. X + 3
  BY <1>1
<1>4. PICK a, b : a = Down(l, k) /\ b = Down(l, k + 1)
  OBVIOUS
<1>5. a \in Nat /\ b = a + 3 + l /\ b + 4 + l <= KSTKSIZE
  <2>1. Down(l, k) \in Nat /\ Down(l, k + 1) = Down(l, k) + 3 + l
    BY <1>3, Downwards
  <2>2. Down(l, k + 1) + 4 + l <= KSTKSIZE
    BY <1>3, Downwards
  <2> QED
    BY <1>4, <2>1, <2>2
<1>6. PICK low, size : low = bootstack /\ size = KSTKSIZE
  OBVIOUS
<1>7. low \in Nat /\ size \in Nat /\ l \in Nat /\ a \in Nat /\ b = a + 3 + l /\ b + 4 + l <= size
  BY <1>1, <1>2, <1>5, <1>6
<1>8. /\ (low + size) - 2 - a \in Int /\ (low + size) - 2 - b \in Int
      /\ ((low + size) - 2 - b) + 2 + 1 = ((low + size) - 2 - a) - l
      /\ low + l <= (low + size) - 2 - b - 2
  BY ONLY <1>7
<1> QED
  BY <1>1, <1>4, <1>6, <1>8

\* The calls in progress after one more.
Extended(n, m, f, args) ==
  /\ chain' \in Seq(Made) /\ Len(chain') = n + 1
  /\ \A k \in 1 .. n - 1 : chain'[k] = chain[k]
  /\ chain'[n] = [fn |-> chain[n].fn, args |-> chain[n].args, at |-> m]
  /\ chain'[n + 1] = [fn |-> f, args |-> args, at |-> 0]

LEMMA Extending ==
  ASSUME chain \in Seq(Made), chain # <<>>, NEW n, n = Len(chain), NEW m \in 0 .. 2,
         NEW f \in Names, NEW args \in Seq(Int), Call(m, f, args)
  PROVE  Extended(n, m, f, args)
<1>1. chain' = Append(Advanced(m), [fn |-> f, args |-> args, at |-> 0])
  BY DEF Call
<1>2. top = chain[n]
  BY Top
<1>3. /\ chain' \in Seq(Made) /\ Len(chain') = Len(chain) + 1
      /\ \A k \in 1 .. Len(chain) - 1 : chain'[k] = chain[k]
      /\ chain'[Len(chain)] = [fn |-> top.fn, args |-> top.args, at |-> m]
      /\ chain'[Len(chain) + 1] = [fn |-> f, args |-> args, at |-> 0]
  BY <1>1, ChainCall
<1> QED
  BY <1>2, <1>3, Zenon DEF Extended

\* i386_init and test_backtrace call with one argument.
LEMMA OneArgument ==
  ASSUME Types, Frames, chain # <<>>, NEW n \in 1 .. X + 2, n = Len(chain),
         top.fn \in {"i386_init", "test_backtrace"}, NEW f \in {"test_backtrace", "monitor"},
         NEW m \in 0 .. 2, NEW x \in Int, Call(m, f, <<x>>), UNCHANGED build
  PROVE  Frames' /\ stack' \in [bootstack .. bootstacktop + 6 -> Int]
<1>1. PICK l \in Nat : l = build.locals
  BY Sizes DEF Types
<1>2. n \in Nat \ {0} /\ f \in Names /\ <<x>> \in Seq(Int) /\ Len(<<x>>) = 1
  <2>1. n \in Nat \ {0}
    BY BacktraceAssumption
  <2>2. f \in Names
    BY DEF Names
  <2>3. <<x>> \in Seq(Int) /\ Len(<<x>>) = 1
    OBVIOUS
  <2> QED
    BY <2>1, <2>2, <2>3
<1>3. chain \in Seq(Made) /\ top = chain[n]
  BY Top DEF Types
<1>4. chain' = Append(Advanced(m), [fn |-> f, args |-> <<x>>, at |-> 0])
  BY DEF Call
<1>5. chain'[n] = [fn |-> top.fn, args |-> top.args, at |-> m]
      /\ chain'[n + 1] = [fn |-> f, args |-> <<x>>, at |-> 0]
  BY <1>2, <1>3, <1>4, ChainCall
<1>6. Beyond(chain, n) = 0
  BY <1>3 DEF Beyond
<1>7. Beyond(chain', n + 1) = 0
  BY <1>5 DEF Beyond
<1>8. PICK here \in Int, new \in Int :
        /\ here = bootstacktop - 2 - Down(l, n) /\ new = bootstacktop - 2 - Down(l, n + 1)
        /\ new + 2 + 1 = here - l /\ bootstack + l <= new - 2
  <2>1. build \in [locals : LOCALS, inlined : BOOLEAN]
    BY DEF Types
  <2> QED
    BY <1>1, <2>1, TestRoom
<1>9. Place(chain, l, n) = here /\ Place(chain', l, n + 1) = new
  <2>1. \A d : d = here => d - 0 = here
    BY <1>8
  <2>2. \A d : d = new => d - 0 = new
    BY <1>8
  <2> QED
    BY <1>6, <1>7, <1>8, <2>1, <2>2 DEF Place
<1>10. bootstack + l <= new
  <2>1. bootstack + l \in Int
    BY <1>1, Sizes DEF Types
  <2> QED
    BY <1>8, <2>1
<1> QED
  BY <1>1, <1>2, <1>8, <1>9, <1>10, CallStep

-----------------------------------------------------------------------------
(* Each action. *)

LEMMA EntryKeeps == ASSUME IInv, Entry PROVE IInv'
<1>1. Types /\ Frames /\ Shape /\ MessagesNest /\ chain = <<>>
  BY DEF IInv, Entry
<1>2. /\ Frames' /\ stack' \in [bootstack .. bootstacktop + 6 -> Int]
      /\ chain' \in Seq(Made) /\ Len(chain') = 1 /\ chain'[1] = I386Init(0)
  BY <1>1, EntryStep
<1>3. UNCHANGED <<build, out>>
  BY DEF Entry
<1>4. Types'
  BY <1>1, <1>2, <1>3 DEF Types
<1>5. Len(out) = 0
  BY <1>1, Sizes DEF Shape, Starting, Tested, Testing, Graded, Monitoring, Types
<1>6. Shape'
  BY <1>2, <1>3, <1>5 DEF Shape, Starting
<1>7. MessagesNest'
  BY <1>1, <1>3 DEF MessagesNest
<1>8. Walking'
  BY <1>2, Quiet DEF I386Init
<1> QED
  BY <1>2, <1>4, <1>6, <1>7, <1>8 DEF IInv

\* A call from which nothing is to be shown but that the calls are some that can be.
LEMMA CallKeeps ==
  ASSUME IInv, chain # <<>>, NEW m \in 0 .. 2, NEW f \in Names, NEW args \in Seq(Int),
         Call(m, f, args), UNCHANGED <<build, walk, lines, out>>,
         Frames', stack' \in [bootstack .. bootstacktop + 6 -> Int], Shape'
  PROVE  IInv'
<1>1. Types /\ MessagesNest
  BY DEF IInv
<1>2. PICK n \in Nat \ {0} : n = Len(chain)
  BY <1>1, Top DEF Types
<1>3. Extended(n, m, f, args)
  BY <1>1, <1>2, Extending DEF Types
<1>4. /\ chain' \in Seq(Made) /\ n + 1 = Len(chain') /\ n + 1 \in Nat \ {0}
      /\ chain'[n + 1].at = 0
  BY <1>3 DEF Extended
<1>5. Types'
  BY <1>1, <1>4 DEF Types
<1>6. MessagesNest'
  BY <1>1 DEF MessagesNest
<1>7. Walking'
  BY <1>4, Quiet
<1> QED
  BY <1>5, <1>6, <1>7 DEF IInv

LEMMA InitCallsTestKeeps == ASSUME IInv, InitCallsTest PROVE IInv'
<1>1. Types /\ Frames /\ Shape
  BY DEF IInv
<1>2. /\ chain # <<>> /\ top.fn = "i386_init" /\ top.at = 0
      /\ Call(1, "test_backtrace", <<X>>) /\ UNCHANGED <<build, walk, lines, out>>
  BY DEF InitCallsTest, In
<1>3. PICK n \in Nat \ {0} : n = Len(chain)
  BY <1>1, <1>2, Top DEF Types
<1>4. chain \in Seq(Made) /\ top = chain[n]
  BY <1>1, <1>2, <1>3, Top DEF Types
<1>5. n = 1 /\ Len(out) = 0 /\ chain[1] = I386Init(0)
  BY <1>2, <1>3, <1>4, <1>1, Innermost DEF Starting, Tested, I386Init
<1>6. X \in Nat
  BY BacktraceAssumption
<1>7. 1 \in 0 .. 2 /\ "test_backtrace" \in Names /\ <<X>> \in Seq(Int)
  BY <1>6 DEF Names
<1>8. Len(chain') = 2 /\ chain'[1] = I386Init(1) /\ chain'[2] = Test(2, 0)
  <2>1. Extended(1, 1, "test_backtrace", <<X>>)
    BY <1>2, <1>3, <1>4, <1>5, <1>7, Extending
  <2>2. /\ Len(chain') = 2 /\ chain'[1] = [fn |-> chain[1].fn, args |-> chain[1].args, at |-> 1]
        /\ chain'[2] = [fn |-> "test_backtrace", args |-> <<X>>, at |-> 0]
    BY <2>1 DEF Extended
  <2>3. chain[1].fn = "i386_init" /\ chain[1].args = <<>>
    BY <1>5 DEF I386Init
  <2>4. (X + 2) - 2 = X
    BY <1>6
  <2>5. chain'[1] = I386Init(1)
    BY <2>2, <2>3, Zenon DEF I386Init
  <2>6. chain'[2] = Test(2, 0)
    <3>1. PICK x \in Int : x = X + 2 - 2 /\ x = X
      BY <1>6
    <3>2. Test(2, 0) = [fn |-> "test_backtrace", args |-> <<x>>, at |-> 0]
      BY <3>1, Zenon DEF Test
    <3>3. chain'[2] = [fn |-> "test_backtrace", args |-> <<x>>, at |-> 0]
      BY <2>2, <3>1, Zenon
    <3> QED
      BY <3>2, <3>3, Zenon
  <2> QED
    BY <2>2, <2>5, <2>6
<1>9. Frames' /\ stack' \in [bootstack .. bootstacktop + 6 -> Int]
  <2>1. n \in 1 .. X + 2
    BY <1>5, <1>6
  <2> QED
    BY <1>1, <1>2, <1>3, <1>6, <2>1, OneArgument
<1>10. Testing'
  <2>1. \A k \in 2 .. 2 - 1 : FALSE
    OBVIOUS
  <2> QED
    BY <1>2, <1>5, <1>6, <1>8, <2>1 DEF Testing
<1>11. Shape'
  BY <1>10 DEF Shape
<1> QED
  BY <1>2, <1>7, <1>9, <1>11, CallKeeps, Zenon

LEMMA InitCallsMonitorKeeps == ASSUME IInv, InitCallsMonitor PROVE IInv'
<1>1. Types /\ Frames /\ Shape
  BY DEF IInv
<1>2. /\ chain # <<>> /\ top.fn = "i386_init" /\ top.at = 1
      /\ Call(1, "monitor", <<0>>) /\ UNCHANGED <<build, walk, lines, out>>
  BY DEF InitCallsMonitor, In
<1>3. PICK n \in Nat \ {0} : n = Len(chain)
  BY <1>1, <1>2, Top DEF Types
<1>4. chain \in Seq(Made) /\ top = chain[n]
  BY <1>1, <1>2, <1>3, Top DEF Types
<1>5. n = 1 /\ Len(out) = 2 * X + 2 /\ chain[1] = I386Init(1)
  <2>1. n = 1 /\ (Starting \/ Tested)
    BY <1>1, <1>2, <1>3, <1>4, Innermost
  <2>2. ~Starting
    BY <1>2, <1>3, <1>4, <2>1 DEF Starting, I386Init
  <2> QED
    BY <2>1, <2>2 DEF Tested
<1>6. X \in Nat
  BY BacktraceAssumption
<1>7. 1 \in 0 .. 2 /\ "monitor" \in Names /\ <<0>> \in Seq(Int)
  BY DEF Names
<1>8. /\ Len(chain') = 2 /\ chain'[1] = I386Init(1)
      /\ chain'[2] = [fn |-> "monitor", args |-> <<0>>, at |-> 0]
  <2>1. Extended(1, 1, "monitor", <<0>>)
    BY <1>2, <1>3, <1>4, <1>5, <1>7, Extending
  <2>2. chain[1].fn = "i386_init" /\ chain[1].args = <<>>
    BY <1>5 DEF I386Init
  <2>3. /\ Len(chain') = 2 /\ chain'[1] = [fn |-> chain[1].fn, args |-> chain[1].args, at |-> 1]
        /\ chain'[2] = [fn |-> "monitor", args |-> <<0>>, at |-> 0]
    BY <2>1 DEF Extended
  <2> QED
    BY <2>2, <2>3, Zenon DEF I386Init
<1>9. Frames' /\ stack' \in [bootstack .. bootstacktop + 6 -> Int]
  <2>1. n \in 1 .. X + 2
    BY <1>5, <1>6
  <2> QED
    BY <1>1, <1>2, <1>3, <2>1, OneArgument
<1>10. Monitoring'
  BY <1>2, <1>5, <1>8 DEF Monitoring
<1>11. Shape'
  BY <1>10 DEF Shape
<1> QED
  BY <1>2, <1>7, <1>9, <1>11, CallKeeps, Zenon

\* test_backtrace on its way down: the innermost call, of what, and how far it has come.
LEMMA TestInnermost ==
  ASSUME Types, Shape, chain # <<>>, NEW m \in {0, 1, 2}, In("test_backtrace", m)
  PROVE  /\ Testing /\ Len(chain) \in 2 .. X + 2 /\ chain[Len(chain)] = Test(Len(chain), m)
         /\ top = Test(Len(chain), m)
         /\ Len(out) = CASE m = 0 -> Len(chain) - 2 [] m = 1 -> Len(chain) - 1
                         [] OTHER -> 2 * X + 3 - Len(chain)
<1>1. PICK n \in Nat \ {0} : n = Len(chain)
  BY Top DEF Types
<1>2. top = chain[n] /\ top.fn = "test_backtrace" /\ top.at = m
  BY <1>1, Top DEF Types, In
<1>3. Testing /\ n \in 2 .. X + 2
  BY <1>1, <1>2, Innermost DEF Types
<1>4. \/ chain[n] = Test(n, 0) /\ Len(out) = n - 2
      \/ chain[n] = Test(n, 1) /\ Len(out) = n - 1
      \/ chain[n] = Test(n, 2) /\ Len(out) = 2 * X + 3 - n
  BY <1>1, <1>3, Zenon DEF Testing
<1>5. \A j : Test(n, j).at = j
  BY DEF Test
<1>6. chain[n] = Test(n, m) /\ Len(out) = CASE m = 0 -> n - 2 [] m = 1 -> n - 1 [] OTHER -> 2 * X + 3 - n
  BY <1>2, <1>4, <1>5
<1> QED
  BY <1>1, <1>2, <1>3, <1>6

LEMMA RecurseKeeps == ASSUME IInv, Recurse PROVE IInv'
<1>1. Types /\ Frames /\ Shape
  BY DEF IInv
<1>2. /\ chain # <<>> /\ In("test_backtrace", 1) /\ top.args[1] > 0
      /\ Call(2, "test_backtrace", <<top.args[1] - 1>>) /\ UNCHANGED <<build, walk, lines, out>>
  BY DEF Recurse, In
<1>3. PICK n \in Nat \ {0} : n = Len(chain)
  BY <1>1, <1>2, Top DEF Types
<1>4. Testing /\ n \in 2 .. X + 2 /\ chain[n] = Test(n, 1) /\ Len(out) = n - 1 /\ top = Test(n, 1)
  BY <1>1, <1>2, <1>3, TestInnermost
<1>5. X \in Nat
  BY BacktraceAssumption
<1>6. PICK x \in Int : x = X + 2 - (n + 1)
  BY <1>5
<1>7. top.args[1] - 1 = x /\ n + 1 \in 2 .. X + 2 /\ top.fn = "test_backtrace"
  <2>1. top.args = <<X + 2 - n>> /\ top.fn = "test_backtrace"
    BY <1>4 DEF Test
  <2> QED
    BY <1>2, <1>4, <1>5, <1>6, <2>1
<1>8. 2 \in 0 .. 2 /\ "test_backtrace" \in Names /\ <<x>> \in Seq(Int)
  BY DEF Names
<1>9. Call(2, "test_backtrace", <<x>>)
  BY <1>2, <1>7
<1>10. Extended(n, 2, "test_backtrace", <<x>>)
  BY <1>1, <1>2, <1>3, <1>8, <1>9, Extending DEF Types
<1>11. /\ Len(chain') = n + 1 /\ chain'[n] = Test(n, 2) /\ chain'[n + 1] = Test(n + 1, 0)
       /\ \A k \in 1 .. n - 1 : chain'[k] = chain[k]
  <2>1. chain[n].fn = "test_backtrace" /\ chain[n].args = <<X + 2 - n>>
    BY <1>4 DEF Test
  <2> QED
    BY <1>6, <1>10, <2>1, Zenon DEF Extended, Test
<1>12. Frames' /\ stack' \in [bootstack .. bootstacktop + 6 -> Int]
  <2>1. n \in 1 .. X + 2
    BY <1>4, <1>5
  <2> QED
    BY <1>1, <1>2, <1>3, <1>7, <1>8, <1>9, <2>1, OneArgument
<1>13. Testing'
  <2>1. chain'[1] = I386Init(1)
    BY <1>4, <1>11 DEF Testing
  <2>2. ASSUME NEW k \in 2 .. n PROVE chain'[k] = Test(k, 2)
    <3>1. CASE k = n
      BY <3>1, <1>11
    <3>2. CASE k # n
      <4>1. k \in 1 .. n - 1 /\ k \in 2 .. n - 1
        BY <3>2
      <4>2. chain[k] = Test(k, 2)
        BY <4>1, <1>3, <1>4 DEF Testing
      <4> QED
        BY <4>1, <4>2, <1>11
    <3> QED
      BY <3>1, <3>2
  <2>3. Len(out') = (n + 1) - 2
    BY <1>2, <1>4
  <2>4. \A k \in 2 .. (n + 1) - 1 : k \in 2 .. n
    OBVIOUS
  <2> QED
    BY <1>7, <1>11, <2>1, <2>2, <2>3, <2>4 DEF Testing
<1>14. Shape'
  BY <1>13 DEF Shape
<1> QED
  BY <1>2, <1>8, <1>9, <1>12, <1>14, CallKeeps, Zenon

LEMMA TestCallsBacktraceKeeps == ASSUME IInv, TestCallsBacktrace PROVE IInv'
<1> DEFINE args == <<0, 0, 0>>
<1>1. Types /\ Frames /\ Shape
  BY DEF IInv
<1>2. /\ chain # <<>> /\ In("test_backtrace", 1) /\ top.args[1] <= 0
      /\ Call(2, "mon_backtrace", args) /\ UNCHANGED <<build, walk, lines, out>>
  BY DEF TestCallsBacktrace, In
<1>3. PICK n \in Nat \ {0} : n = Len(chain)
  BY <1>1, <1>2, Top DEF Types
<1>4. Testing /\ n \in 2 .. X + 2 /\ chain[n] = Test(n, 1) /\ Len(out) = n - 1 /\ top = Test(n, 1)
  BY <1>1, <1>2, <1>3, TestInnermost
<1>5. X \in Nat
  BY BacktraceAssumption
<1>6. n = X + 2 /\ chain[n].fn = "test_backtrace" /\ chain[n].args = <<X + 2 - n>>
  <2>1. /\ top.args = <<X + 2 - n>> /\ chain[n].fn = "test_backtrace"
        /\ chain[n].args = <<X + 2 - n>>
    BY <1>4 DEF Test
  <2> QED
    BY <1>2, <1>4, <1>5, <2>1
<1>7. 2 \in 0 .. 2 /\ "mon_backtrace" \in Names /\ args \in Seq(Int) /\ Len(args) = 3
  BY DEF Names
<1>8. Extended(n, 2, "mon_backtrace", args)
  BY <1>1, <1>2, <1>3, <1>7, Extending DEF Types
<1>9. /\ Len(chain') = n + 1 /\ chain'[n] = Test(n, 2) /\ chain'[n + 1] = Reader(args, 0)
      /\ \A k \in 1 .. n - 1 : chain'[k] = chain[k]
  BY <1>6, <1>8, Zenon DEF Extended, Test, Reader
<1>10. PICK l \in Nat : l = build.locals
  BY <1>1, Sizes DEF Types
<1>11. PICK here \in Int, new \in Int :
         /\ here = bootstacktop - 2 - Down(l, n) /\ new = (bootstacktop - 2 - Down(l, n + 1)) - 2
         /\ new + 2 + 3 = here - l /\ bootstack + l <= new
  <2>1. build \in [locals : LOCALS, inlined : BOOLEAN] /\ n \in 1 .. X + 2
    BY <1>1, <1>4, <1>5 DEF Types
  <2>2. PICK a, b : a = bootstacktop - 2 - Down(l, n) /\ b = bootstacktop - 2 - Down(l, n + 1)
    OBVIOUS
  <2>3. a \in Int /\ b \in Int /\ b + 2 + 1 = a - l /\ bootstack + l <= b - 2
    BY <1>10, <2>1, <2>2, TestRoom
  <2>4. b - 2 \in Int /\ (b - 2) + 2 + 3 = a - l
    BY ONLY <2>3, <1>10
  <2> QED
    BY <2>2, <2>3, <2>4, Zenon
<1>12. Place(chain, l, n) = here /\ Place(chain', l, n + 1) = new
  <2>1. Beyond(chain, n) = 0
    BY <1>6 DEF Beyond
  <2>2. Beyond(chain', n + 1) = 2
    <3>1. (n + 1) - 1 = n /\ n + 1 > 1 /\ chain'[n].fn = "test_backtrace"
      BY <1>9 DEF Test
    <3>2. chain'[n + 1].fn = "mon_backtrace"
      BY <1>9 DEF Reader
    <3> QED
      BY <3>1, <3>2 DEF Beyond
  <2>3. \A d : d = here => d - 0 = here
    OBVIOUS
  <2> QED
    BY <1>11, <2>1, <2>2, <2>3 DEF Place
<1>13. Frames' /\ stack' \in [bootstack .. bootstacktop + 6 -> Int]
  BY <1>1, <1>2, <1>3, <1>7, <1>10, <1>11, <1>12, CallStep
<1>14. Graded'
  <2>1. chain'[1] = I386Init(1)
    BY <1>4, <1>9 DEF Testing
  <2>2. ASSUME NEW k \in 2 .. X + 2 PROVE chain'[k] = Test(k, 2)
    <3>1. CASE k = n
      BY <3>1, <1>9
    <3>2. CASE k # n
      <4>1. k \in 1 .. n - 1 /\ k \in 2 .. n - 1
        BY <3>2, <1>5, <1>6
      <4>2. chain[k] = Test(k, 2)
        BY <4>1, <1>3, <1>4 DEF Testing
      <4> QED
        BY <4>1, <4>2, <1>9
    <3> QED
      BY <3>1, <3>2
  <2>3. Len(out') = X + 1 /\ Len(chain') = X + 3 /\ n + 1 = X + 3
    BY <1>2, <1>4, <1>5, <1>6, <1>9
  <2>4. chain'[X + 3] = Reader(args, 0)
    BY <1>9, <2>3
  <2> QED
    BY <2>1, <2>2, <2>3, <2>4 DEF Graded
<1>15. Shape'
  BY <1>14 DEF Shape
<1> QED
  BY <1>2, <1>7, <1>13, <1>15, CallKeeps, Zenon

LEMMA MonitorRunsCommandKeeps == ASSUME IInv, MonitorRunsCommand PROVE IInv'
<1>1. Types /\ Frames /\ Shape
  BY DEF IInv
<1>2. chain # <<>> /\ top.fn = "monitor" /\ UNCHANGED <<build, walk, lines, out>>
  BY DEF MonitorRunsCommand, In
<1>3. PICK n \in Nat \ {0} : n = Len(chain)
  BY <1>1, <1>2, Top DEF Types
<1>4. /\ Monitoring /\ n = 2 /\ chain[1] = I386Init(1)
      /\ chain[2] = [fn |-> "monitor", args |-> <<0>>, at |-> 0] /\ Len(out) = 2 * X + 2
  BY <1>1, <1>2, <1>3, Innermost DEF Types, Monitoring
<1>5. PICK l \in Nat : l = build.locals
  BY <1>1, Sizes DEF Types
<1>6. PICK low \in Nat, end \in Nat : /\ low = bootstack /\ end = bootstacktop
                                      /\ low + 4 * l + 14 <= end
  <2>1. KSTKSIZE \in Nat /\ bootstack \in Nat
    BY BacktraceAssumption
  <2>2. 4 * l + 14 <= KSTKSIZE /\ bootstacktop = bootstack + KSTKSIZE
    BY <1>1, <1>5, Sizes DEF Types
  <2> QED
    BY <2>1, <2>2
<1>7. Place(chain, l, 2) = end - 5 - l
  <2>1. Beyond(chain, 2) = 0 /\ Down(l, 2) = 3 + l
    BY <1>4, FirstDowns DEF Beyond
  <2> QED
    BY <1>6, <2>1 DEF Place
<1>8. Down(l, 3) = 6 + 2 * l
  BY FirstDowns
<1>9. 0 \in 0 .. 2 /\ "mon_backtrace" \in Names /\ "runcmd" \in Names
  BY DEF Names
<1>10. CASE build.inlined
  <2> DEFINE args == <<1, argv, 0>>
  <2>1. Call(0, "mon_backtrace", args)
    BY <1>10 DEF MonitorRunsCommand
  <2>2. args \in Seq(Int) /\ Len(args) = 3
    BY DEF argv
  <2>3. Extended(2, 0, "mon_backtrace", args)
    BY <1>1, <1>2, <1>3, <1>4, <1>9, <2>1, <2>2, Extending DEF Types
  <2>4. /\ Len(chain') = 3 /\ chain'[1] = I386Init(1) /\ chain'[3] = Reader(args, 0)
        /\ chain'[2] = [fn |-> "monitor", args |-> <<0>>, at |-> 0]
    BY <1>4, <2>3 DEF Extended, Reader
  <2>5. PICK new \in Int : new = end - 10 - 2 * l
    BY <1>5, <1>6
  <2>6. Place(chain', l, 2 + 1) = new
    <3>1. Beyond(chain', 3) = 2
      BY <2>4 DEF Beyond, Reader
    <3> QED
      BY <1>6, <1>8, <2>5, <3>1 DEF Place
  <2>7. new + 2 + 3 = Place(chain, l, 2) - l /\ bootstack + l <= new
    BY <1>6, <1>7, <2>5
  <2>8. Frames' /\ stack' \in [bootstack .. bootstacktop + 6 -> Int]
    <3>1. 2 \in Nat \ {0} /\ 3 \in Nat /\ 2 = Len(chain) /\ UNCHANGED build
      BY <1>2, <1>3, <1>4
    <3> HIDE DEF args
    <3> QED
      BY <1>1, <1>2, <1>5, <1>9, <2>1, <2>2, <2>6, <2>7, <3>1, CallStep
  <2>9. Monitoring'
    BY <1>2, <1>4, <2>4 DEF Monitoring
  <2>10. Shape'
    BY <2>9 DEF Shape
  <2> QED
    BY <1>2, <1>9, <2>1, <2>2, <2>8, <2>10, CallKeeps, Zenon
<1>11. CASE ~build.inlined
  <2> DEFINE args == <<buf, 0>>
  <2>1. Call(0, "runcmd", args)
    BY <1>11 DEF MonitorRunsCommand
  <2>2. args \in Seq(Int) /\ Len(args) = 2
    BY DEF buf
  <2>3. Extended(2, 0, "runcmd", args)
    BY <1>1, <1>2, <1>3, <1>4, <1>9, <2>1, <2>2, Extending DEF Types
  <2>4. /\ Len(chain') = 3 /\ chain'[1] = I386Init(1) /\ chain'[3] = Runcmd(0)
        /\ chain'[2] = [fn |-> "monitor", args |-> <<0>>, at |-> 0]
    BY <1>4, <2>3 DEF Extended, Runcmd
  <2>5. PICK new \in Int : new = end - 9 - 2 * l
    BY <1>5, <1>6
  <2>6. Place(chain', l, 2 + 1) = new
    <3>1. Beyond(chain', 3) = 1
      BY <2>4 DEF Beyond, Runcmd
    <3> QED
      BY <1>6, <1>8, <2>5, <3>1 DEF Place
  <2>7. new + 2 + 2 = Place(chain, l, 2) - l /\ bootstack + l <= new
    BY <1>6, <1>7, <2>5
  <2>8. Frames' /\ stack' \in [bootstack .. bootstacktop + 6 -> Int]
    <3>1. 2 \in Nat \ {0} /\ 2 \in Nat /\ 2 = Len(chain) /\ UNCHANGED build
      BY <1>2, <1>3, <1>4
    <3> HIDE DEF args
    <3> QED
      BY <1>1, <1>2, <1>5, <1>9, <2>1, <2>2, <2>6, <2>7, <3>1, CallStep
  <2>9. Monitoring'
    BY <1>2, <1>4, <2>4 DEF Monitoring
  <2>10. Shape'
    BY <2>9 DEF Shape
  <2> QED
    BY <1>2, <1>9, <2>1, <2>2, <2>8, <2>10, CallKeeps, Zenon
<1> QED
  BY <1>10, <1>11

LEMMA RuncmdCallsBacktraceKeeps == ASSUME IInv, RuncmdCallsBacktrace PROVE IInv'
<1> DEFINE args == <<1, argv, 0>>
<1>1. Types /\ Frames /\ Shape
  BY DEF IInv
<1>2. /\ chain # <<>> /\ top.fn = "runcmd" /\ Call(1, "mon_backtrace", args)
      /\ UNCHANGED <<build, walk, lines, out>>
  BY DEF RuncmdCallsBacktrace, In
<1>3. PICK n \in Nat \ {0} : n = Len(chain)
  BY <1>1, <1>2, Top DEF Types
<1>4. Monitoring /\ n = 3 /\ \E j \in {0, 1} : chain[3] = Runcmd(j)
  BY <1>1, <1>2, <1>3, Innermost DEF Types
<1>5. PICK l \in Nat : l = build.locals
  BY <1>1, Sizes DEF Types
<1>6. PICK low \in Nat, end \in Nat : /\ low = bootstack /\ end = bootstacktop
                                      /\ low + 4 * l + 14 <= end
  <2>1. KSTKSIZE \in Nat /\ bootstack \in Nat
    BY BacktraceAssumption
  <2>2. 4 * l + 14 <= KSTKSIZE /\ bootstacktop = bootstack + KSTKSIZE
    BY <1>1, <1>5, Sizes DEF Types
  <2> QED
    BY <2>1, <2>2
<1>7. /\ chain[3].fn = "runcmd" /\ chain[3].args = <<buf, 0>> /\ chain[1] = I386Init(1)
      /\ chain[2] = [fn |-> "monitor", args |-> <<0>>, at |-> 0] /\ Len(out) = 2 * X + 2
  BY <1>4 DEF Runcmd, Monitoring
<1>8. Place(chain, l, 3) = end - 9 - 2 * l
  <2>1. Beyond(chain, 3) = 1 /\ Down(l, 3) = 6 + 2 * l
    BY <1>7, FirstDowns DEF Beyond
  <2> QED
    BY <1>6, <2>1 DEF Place
<1>9. 1 \in 0 .. 2 /\ "mon_backtrace" \in Names /\ args \in Seq(Int) /\ Len(args) = 3
  BY DEF Names, argv
<1>10. Extended(3, 1, "mon_backtrace", args)
  BY <1>1, <1>2, <1>3, <1>4, <1>9, Extending DEF Types
<1>11. /\ Len(chain') = 4 /\ chain'[1] = I386Init(1) /\ chain'[3] = Runcmd(1)
       /\ chain'[2] = [fn |-> "monitor", args |-> <<0>>, at |-> 0] /\ chain'[4] = Reader(args, 0)
  BY <1>7, <1>10 DEF Extended, Reader, Runcmd
<1>12. PICK new \in Int : new = end - 14 - 3 * l
  BY <1>5, <1>6
<1>13. Place(chain', l, 3 + 1) = new
  <2>1. Beyond(chain', 4) = 3
    BY <1>11 DEF Beyond, Reader, Runcmd
  <2>2. Down(l, 4) = 9 + 3 * l
    BY FirstDowns
  <2> QED
    BY <1>6, <1>12, <2>1, <2>2 DEF Place
<1>14. new + 2 + 3 = Place(chain, l, 3) - l /\ bootstack + l <= new
  BY <1>6, <1>8, <1>12
<1>15. Frames' /\ stack' \in [bootstack .. bootstacktop + 6 -> Int]
  <2>1. 3 \in Nat \ {0} /\ 3 \in Nat /\ 3 = Len(chain) /\ UNCHANGED build
    BY <1>2, <1>3, <1>4
  <2> HIDE DEF args
  <2> QED
    BY <1>1, <1>2, <1>5, <1>9, <1>13, <1>14, <2>1, CallStep
<1>16. Monitoring'
  BY <1>2, <1>7, <1>11 DEF Monitoring
<1>17. Shape'
  BY <1>16 DEF Shape
<1> QED
  BY <1>2, <1>9, <1>15, <1>17, CallKeeps, Zenon

LEMMA EnteringKeeps == ASSUME IInv, Entering PROVE IInv'
<1>1. Types /\ Frames /\ Shape /\ MessagesNest /\ chain \in Seq(Made)
  BY DEF IInv, Types
<1>2. /\ chain # <<>> /\ In("test_backtrace", 0) /\ out' = Append(out, <<"entering", top.args[1]>>)
      /\ chain' = Advanced(1) /\ UNCHANGED <<stack_vars, build>>
  BY DEF Entering, In
<1>3. PICK n \in Nat \ {0} : n = Len(chain)
  BY <1>1, <1>2, Top
<1>4. Testing /\ n \in 2 .. X + 2 /\ chain[n] = Test(n, 0) /\ Len(out) = n - 2 /\ top = Test(n, 0)
  BY <1>1, <1>2, <1>3, TestInnermost
<1>5. X \in Nat
  BY BacktraceAssumption
<1>6. PICK x \in Int : x = X + 2 - n
  BY <1>5
<1>7. top.args[1] = x /\ top.fn = "test_backtrace" /\ top.args = <<x>>
  BY <1>4, <1>6 DEF Test
<1>8. Frames' /\ chain' \in Seq(Made)
  BY <1>1, <1>2, AdvanceStep
<1>9. /\ Len(chain') = n /\ chain'[n] = Test(n, 1)
      /\ \A k \in 1 .. n - 1 : chain'[k] = chain[k]
  <2>1. /\ Len(Advanced(1)) = n /\ \A k \in 1 .. n - 1 : Advanced(1)[k] = chain[k]
        /\ Advanced(1)[n] = [fn |-> top.fn, args |-> top.args, at |-> 1]
    BY <1>1, <1>2, <1>3, ChainAdvance
  <2> QED
    BY <1>2, <1>6, <1>7, <2>1, Zenon DEF Test
<1>10. out \in Seq({"entering", "leaving"} \X Int)
  BY <1>1 DEF Types
<1>11. /\ out' \in Seq({"entering", "leaving"} \X Int) /\ Len(out') = n - 1
       /\ \A k \in 1 .. n - 2 : out'[k] = out[k]
       /\ out'[n - 1] = <<"entering", x>>
  <2>1. <<"entering", x>> \in {"entering", "leaving"} \X Int
    OBVIOUS
  <2>2. /\ out' \in Seq({"entering", "leaving"} \X Int) /\ Len(out') = Len(out) + 1
        /\ \A k \in 1 .. Len(out) : out'[k] = out[k]
        /\ out'[Len(out) + 1] = <<"entering", x>>
    BY <1>2, <1>7, <1>10, <2>1, AppendProperties
  <2>3. Len(out) = n - 2 /\ Len(out) + 1 = n - 1
    BY <1>4
  <2> QED
    BY <2>2, <2>3
<1>12. Types'
  BY <1>1, <1>2, <1>8, <1>11 DEF Types, stack_vars
<1>13. Testing'
  <2>1. chain'[1] = I386Init(1)
    BY <1>4, <1>9 DEF Testing
  <2>2. \A k \in 2 .. n - 1 : chain'[k] = Test(k, 2)
    BY <1>3, <1>4, <1>9 DEF Testing
  <2> QED
    BY <1>4, <1>9, <1>11, <2>1, <2>2 DEF Testing
<1>14. MessagesNest'
  <2>3. DOMAIN out' = 1 .. n - 1
    BY <1>11
  <2> SUFFICES ASSUME NEW k \in 1 .. n - 1
               PROVE  out'[k] = IF k <= X + 1 THEN <<"entering", X + 1 - k>> ELSE <<"leaving", k - X - 2>>
    BY <2>3, Zenon DEF MessagesNest
  <2>1. CASE k \in 1 .. n - 2
    <3>1. k \in DOMAIN out
      BY <1>4, <1>10, <2>1
    <3> QED
      BY <1>1, <1>11, <2>1, <3>1, Zenon DEF MessagesNest
  <2>2. CASE k = n - 1
    <3>1. k <= X + 1 /\ X + 1 - k = x
      BY <1>4, <1>5, <1>6, <2>2
    <3> QED
      BY <1>11, <2>2, <3>1, Zenon
  <2> QED
    BY <2>1, <2>2
<1>15. Walking'
  <2>1. chain'[n].fn # "mon_backtrace"
    BY <1>9 DEF Test
  <2> QED
    BY <1>9, <2>1, Quiet
<1> QED
  BY <1>8, <1>12, <1>13, <1>14, <1>15 DEF IInv, Shape

LEMMA LeavingKeeps == ASSUME IInv, Leaving PROVE IInv'
<1>1. Types /\ Frames /\ Shape /\ MessagesNest /\ chain \in Seq(Made)
  BY DEF IInv, Types
<1>2. /\ chain # <<>> /\ In("test_backtrace", 2) /\ out' = Append(out, <<"leaving", stack[ebp + 2]>>)
      /\ Return /\ UNCHANGED build
  BY DEF Leaving, In
<1>3. PICK n \in Nat \ {0} : n = Len(chain)
  BY <1>1, <1>2, Top
<1>4. /\ Testing /\ n \in 2 .. X + 2 /\ chain[n] = Test(n, 2) /\ Len(out) = 2 * X + 3 - n
      /\ top = Test(n, 2)
  BY <1>1, <1>2, <1>3, TestInnermost
<1>5. X \in Nat
  BY BacktraceAssumption
<1>6. PICK x \in Int, size \in Nat : x = X + 2 - n /\ size = 2 * X + 3 - n
  BY <1>4, <1>5
<1>7. Frames' /\ UNCHANGED stack /\ chain' \in Seq(Made)
  BY <1>1, <1>2, <1>3, <1>4, ReturnStep
<1>8. Len(chain') = n - 1 /\ \A k \in 1 .. n - 1 : chain'[k] = chain[k]
  BY <1>1, <1>2, <1>3, ChainReturn DEF Return
<1>9. stack[ebp + 2] = x
  <2>1. PICK p : p = Places(chain, build.locals)
    OBVIOUS
  <2>2. ebp = p[n] /\ Linked(p, n, chain, stack)
    BY <1>1, <1>3, <2>1 DEF Frames, Framed
  <2>3. chain[n].args = <<x>> /\ n \in 1 .. n /\ 1 \in 1 .. Len(chain[n].args)
    BY <1>4, <1>6 DEF Test
  <2>4. stack[p[n] + 1 + 1] = chain[n].args[1]
    BY <2>2, <2>3 DEF Linked
  <2>5. p[n] \in Int
    <3>1. n \in 1 .. Len(chain)
      BY <1>3
    <3>2. p[n] = bootstacktop - 2 - Down(build.locals, n) - Beyond(chain, n)
      BY <2>1, <3>1 DEF Places, Place
    <3>3. build.locals \in Nat /\ bootstacktop \in Nat
      BY <1>1, Sizes DEF Types
    <3>4. Down(build.locals, n) \in Int
      BY <3>3 DEF Down
    <3>5. Beyond(chain, n) \in Int
      BY DEF Beyond
    <3> QED
      BY <3>2, <3>3, <3>4, <3>5
  <2>6. p[n] + 1 + 1 = p[n] + 2
    BY <2>5
  <2>7. chain[n].args[1] = x
    BY <2>3
  <2> QED
    BY <2>2, <2>4, <2>6, <2>7, Zenon
<1>10. out \in Seq({"entering", "leaving"} \X Int) /\ Len(out) = size
  BY <1>1, <1>4, <1>6 DEF Types
<1>11. /\ out' \in Seq({"entering", "leaving"} \X Int) /\ Len(out') = size + 1
       /\ \A k \in 1 .. size : out'[k] = out[k]
       /\ out'[size + 1] = <<"leaving", x>>
  <2>1. <<"leaving", x>> \in {"entering", "leaving"} \X Int
    OBVIOUS
  <2>2. out' = Append(out, <<"leaving", x>>)
    BY <1>2, <1>9
  <2> QED
    BY <1>10, <2>1, <2>2, AppendProperties
<1>12. Types'
  BY <1>1, <1>2, <1>7, <1>11 DEF Types
<1>13. Shape'
  <2>1. chain'[1] = I386Init(1)
    BY <1>4, <1>8 DEF Testing
  <2>2. \A k \in 2 .. n - 1 : chain'[k] = Test(k, 2)
    BY <1>3, <1>4, <1>8 DEF Testing
  <2>3. Len(out') = 2 * X + 3 - (n - 1)
    BY <1>4, <1>5, <1>6, <1>11
  <2>4. CASE n = 2
    <3>1. Len(chain') = 1 /\ Len(out') = 2 * X + 2
      BY <1>5, <1>8, <2>3, <2>4
    <3>2. Tested'
      BY <2>1, <3>1 DEF Tested
    <3> QED
      BY <3>2 DEF Shape
  <2>5. CASE n # 2
    <3>1. Len(chain') = n - 1 /\ n - 1 \in 2 .. X + 2 /\ n - 1 \in 2 .. n - 1
      BY <1>4, <1>5, <1>8, <2>5
    <3>2. chain'[n - 1] = Test(n - 1, 2)
      BY <2>2, <3>1
    <3>3. \A k \in 2 .. (n - 1) - 1 : k \in 2 .. n - 1
      OBVIOUS
    <3>4. Testing'
      BY <2>1, <2>2, <2>3, <3>1, <3>2, <3>3 DEF Testing
    <3> QED
      BY <3>4 DEF Shape
  <2> QED
    BY <2>4, <2>5
<1>14. MessagesNest'
  <2> SUFFICES ASSUME NEW k \in 1 .. size + 1
               PROVE  out'[k] = IF k <= X + 1 THEN <<"entering", X + 1 - k>> ELSE <<"leaving", k - X - 2>>
    BY <1>11 DEF MessagesNest
  <2>1. CASE k \in 1 .. size
    <3>1. k \in DOMAIN out
      BY <1>10, <2>1
    <3> QED
      BY <1>1, <1>11, <2>1, <3>1, Zenon DEF MessagesNest
  <2>2. CASE k = size + 1
    <3>1. ~(k <= X + 1) /\ k - X - 2 = x
      BY <1>4, <1>5, <1>6, <2>2
    <3> QED
      BY <1>11, <2>2, <3>1, Zenon
  <2> QED
    BY <2>1, <2>2
<1>15. Walking'
  <2>1. chain'[n - 1].fn # "mon_backtrace" /\ n - 1 \in Nat \ {0}
    <3>1. n - 1 = 1 \/ n - 1 \in 2 .. n - 1
      BY <1>4
    <3>2. chain'[n - 1] = chain[n - 1] /\ n - 1 \in Nat \ {0}
      BY <1>4, <1>8
    <3>3. CASE n - 1 = 1
      BY <1>4, <3>2, <3>3 DEF Testing, I386Init
    <3>4. CASE n - 1 \in 2 .. n - 1
      <4>1. chain[n - 1] = Test(n - 1, 2)
        BY <1>3, <1>4, <3>4, Zenon DEF Testing
      <4> QED
        BY <3>2, <4>1 DEF Test
    <3> QED
      BY <3>1, <3>3, <3>4
  <2> QED
    BY <1>8, <2>1, Quiet
<1> QED
  BY <1>7, <1>12, <1>13, <1>14, <1>15 DEF IInv

\* A return after which the innermost call is not mon_backtrace's.
LEMMA ReturnKeeps ==
  ASSUME IInv, NEW n \in Nat, n = Len(chain), n >= 2, Return, UNCHANGED <<build, out>>,
         chain[n - 1].fn # "mon_backtrace", Shape'
  PROVE  IInv'
<1>1. Types /\ Frames /\ MessagesNest /\ chain \in Seq(Made) /\ chain # <<>>
  BY EmptySeq DEF IInv, Types
<1>2. Frames' /\ UNCHANGED stack /\ chain' \in Seq(Made)
  BY <1>1, ReturnStep
<1>3. Len(chain') = n - 1 /\ chain'[n - 1] = chain[n - 1] /\ n - 1 \in Nat \ {0}
  <2>1. Len(chain') = n - 1 /\ \A k \in 1 .. n - 1 : chain'[k] = chain[k]
    BY <1>1, ChainReturn DEF Return
  <2>2. n - 1 \in 1 .. n - 1
    OBVIOUS
  <2> QED
    BY <2>1, <2>2
<1>4. Types'
  BY <1>1, <1>2 DEF Types
<1>5. MessagesNest'
  BY <1>1 DEF MessagesNest
<1>6. Walking'
  BY <1>3, Quiet
<1> QED
  BY <1>2, <1>4, <1>5, <1>6 DEF IInv

LEMMA RuncmdReturnsKeeps == ASSUME IInv, RuncmdReturns PROVE IInv'
<1>1. Types /\ Shape /\ chain \in Seq(Made)
  BY DEF IInv, Types
<1>2. chain # <<>> /\ top.fn = "runcmd" /\ Return /\ UNCHANGED <<build, out>>
  BY DEF RuncmdReturns, In
<1>3. PICK n \in Nat \ {0} : n = Len(chain)
  BY <1>1, <1>2, Top
<1>4. Monitoring /\ n = 3
  BY <1>1, <1>2, <1>3, Innermost
<1>5. Len(chain') = 2 /\ chain'[1] = chain[1] /\ chain'[2] = chain[2]
  BY <1>1, <1>2, <1>3, <1>4, ChainReturn DEF Return
<1>6. /\ chain[1] = I386Init(1) /\ chain[2] = [fn |-> "monitor", args |-> <<0>>, at |-> 0]
      /\ Len(out) = 2 * X + 2
  BY <1>4 DEF Monitoring
<1>7. Monitoring'
  BY <1>2, <1>5, <1>6 DEF Monitoring
<1>8. 3 \in Nat /\ 3 = Len(chain) /\ 3 >= 2 /\ chain[3 - 1].fn # "mon_backtrace"
  BY <1>3, <1>4, <1>6
<1> QED
  BY <1>2, <1>7, <1>8, ReturnKeeps DEF Shape

LEMMA BacktraceReturnsKeeps == ASSUME IInv, BacktraceReturns PROVE IInv'
<1>1. Types /\ Shape /\ chain \in Seq(Made)
  BY DEF IInv, Types
<1>2. chain # <<>> /\ top.fn = "mon_backtrace" /\ Return /\ UNCHANGED <<build, out>>
  BY DEF BacktraceReturns, In
<1>3. PICK n \in Nat \ {0} : n = Len(chain)
  BY <1>1, <1>2, Top
<1>4. \/ Graded /\ n = X + 3
      \/ Monitoring /\ n = 3 /\ \E j \in {0, 1} : chain[3] = Reader(<<1, argv, 0>>, j)
      \/ Monitoring /\ n = 4
  BY <1>1, <1>2, <1>3, Innermost
<1>5. Len(chain') = n - 1 /\ \A k \in 1 .. n - 1 : chain'[k] = chain[k]
  BY <1>1, <1>2, <1>3, ChainReturn DEF Return
<1>6. X \in Nat
  BY BacktraceAssumption
<1>7. CASE Graded /\ n = X + 3
  <2>1. n - 1 = X + 2 /\ X + 2 \in 2 .. X + 2 /\ 1 \in 1 .. n - 1
    BY <1>6, <1>7
  <2>2. chain[1] = I386Init(1) /\ \A k \in 2 .. X + 2 : chain[k] = Test(k, 2)
    BY <1>7 DEF Graded
  <2>3. Len(out') = 2 * X + 3 - (X + 2)
    BY <1>2, <1>6, <1>7 DEF Graded
  <2>4. Len(chain') = X + 2 /\ chain'[1] = I386Init(1) /\ \A k \in 2 .. X + 2 : chain'[k] = Test(k, 2)
    <3>1. \A k \in 2 .. X + 2 : k \in 1 .. n - 1
      BY <2>1
    <3> QED
      BY <1>5, <2>1, <2>2, <3>1
  <2>5. \A k \in 2 .. (X + 2) - 1 : k \in 2 .. X + 2
    BY <1>6
  <2>6. Testing'
    BY <2>1, <2>3, <2>4, <2>5 DEF Testing
  <2>7. chain[n - 1].fn # "mon_backtrace" /\ n >= 2
    <3>1. chain[n - 1] = Test(X + 2, 2)
      BY <2>1, <2>2
    <3> QED
      BY <3>1, <1>6, <1>7 DEF Test
  <2> QED
    BY <1>2, <1>3, <2>6, <2>7, ReturnKeeps DEF Shape
<1>8. CASE Monitoring /\ n = 3
  <2>1. Len(chain') = 2 /\ chain'[1] = chain[1] /\ chain'[2] = chain[2]
    BY <1>5, <1>8
  <2>2. /\ chain[1] = I386Init(1) /\ chain[2] = [fn |-> "monitor", args |-> <<0>>, at |-> 0]
        /\ Len(out) = 2 * X + 2
    BY <1>8 DEF Monitoring
  <2>3. Monitoring'
    BY <1>2, <2>1, <2>2 DEF Monitoring
  <2>4. 3 \in Nat /\ 3 = Len(chain) /\ 3 >= 2 /\ chain[3 - 1].fn # "mon_backtrace"
    BY <1>3, <1>8, <2>2
  <2> QED
    BY <1>2, <2>3, <2>4, ReturnKeeps DEF Shape
<1>9. CASE Monitoring /\ n = 4
  <2>1. Len(chain') = 3 /\ chain'[1] = chain[1] /\ chain'[2] = chain[2] /\ chain'[3] = chain[3]
    BY <1>5, <1>9
  <2>2. /\ chain[1] = I386Init(1) /\ chain[2] = [fn |-> "monitor", args |-> <<0>>, at |-> 0]
        /\ Len(out) = 2 * X + 2 /\ chain[3] = Runcmd(1)
    BY <1>3, <1>9 DEF Monitoring
  <2>3. Monitoring'
    BY <1>2, <2>1, <2>2 DEF Monitoring
  <2>4. 4 \in Nat /\ 4 = Len(chain) /\ 4 >= 2 /\ chain[4 - 1].fn # "mon_backtrace"
    BY <1>3, <1>9, <2>2 DEF Runcmd
  <2> QED
    BY <1>2, <2>3, <2>4, ReturnKeeps DEF Shape
<1> QED
  BY <1>4, <1>7, <1>8, <1>9

LEMMA ReadEbpKeeps == ASSUME IInv, ReadEbp PROVE IInv'
<1>1. Types /\ Frames /\ Shape /\ MessagesNest /\ chain \in Seq(Made)
  BY DEF IInv, Types
<1>2. /\ chain # <<>> /\ top.fn = "mon_backtrace" /\ chain' = Advanced(1)
      /\ walk' = ebp /\ lines' = <<>> /\ UNCHANGED <<stack_vars, build>> /\ out' = out
  BY DEF ReadEbp, In
<1>3. PICK n \in Nat \ {0} : n = Len(chain)
  BY <1>1, <1>2, Top
<1>4. top = chain[n]
  BY <1>1, <1>2, <1>3, Top
<1>5. /\ Len(chain') = n /\ \A k \in 1 .. n - 1 : chain'[k] = chain[k]
      /\ chain'[n] = [fn |-> chain[n].fn, args |-> chain[n].args, at |-> 1]
  BY <1>1, <1>2, <1>3, <1>4, ChainAdvance
<1>6. Frames' /\ chain' \in Seq(Made)
  BY <1>1, <1>2, AdvanceStep
<1>7. Types'
  BY <1>1, <1>2, <1>6 DEF Types, stack_vars
<1>8. \/ Graded /\ n = X + 3
      \/ Monitoring /\ n = 3 /\ \E j \in {0, 1} : chain[3] = Reader(<<1, argv, 0>>, j)
      \/ Monitoring /\ n = 4
  BY <1>1, <1>2, <1>3, Innermost
<1>9. X \in Nat
  BY BacktraceAssumption
<1>10. Shape'
  <2>1. CASE Graded /\ n = X + 3
    <3>1. chain'[X + 3] = Reader(<<0, 0, 0>>, 1)
      <4>1. chain[n].fn = "mon_backtrace" /\ chain[n].args = <<0, 0, 0>> /\ n = X + 3
        BY <2>1 DEF Graded, Reader
      <4> QED
        BY <1>5, <4>1 DEF Reader
    <3>2. 1 \in 1 .. n - 1 /\ \A k \in 2 .. X + 2 : k \in 1 .. n - 1
      BY <1>9, <2>1
    <3>3. chain'[1] = I386Init(1) /\ \A k \in 2 .. X + 2 : chain'[k] = Test(k, 2)
      BY <1>5, <2>1, <3>2, Zenon DEF Graded
    <3>4. Len(chain') = X + 3 /\ Len(out') = X + 1 /\ 1 \in {0, 1}
      BY <1>2, <1>5, <2>1 DEF Graded
    <3>5. Graded'
      BY <3>1, <3>3, <3>4 DEF Graded
    <3> QED
      BY <3>5 DEF Shape
  <2>2. CASE Monitoring /\ n = 3 /\ \E j \in {0, 1} : chain[3] = Reader(<<1, argv, 0>>, j)
    <3>1. chain'[3] = Reader(<<1, argv, 0>>, 1)
      <4>1. chain[n].fn = "mon_backtrace" /\ chain[n].args = <<1, argv, 0>> /\ n = 3
        BY <2>2 DEF Reader
      <4> QED
        BY <1>5, <4>1 DEF Reader
    <3>2. chain'[1] = chain[1] /\ chain'[2] = chain[2]
      BY <1>5, <2>2
    <3>3. Monitoring'
      BY <1>2, <1>5, <2>2, <3>1, <3>2 DEF Monitoring
    <3> QED
      BY <3>3 DEF Shape
  <2>3. CASE Monitoring /\ n = 4
    <3>1. chain[3] = Runcmd(1) /\ \E j \in {0, 1} : chain[4] = Reader(<<1, argv, 0>>, j)
      BY <1>3, <2>3 DEF Monitoring
    <3>2. chain'[4] = Reader(<<1, argv, 0>>, 1)
      <4>1. chain[n].fn = "mon_backtrace" /\ chain[n].args = <<1, argv, 0>> /\ n = 4
        BY <2>3, <3>1 DEF Reader
      <4> QED
        BY <1>5, <4>1 DEF Reader
    <3>3. chain'[1] = chain[1] /\ chain'[2] = chain[2] /\ chain'[3] = chain[3]
      BY <1>5, <2>3
    <3>4. Monitoring'
      BY <1>2, <1>5, <2>3, <3>1, <3>2, <3>3 DEF Monitoring
    <3> QED
      BY <3>4 DEF Shape
  <2> QED
    BY <1>8, <2>1, <2>2, <2>3
<1>11. MessagesNest'
  BY <1>1, <1>2 DEF MessagesNest
<1>12. Walking'
  <2>1. PICK q : q = Places(chain', build'.locals)
    OBVIOUS
  <2>2. ebp' = q[n]
    BY <1>5, <1>6, <2>1 DEF Frames, Framed
  <2>3. walk' = q[n] /\ Len(lines') = 0 /\ n - 0 = n /\ n # 0
    BY <1>2, <2>2 DEF stack_vars
  <2>4. Walked(q, n)'
    BY <1>2, <2>3 DEF Walked
  <2> QED
    BY <1>5, <2>1, <2>4 DEF Walking
<1> QED
  BY <1>6, <1>7, <1>10, <1>11, <1>12 DEF IInv

LEMMA PrintFrameKeeps == ASSUME IInv, PrintFrame PROVE IInv'
<1>1. Types /\ Frames /\ Shape /\ MessagesNest /\ Walking /\ chain \in Seq(Made)
  BY DEF IInv, Types
<1>2. /\ chain # <<>> /\ top.fn = "mon_backtrace" /\ top.at = 1 /\ walk # 0
      /\ lines' = Append(lines, Line(walk)) /\ walk' = stack[walk]
      /\ UNCHANGED <<stack, esp, ebp, build, chain, out>>
  BY DEF PrintFrame, In, stack_vars
<1>3. PICK n \in Nat \ {0} : n = Len(chain)
  BY <1>1, <1>2, Top
<1>4. PICK p : p = Places(chain, build.locals)
  OBVIOUS
<1>5. Walked(p, n) /\ Linked(p, n, chain, stack)
  BY <1>1, <1>2, <1>3, <1>4 DEF Walking, Frames, Framed
<1>6. PICK j \in Nat : j = Len(lines)
  BY <1>5 DEF Walked
<1>7. j < n /\ walk = p[n - j]
  BY <1>2, <1>5, <1>6 DEF Walked
<1>8. n - j \in 1 .. n
  BY <1>7
<1>9. stack[p[n - j]] = IF n - j = 1 THEN 0 ELSE p[(n - j) - 1]
  BY <1>5, <1>8 DEF Linked
<1>10. p[n - j] \in Int
  <2>1. n - j \in 1 .. Len(chain)
    BY <1>3, <1>8
  <2>2. p[n - j] = bootstacktop - 2 - Down(build.locals, n - j) - Beyond(chain, n - j)
    BY <1>4, <2>1 DEF Places, Place
  <2>3. build.locals \in Nat /\ bootstacktop \in Nat
    BY <1>1, Sizes DEF Types
  <2>4. Down(build.locals, n - j) \in Int
    BY <2>3 DEF Down
  <2>5. Beyond(chain, n - j) \in Int
    BY DEF Beyond
  <2> QED
    BY <2>2, <2>3, <2>4, <2>5
<1>11. /\ lines' \in Seq({Line(q) : q \in Int}) /\ Len(lines') = j + 1
       /\ \A k \in 1 .. j : lines'[k] = lines[k]
       /\ lines'[j + 1] = Line(p[n - j])
  <2>1. Line(walk) \in {Line(q) : q \in Int} /\ Line(walk) = Line(p[n - j])
    BY <1>7, <1>10
  <2>2. lines \in Seq({Line(q) : q \in Int})
    BY <1>5 DEF Walked
  <2> QED
    BY <1>2, <1>6, <2>1, <2>2, AppendProperties
<1>12. \A q : Line(q)' = Line(q)
  BY <1>2 DEF Line
<1>13. lines' \in Seq({Line(q)' : q \in Int})
  <2>1. {Line(q)' : q \in Int} = {Line(q) : q \in Int}
    BY <1>12, Zenon
  <2> QED
    BY <1>11, <2>1
<1>14. \A k \in 1 .. j + 1 : lines'[k] = Line(p[n + 1 - k])'
  <2> SUFFICES ASSUME NEW k \in 1 .. j + 1 PROVE lines'[k] = Line(p[n + 1 - k])
    BY <1>12, Zenon
  <2>1. CASE k = j + 1
    <3>1. n + 1 - k = n - j
      BY <2>1
    <3> QED
      BY <1>11, <2>1, <3>1
  <2>2. CASE k \in 1 .. j
    BY <1>5, <1>6, <1>11, <2>2 DEF Walked
  <2> QED
    BY <2>1, <2>2
<1>15. walk' = IF j + 1 = n THEN 0 ELSE p[n - (j + 1)]
  <2>1. walk' = stack[p[n - j]]
    BY <1>2, <1>7
  <2>2. (n - j = 1) = (j + 1 = n) /\ (n - j) - 1 = n - (j + 1)
    OBVIOUS
  <2> QED
    BY <1>9, <2>1, <2>2
<1>16. Walked(p, n)'
  <2>1. j + 1 <= n
    BY <1>7
  <2> QED
    BY <1>11, <1>13, <1>14, <1>15, <2>1 DEF Walked
<1>17. Walking'
  BY <1>2, <1>3, <1>4, <1>16 DEF Walking
<1>18. Types' /\ Frames' /\ Shape' /\ MessagesNest'
  BY <1>1, <1>2 DEF Types, Frames, Shape, Starting, Tested, Testing, Graded, Monitoring, MessagesNest
<1> QED
  BY <1>17, <1>18 DEF IInv

-----------------------------------------------------------------------------
(* The theorems. *)

LEMMA InitHolds == ASSUME Init PROVE IInv
<1>1. build \in [locals : LOCALS, inlined : BOOLEAN] /\ chain = <<>> /\ out = <<>>
  BY DEF Init
<1>2. Types
  <2>1. stack \in [bootstack .. bootstacktop + 6 -> Int]
    BY DEF Init
  <2> QED
    BY <1>1, <2>1 DEF Types
<1>3. Len(chain) = 0 /\ Len(out) = 0
  BY <1>1
<1>4. Frames
  <2>1. ebp = 0 /\ esp = bootstacktop
    BY DEF Init, NoFrame
  <2>2. 1 .. 0 = {} /\ 2 .. 0 = {}
    OBVIOUS
  <2>3. \A p, c, l : Spaced(p, 0, c, l)
    BY <2>2 DEF Spaced
  <2>4. \A p, c, st : Linked(p, 0, c, st)
    BY <2>2 DEF Linked
  <2> QED
    BY <1>3, <2>1, <2>3, <2>4 DEF Frames, Framed
<1>5. Shape
  BY <1>3 DEF Shape, Starting
<1>6. MessagesNest
  BY <1>1 DEF MessagesNest
<1>7. Walking
  BY <1>1 DEF Walking
<1> QED
  BY <1>2, <1>4, <1>5, <1>6, <1>7 DEF IInv

LEMMA StepHolds == ASSUME IInv, [Next]_vars PROVE IInv'
<1>1. CASE UNCHANGED vars
  <2>1. UNCHANGED <<stack, esp, ebp, build, chain, walk, lines, out>>
    BY <1>1 DEF vars, stack_vars
  <2>2. \A q : Line(q)' = Line(q)
    BY <2>1 DEF Line
  <2>3. {Line(q)' : q \in Int} = {Line(q) : q \in Int}
    BY <2>2, Zenon
  <2>4. \A p, n : Walked(p, n) => Walked(p, n)'
    BY <2>1, <2>2, <2>3 DEF Walked
  <2>5. Walking'
    <3>1. PICK p, n : p = Places(chain, build.locals) /\ n = Len(chain)
      OBVIOUS
    <3>2. chain # <<>> /\ top.fn = "mon_backtrace" /\ top.at = 1 => Walked(p, n)
      BY <3>1 DEF IInv, Walking
    <3>3. p = Places(chain', build'.locals) /\ n = Len(chain') /\ top' = top /\ chain' = chain
      BY <2>1, <3>1 DEF top
    <3> QED
      BY <2>4, <3>2, <3>3 DEF Walking
  <2>6. Types' /\ Frames' /\ Shape' /\ MessagesNest'
    BY <2>1 DEF IInv, Types, Frames, Shape, Starting, Tested, Testing, Graded, Monitoring, MessagesNest
  <2> QED
    BY <2>5, <2>6 DEF IInv
<1>2. CASE Next
  BY <1>2, EntryKeeps, InitCallsTestKeeps, EnteringKeeps, RecurseKeeps, TestCallsBacktraceKeeps,
     LeavingKeeps, InitCallsMonitorKeeps, MonitorRunsCommandKeeps, RuncmdCallsBacktraceKeeps,
     RuncmdReturnsKeeps, ReadEbpKeeps, PrintFrameKeeps, BacktraceReturnsKeeps DEF Next
<1> QED
  BY <1>1, <1>2

LEMMA Holding == Spec => []IInv
<1>1. Init => IInv
  BY InitHolds
<1>2. IInv /\ [Next]_vars => IInv'
  BY StepHolds
<1> QED
  BY <1>1, <1>2, PTL DEF Spec

\* What the frames give for a backtrace's line.
LEMMA Lines ==
  ASSUME IInv, chain # <<>>, top.fn = "mon_backtrace", top.at = 1,
         NEW n \in Nat \ {0}, n = Len(chain), NEW k \in DOMAIN lines
  PROVE  /\ Len(lines) <= n /\ Len(lines) \in Nat /\ DOMAIN lines = 1 .. Len(lines) /\ n + 1 - k \in 1 .. n
         /\ lines[k].fn = IF k = n THEN "entry" ELSE chain[n - k].fn
         /\ \A j \in 1 .. 5 : j <= Len(chain[n + 1 - k].args) => lines[k].args[j] = chain[n + 1 - k].args[j]
         /\ lines[k].args = [j \in 1 .. 5 |-> lines[k].args[j]]
<1>1. PICK p : p = Places(chain, build.locals)
  OBVIOUS
<1>2. Walked(p, n) /\ Linked(p, n, chain, stack) /\ chain \in Seq(Made)
  BY <1>1 DEF IInv, Walking, Frames, Framed, Types
<1>3. Len(lines) \in Nat /\ DOMAIN lines = 1 .. Len(lines) /\ Len(lines) <= n
  BY <1>2 DEF Walked
<1>4. PICK i \in 1 .. n : i = n + 1 - k /\ (i = 1) = (k = n) /\ i - 1 = n - k
  BY <1>3
<1>5. lines[k] = Line(p[i])
  BY <1>2, <1>3, <1>4 DEF Walked
<1>6. /\ FunctionAt(stack[p[i] + 1]) = IF i = 1 THEN "entry" ELSE chain[i - 1].fn
      /\ \A j \in 1 .. Len(chain[i].args) : stack[p[i] + 1 + j] = chain[i].args[j]
  BY <1>2, Zenon DEF Linked
<1>7. /\ Line(p[i]).fn = FunctionAt(stack[p[i] + 1])
      /\ Line(p[i]).args = [j \in 1 .. 5 |-> stack[p[i] + 1 + j]]
  BY DEF Line
<1>8. Len(chain[i].args) \in Nat
  BY <1>2, Top, <1>4
<1>9. lines[k].fn = IF k = n THEN "entry" ELSE chain[n - k].fn
  BY <1>4, <1>5, <1>6, <1>7
<1>10. ASSUME NEW j \in 1 .. 5, j <= Len(chain[i].args)
       PROVE  lines[k].args[j] = chain[i].args[j]
  <2>1. j \in 1 .. Len(chain[i].args)
    BY <1>8, <1>10
  <2>2. stack[p[i] + 1 + j] = chain[i].args[j]
    BY <1>6, <2>1, Zenon
  <2>3. lines[k].args[j] = stack[p[i] + 1 + j]
    BY <1>5, <1>7, Zenon
  <2> QED
    BY <2>2, <2>3, Zenon
<1>11. lines[k].args = [j \in 1 .. 5 |-> lines[k].args[j]]
  BY <1>5, <1>7
<1> QED
  BY <1>3, <1>4, <1>9, <1>10, <1>11

\* mon_backtrace is done when it has shown every call.
LEMMA Done ==
  ASSUME IInv, chain # <<>>, top.fn = "mon_backtrace", top.at = 1, walk = 0
  PROVE  Len(lines) = Len(chain)
<1>1. Types
  BY DEF IInv
<1>2. PICK n, p : n \in Nat \ {0} /\ n = Len(chain) /\ p = Places(chain, build.locals)
  BY <1>1, Top DEF Types
<1>3. Walked(p, n) /\ Spaced(p, n, chain, build.locals)
  BY <1>2 DEF IInv, Walking, Frames, Framed
<1>4. PICK l \in Nat, low \in Nat \ {0} : l = build.locals /\ low = bootstack
  BY <1>1, Sizes DEF Types
<1>5. \A k \in 1 .. n : low + l <= p[k]
  BY <1>3, <1>4 DEF Spaced
<1>6. \A k \in 1 .. n : p[k] # 0
  <2>1. ~(low + l <= 0)
    OBVIOUS
  <2> QED
    BY <1>5, <2>1
<1>7. ASSUME Len(lines) # n
      PROVE  FALSE
  <2>1. Len(lines) \in Nat /\ Len(lines) <= n /\ walk = p[n - Len(lines)]
    BY <1>3, <1>7 DEF Walked
  <2>2. n - Len(lines) \in 1 .. n
    BY <1>2, <1>7, <2>1
  <2> QED
    BY <1>6, <2>1, <2>2
<1> QED
  BY <1>2, <1>7

LEMMA FewArguments ==
  ASSUME Types, Shape, NEW k \in 1 .. Len(chain)
  PROVE  chain[k].args \in Seq(Int) /\ Len(chain[k].args) <= 3
<1>1. chain[k] \in Made
  BY DEF Types
<1>2. chain[k].args \in Seq(Int)
  BY <1>1 DEF Made
<1>3. PICK n, i, c : n \in Nat /\ i \in Nat /\ n = Len(chain) /\ i = k /\ c = chain[i] /\ 1 <= i /\ i <= n
  BY DEF Types
<1>4. X \in Nat
  BY BacktraceAssumption
<1>5. Len(c.args) <= 3
  <2>1. /\ \A m : c = I386Init(m) => Len(c.args) <= 3
        /\ \A j, m : c = Test(j, m) => Len(c.args) <= 3
        /\ \A m : c = Runcmd(m) => Len(c.args) <= 3
        /\ \A m : c = Reader(<<0, 0, 0>>, m) => Len(c.args) <= 3
        /\ \A m : c = Reader(<<1, argv, 0>>, m) => Len(c.args) <= 3
    <3>1. \A m : c = I386Init(m) => c.args = <<>>
      BY DEF I386Init
    <3>2. \A j, m : c = Test(j, m) => c.args = <<X + 2 - j>>
      BY DEF Test
    <3>3. \A m : c = Runcmd(m) => c.args = <<buf, 0>>
      BY DEF Runcmd
    <3>4. \A m, t : c = Reader(t, m) => c.args = t
      BY DEF Reader
    <3>5. /\ Len(<<>>) <= 3 /\ Len(<<buf, 0>>) <= 3 /\ Len(<<0, 0, 0>>) <= 3 /\ Len(<<1, argv, 0>>) <= 3
          /\ \A x : Len(<<x>>) <= 3
      OBVIOUS
    <3> QED
      BY <3>1, <3>2, <3>3, <3>4, <3>5, Zenon
  <2>2. CASE Starting \/ Tested
    <3>1. n <= 1
      BY <1>3, <2>2 DEF Starting, Tested
    <3>2. i = 1 /\ n = 1
      BY <1>3, <3>1
    <3>3. \E m : c = I386Init(m)
      BY <1>3, <2>2, <3>2 DEF Starting, Tested
    <3> QED
      BY <2>1, <3>3, Zenon
  <2>3. CASE Testing
    <3>1. i = 1 \/ i \in 2 .. n - 1 \/ i = n
      BY <1>3
    <3>2. c = I386Init(1) \/ \E j, m : c = Test(j, m)
      BY <1>3, <2>3, <3>1, Zenon DEF Testing
    <3> QED
      BY <2>1, <3>2, Zenon
  <2>4. CASE Graded
    <3>1. n = X + 3
      BY <1>3, <2>4 DEF Graded
    <3>2. i = 1 \/ i \in 2 .. X + 2 \/ i = X + 3
      BY <1>3, <1>4, <3>1
    <3>3. c = I386Init(1) \/ (\E j, m : c = Test(j, m)) \/ \E m : c = Reader(<<0, 0, 0>>, m)
      BY <1>3, <2>4, <3>2, Zenon DEF Graded
    <3> QED
      BY <2>1, <3>3, Zenon
  <2>5. CASE Monitoring
    <3>1. n \in 2 .. 4
      BY <1>3, <2>5 DEF Monitoring
    <3>2. i = 1 \/ i = 2 \/ (i = 3 /\ (n = 3 \/ n = 4)) \/ (i = 4 /\ n = 4)
      BY <1>3, <3>1
    <3>3. CASE i = 1
      BY <1>3, <2>1, <2>5, <3>3, Zenon DEF Monitoring
    <3>4. CASE i = 2
      <4>1. c = [fn |-> "monitor", args |-> <<0>>, at |-> 0]
        BY <1>3, <2>5, <3>4, Zenon DEF Monitoring
      <4>2. c.args = <<0>> /\ Len(<<0>>) <= 3
        BY <4>1
      <4> QED
        BY <4>2, Zenon
    <3>5. CASE i = 3 /\ (n = 3 \/ n = 4)
      <4>1. (\E m : c = Runcmd(m)) \/ \E m : c = Reader(<<1, argv, 0>>, m)
        BY <1>3, <2>5, <3>5 DEF Monitoring
      <4> QED
        BY <2>1, <4>1, Zenon
    <3>6. CASE i = 4 /\ n = 4
      <4>1. \E m : c = Reader(<<1, argv, 0>>, m)
        BY <1>3, <2>5, <3>6 DEF Monitoring
      <4> QED
        BY <2>1, <4>1, Zenon
    <3> QED
      BY <3>2, <3>3, <3>4, <3>5, <3>6
  <2> QED
    BY <2>2, <2>3, <2>4, <2>5 DEF Shape
<1> QED
  BY <1>2, <1>3, <1>5

LEMMA FirstWords ==
  ASSUME NEW s, s = [j \in 1 .. 5 |-> s[j]], NEW t \in Seq(Int), Len(t) <= 5,
         \A j \in 1 .. Len(t) : s[j] = t[j]
  PROVE  SubSeq(s, 1, Len(t)) = t
<1>1. PICK m \in Nat : m = Len(t) /\ m <= 5
  OBVIOUS
<1>2. SubSeq(s, 1, m) = [j \in 1 .. m |-> s[j]]
  OBVIOUS
<1>3. t = [j \in 1 .. m |-> t[j]]
  BY <1>1
<1>4. [j \in 1 .. m |-> s[j]] = [j \in 1 .. m |-> t[j]]
  BY <1>1
<1> QED
  BY <1>1, <1>2, <1>3, <1>4

\* mon_backtrace shows every call in progress once, from the innermost to i386_init, with an
\* address in the function that made it and its arguments: for whatever test_backtrace is
\* called with, and however many words a compiler has functions keep.
THEOREM BacktraceCorrect == Spec => []BacktraceShowsCalls
<1>1. ASSUME IInv PROVE BacktraceShowsCalls
  <2> SUFFICES ASSUME chain # <<>>, top.fn = "mon_backtrace", top.at = 1
               PROVE  /\ Len(lines) <= Len(chain)
                      /\ \A k \in DOMAIN lines :
                           /\ lines[k].fn = Caller(k)
                           /\ SubSeq(lines[k].args, 1, Len(Called(k).args)) = Called(k).args
                      /\ walk = 0 => Len(lines) = Len(chain)
    BY DEF BacktraceShowsCalls
  <2>1. Types /\ Shape
    BY <1>1 DEF IInv
  <2>2. PICK n \in Nat \ {0} : n = Len(chain)
    BY <2>1, Top DEF Types
  <2>3. Len(lines) <= Len(chain)
    BY <1>1, <2>2 DEF IInv, Walking, Walked
  <2>4. ASSUME NEW k \in DOMAIN lines
        PROVE  lines[k].fn = Caller(k) /\ SubSeq(lines[k].args, 1, Len(Called(k).args)) = Called(k).args
    <3>1. /\ n + 1 - k \in 1 .. n /\ Len(lines) \in Nat /\ DOMAIN lines = 1 .. Len(lines)
          /\ lines[k].fn = IF k = n THEN "entry" ELSE chain[n - k].fn
          /\ \A j \in 1 .. 5 : j <= Len(chain[n + 1 - k].args) => lines[k].args[j] = chain[n + 1 - k].args[j]
          /\ lines[k].args = [j \in 1 .. 5 |-> lines[k].args[j]]
      BY <1>1, <2>2, Lines
    <3>2. n - k + 1 = n + 1 - k /\ n - (k + 1) + 1 = n - k
      BY <3>1
    <3>3. Called(k) = chain[n + 1 - k] /\ Called(k + 1) = chain[n - k]
      BY <2>2, <3>2, Zenon DEF Called
    <3>4. lines[k].fn = Caller(k)
      BY <2>2, <3>1, <3>3 DEF Caller
    <3>5. PICK s, t : s = lines[k].args /\ t = chain[n + 1 - k].args
      OBVIOUS
    <3>6. t \in Seq(Int) /\ Len(t) <= 3
      BY <2>1, <2>2, <3>1, <3>5, FewArguments
    <3>7. /\ s = [j \in 1 .. 5 |-> s[j]] /\ Len(t) <= 5 /\ \A j \in 1 .. Len(t) : s[j] = t[j]
      <4>1. s = [j \in 1 .. 5 |-> s[j]]
        BY <3>1, <3>5, Zenon
      <4>2. Len(t) <= 5 /\ \A j \in 1 .. Len(t) : j \in 1 .. 5 /\ j <= Len(t)
        BY <3>6
      <4>3. \A j \in 1 .. Len(t) : s[j] = t[j]
        BY <3>1, <3>5, <4>2, Zenon
      <4> QED
        BY <4>1, <4>2, <4>3
    <3>8. SubSeq(s, 1, Len(t)) = t
      BY <3>6, <3>7, FirstWords
    <3> QED
      BY <3>3, <3>4, <3>5, <3>8
  <2>5. walk = 0 => Len(lines) = Len(chain)
    BY <1>1, Done
  <2> QED
    BY <2>3, <2>4, <2>5
<1> QED
  BY <1>1, Holding, PTL

\* The backtraces leave the calls and their arguments as they were: every function can
\* return to its caller, test_backtrace leaves in the reverse order that it entered, with
\* the same numbers, and the stack does not grow below its bottom.
THEOREM CallsCorrect == Spec => []CallsUndisturbed
<1>1. ASSUME IInv PROVE CallsUndisturbed
  <2>1. Types /\ Frames /\ MessagesNest /\ chain \in Seq(Made)
    BY <1>1 DEF IInv, Types
  <2>2. PICK l \in Nat, low \in Nat, end \in Nat :
          l = build.locals /\ low = bootstack /\ end = bootstacktop /\ low <= end
    <3>1. KSTKSIZE \in Nat
      BY BacktraceAssumption
    <3> QED
      BY <2>1, <3>1, Sizes DEF Types
  <2>3. CASE chain = <<>>
    <3>1. ebp = 0 /\ esp = bootstacktop
      BY <2>1, <2>3 DEF Frames, Framed
    <3> QED
      BY <2>1, <2>2, <2>3, <3>1 DEF CallsUndisturbed, CanReturn
  <2>4. CASE chain # <<>>
    <3>1. PICK n, p : n \in Nat \ {0} /\ n = Len(chain) /\ p = Places(chain, l)
      BY <2>1, <2>4, Top
    <3>2. /\ ebp = p[n] /\ esp = ebp - l /\ Spaced(p, n, chain, l) /\ Linked(p, n, chain, stack)
      BY <2>1, <2>2, <3>1 DEF Frames, Framed
    <3>3. PICK here \in Int, own \in Nat : here = p[n] /\ own = Len(chain[n].args)
      <4>1. n \in 1 .. Len(chain)
        BY <3>1
      <4>2. p[n] = bootstacktop - 2 - Down(l, n) - Beyond(chain, n)
        BY <3>1, <4>1 DEF Places, Place
      <4>3. Down(l, n) \in Int
        BY <3>1 DEF Down
      <4>4. Beyond(chain, n) \in Int
        BY DEF Beyond
      <4>5. p[n] \in Int
        BY <2>2, <4>2, <4>3, <4>4
      <4>6. Len(chain[n].args) \in Nat
        BY <2>1, <2>4, <4>1, Top
      <4> QED
        BY <4>5, <4>6
    <3>4. low + l <= here /\ here + 2 + own <= end
      BY <3>1, <2>2, <3>2, <3>3 DEF Spaced
    <3>5. esp = here - l
      BY <3>2, <3>3
    <3>6. here - l \in low .. end
      BY <3>4
    <3>7. FunctionAt(stack[ebp + 1]) = Caller(1)
      <4>1. n \in 1 .. n /\ n - (1 + 1) + 1 = n - 1 /\ (n = 1) = (1 = n)
        BY <3>1
      <4>2. FunctionAt(stack[p[n] + 1]) = IF n = 1 THEN "entry" ELSE chain[n - 1].fn
        BY <3>2, <4>1, Zenon DEF Linked
      <4>3. Called(1 + 1) = chain[n - 1]
        BY <3>1, <4>1, Zenon DEF Called
      <4> QED
        BY <3>1, <3>2, <4>2, <4>3 DEF Caller
    <3> QED
      BY <2>1, <2>2, <2>4, <3>5, <3>6, <3>7 DEF CallsUndisturbed, CanReturn
  <2> QED
    BY <2>3, <2>4
<1> QED
  BY <1>1, Holding, PTL

\* The backtrace made by test_backtrace is the one that grade-lab1 looks for, whatever
\* number it starts from.
THEOREM GradedCorrect == Spec => []GradedBacktrace
<1>1. ASSUME IInv PROVE GradedBacktrace
  <2> SUFFICES ASSUME NEW i \in DOMAIN chain, chain[i].fn = "test_backtrace",
                      In("mon_backtrace", 1), walk = 0
               PROVE  /\ Len(lines) = X + 3
                      /\ \A k \in 1 .. X + 2 : lines[k].args[1] = IF k = 1 THEN 0 ELSE k - 2
                      /\ \A k \in 1 .. X + 2 : lines[k].fn = IF k = X + 2 THEN "i386_init" ELSE "test_backtrace"
    BY DEF GradedBacktrace
  <2>1. Types /\ Shape /\ chain # <<>> /\ top.fn = "mon_backtrace" /\ top.at = 1 /\ X \in Nat
    BY <1>1, BacktraceAssumption DEF IInv, In
  <2>2. PICK n \in Nat \ {0} : n = Len(chain)
    BY <2>1, Top DEF Types
  <2>3. ~Monitoring
    <3>1. SUFFICES ASSUME Monitoring PROVE FALSE
      OBVIOUS
    <3>2. i = 1 \/ i = 2 \/ (i = 3 /\ n \in {3, 4}) \/ (i = 4 /\ n = 4)
      BY <2>1, <2>2, <3>1 DEF Types, Monitoring
    <3> QED
      BY <2>2, <3>1, <3>2 DEF Monitoring, I386Init, Runcmd, Reader
  <2>4. Graded /\ n = X + 3
    BY <2>1, <2>2, <2>3, Innermost DEF Types
  <2>5. Len(lines) = X + 3
    BY <1>1, <2>1, <2>2, <2>4, Done
  <2>6. /\ chain[1] = I386Init(1) /\ \A k \in 2 .. X + 2 : chain[k] = Test(k, 2)
        /\ \E m \in {0, 1} : chain[X + 3] = Reader(<<0, 0, 0>>, m)
    BY <2>4 DEF Graded
  <2>7. ASSUME NEW k \in 1 .. X + 2
        PROVE  /\ lines[k].args[1] = IF k = 1 THEN 0 ELSE k - 2
               /\ lines[k].fn = IF k = X + 2 THEN "i386_init" ELSE "test_backtrace"
    <3>1. k \in DOMAIN lines
      <4>1. lines \in Seq({Line(q) : q \in Int})
        BY <1>1, <2>1 DEF IInv, Walking, Walked
      <4> QED
        BY <2>1, <2>5, <4>1
    <3>2. /\ lines[k].fn = IF k = n THEN "entry" ELSE chain[n - k].fn
          /\ \A j \in 1 .. 5 : j <= Len(chain[n + 1 - k].args) => lines[k].args[j] = chain[n + 1 - k].args[j]
      BY <1>1, <2>1, <2>2, <3>1, Lines
    <3>3. k # n /\ n - k = X + 3 - k /\ n + 1 - k = X + 4 - k
      BY <2>1, <2>4
    <3>4. chain[n - k].fn = IF k = X + 2 THEN "i386_init" ELSE "test_backtrace"
      <4>1. CASE k = X + 2
        BY <2>1, <2>6, <3>3, <4>1 DEF I386Init
      <4>2. CASE k # X + 2
        <5>1. n - k \in 2 .. X + 2
          BY <2>1, <3>3, <4>2
        <5>2. chain[n - k] = Test(n - k, 2)
          BY <2>6, <5>1, Zenon
        <5>3. \A j : Test(j, 2).fn = "test_backtrace"
          BY DEF Test
        <5> QED
          BY <4>2, <5>2, <5>3
      <4> QED
        BY <4>1, <4>2
    <3>5. /\ 1 <= Len(chain[n + 1 - k].args)
          /\ chain[n + 1 - k].args[1] = IF k = 1 THEN 0 ELSE k - 2
      <4>1. CASE k = 1
        <5>1. n + 1 - k = X + 3
          BY <2>4, <4>1
        <5> QED
          BY <2>6, <4>1, <5>1 DEF Reader
      <4>2. CASE k # 1
        <5>1. PICK i2 \in 2 .. X + 2 : i2 = n + 1 - k /\ X + 2 - i2 = k - 2
          BY <2>1, <3>3, <4>2
        <5>2. chain[i2].args = <<X + 2 - i2>>
          <6>1. chain[i2] = Test(i2, 2)
            BY <2>6, Zenon
          <6>2. \A j : Test(j, 2).args = <<X + 2 - j>>
            BY DEF Test
          <6> QED
            BY <6>1, <6>2, Zenon
        <5> QED
          BY <4>2, <5>1, <5>2
      <4> QED
        BY <4>1, <4>2
    <3> QED
      BY <3>2, <3>3, <3>4, <3>5
  <2> QED
    BY <2>5, <2>7
<1> QED
  BY <1>1, Holding, PTL
=============================================================================
