------------------------------ MODULE MCKdebug ------------------------------
(* Kdebug on tables as the compiler and the assembler write them: a header, an *)
(* assembly file and a C file in either order, and code without stabs after    *)
(* them.  The C file has two functions and includes code from another file.    *)
EXTENDS Kdebug, Sequences

S(t, v, line, name) == [n_type |-> t, n_value |-> v, n_desc |-> line, n_strx |-> name]
Parameters(n) == [k \in 1 .. n |-> S("PSYM", 8 + 4 * k, 0, 9)]

AsmFile(base) ==
  << S("SO", base, 0, 1), S("SLINE", base, 3, 0), S("SLINE", base + 2, 4, 0), S("SO", base + 4, 0, 0) >>

\* The second function begins at offset f; its second line at offset o, included or not.
CFile(base, n, f, o, included) ==
  << S("SO", base, 0, 2), S("FUN", base, 0, 3) >> \o Parameters(n)
  \o << S("SLINE", 0, 11, 0), S("SLINE", 1, 12, 0), S("FUN", base + f, 0, 4) >> \o Parameters(2 - n)
  \o << S("SLINE", 0, 21, 0) >>
  \o (IF included THEN << S("SOL", base + f + o, 0, 5) >> ELSE <<>>)
  \o << S("SLINE", o, 31, 0), S("SO", base + f + o + 2, 0, 0) >>

FromZero(s) == [k \in 0 .. Len(s) - 1 |-> s[k + 1]]
Header == << S("UNDF", 1, 0, 0) >>

MCTables ==
  { FromZero(Header \o AsmFile(4) \o CFile(8, n, f, o, inc)) :
      n \in 0 .. 2, f \in 3 .. 4, o \in 2 .. 3, inc \in BOOLEAN }
  \cup
  { FromZero(Header \o CFile(4, n, f, o, inc) \o AsmFile(4 + f + o + 2)) :
      n \in 0 .. 2, f \in 3 .. 4, o \in 2 .. 3, inc \in BOOLEAN }
=============================================================================
