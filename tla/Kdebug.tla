------------------------------- MODULE Kdebug -------------------------------
(***************************************************************************)
(* debuginfo_eip of kern/kdebug.c: three searches by stab_binsearch, each  *)
(* in the region that the one before it returned, and two loops over the   *)
(* stabs around what they found.                                           *)
(***************************************************************************)
EXTENDS StabSearch, FiniteSets

CONSTANTS
  ULIM,      \* lowest address debuginfo_eip looks up
  StrSize    \* size of the string table: a name is an offset in it

ASSUME KdebugAssumption ==
  /\ ULIM \in Nat /\ StrSize \in Nat
  /\ {"SO", "SOL", "FUN", "SLINE", "PSYM"} \subseteq Types
  /\ \A tab \in Tables : \A k \in DOMAIN tab : tab[k].n_strx \in Nat /\ tab[k].n_desc \in Nat

\* How the compiler, the assembler and the linker lay a table out: files in the order of
\* their addresses; a file's functions in theirs, the first of them, if there is one, where
\* the file begins; a function's parameters right after it, and after them its lines, or an
\* assembly file's, in order.
Unbroken(tab, j, k, types) == \A n \in j + 1 .. k : tab[n].n_type \notin types
LaidOut(tab) ==
  /\ tab[0].n_type # "SO"
  /\ \A j \in DOMAIN tab : tab[j].n_type = "SO" => tab[j].n_value # 0
  /\ \A j, k \in DOMAIN tab :
       /\ Increasing(tab, "SO", j, k)
       /\ Unbroken(tab, j, k, {"SO"}) => Increasing(tab, "FUN", j, k)
       /\ Unbroken(tab, j, k, {"SO", "FUN"}) => Increasing(tab, "SLINE", j, k)
       /\ j < k /\ tab[j].n_type = "SO" /\ tab[k].n_type = "FUN" /\ Unbroken(tab, j, k, {"SO"}) =>
            \E n \in j + 1 .. k : tab[n].n_type = "FUN" /\ tab[n].n_value = tab[j].n_value
       /\ j < k /\ tab[j].n_type = "FUN" /\ tab[k].n_type = "PSYM"
            /\ Unbroken(tab, j, k, {"SO", "FUN"}) =>
              /\ \A n \in j + 1 .. k : tab[n].n_type = "PSYM"
              /\ k + 1 \in DOMAIN tab /\ tab[k + 1].n_type \notin {"SO", "FUN"}

ASSUME LayoutAssumption == \A tab \in Tables : LaidOut(tab)

VARIABLES
  eip, stabstr_valid,                \* the argument; is the string table sound?
  lfile, rfile, lfun, rfun, lline,
  info,                              \* struct Eipdebuginfo
  phase,                             \* what debuginfo_eip is doing
  result

regionVars == <<lfile, rfile, lfun, rfun, lline>>
inputs == <<stabs, eip, stabstr_valid>>
vars == <<searchVars, eip, stabstr_valid, regionVars, info, phase, result>>

UnknownName == -1
NameOf_unchecked(s, default) == s.n_strx
NameOf(s, default) == IF s.n_strx < StrSize THEN s.n_strx ELSE default

Return(code) == result' = code /\ phase' = "returned"

UserAddress ==
  /\ phase = "enter" /\ eip < ULIM
  /\ phase' = "panicked"
  /\ UNCHANGED <<searchVars, eip, stabstr_valid, regionVars, info, result>>

BadStrings ==
  /\ phase = "enter" /\ eip >= ULIM /\ ~stabstr_valid
  /\ Return(-1)
  /\ UNCHANGED <<searchVars, eip, stabstr_valid, regionVars, info>>

SearchFile ==
  /\ phase = "enter" /\ eip >= ULIM /\ stabstr_valid
  /\ Call(0, Cardinality(DOMAIN stabs) - 1, "SO", eip)
  /\ phase' = "file"
  /\ UNCHANGED <<inputs, regionVars, info, result>>

Searching ==
  /\ phase \in {"file", "function", "line"}
  /\ stab_binsearch
  /\ UNCHANGED <<eip, stabstr_valid, regionVars, info, phase, result>>

NoFile ==
  /\ phase = "file" /\ pc = "done" /\ region_left = 0
  /\ Return(-1)
  /\ lfile' = region_left /\ rfile' = region_right
  /\ UNCHANGED <<searchVars, eip, stabstr_valid, lfun, rfun, lline, info>>

\* Mutant: the function is searched for in all files, not in the one found.
FileFound_anywhere ==
  /\ phase = "file" /\ pc = "done" /\ region_left # 0
  /\ lfile' = region_left /\ rfile' = region_right
  /\ Call(0, right0, "FUN", eip)
  /\ phase' = "function"
  /\ UNCHANGED <<inputs, lfun, rfun, lline, info, result>>
FileFound ==
  /\ phase = "file" /\ pc = "done" /\ region_left # 0
  /\ lfile' = region_left /\ rfile' = region_right
  /\ Call(region_left, region_right, "FUN", eip)
  /\ phase' = "function"
  /\ UNCHANGED <<inputs, lfun, rfun, lline, info, result>>

\* Line stabs inside a function count from its beginning.
\* Mutant: the line is searched for in the whole file.
FunctionFound_file_lines ==
  /\ phase = "function" /\ pc = "done" /\ region_left <= region_right
  /\ lfun' = region_left /\ rfun' = region_right
  /\ LET fun == stabs[region_left] IN
       /\ info' = [info EXCEPT !.eip_fn_name = NameOf(fun, @), !.eip_fn_addr = fun.n_value]
       /\ Call(lfile, rfile, "SLINE", (eip - fun.n_value) % ADDRS)
  /\ phase' = "line"
  /\ UNCHANGED <<inputs, lfile, rfile, lline, result>>
FunctionFound ==
  /\ phase = "function" /\ pc = "done" /\ region_left <= region_right
  /\ lfun' = region_left /\ rfun' = region_right
  /\ LET fun == stabs[region_left] IN
       /\ info' = [info EXCEPT !.eip_fn_name = NameOf(fun, @), !.eip_fn_addr = fun.n_value]
       /\ Call(region_left, region_right, "SLINE", (eip - fun.n_value) % ADDRS)
  /\ phase' = "line"
  /\ UNCHANGED <<inputs, lfile, rfile, lline, result>>

\* An assembly file: its line stabs hold addresses.
NoFunction ==
  /\ phase = "function" /\ pc = "done" /\ region_left > region_right
  /\ lfun' = region_left /\ rfun' = region_right
  /\ Call(lfile, rfile, "SLINE", eip)
  /\ phase' = "line"
  /\ UNCHANGED <<inputs, lfile, rfile, lline, info, result>>

\* The line reported is the n_value of the stab found.
LineSearched ==
  /\ phase = "line" /\ pc = "done"
  /\ lline' = region_left
  /\ info' = IF region_left <= region_right
             THEN [info EXCEPT !.eip_line = stabs[region_left].n_value] ELSE info
  /\ phase' = "filename"
  /\ UNCHANGED <<searchVars, eip, stabstr_valid, lfile, rfile, lfun, rfun, result>>

\* Mutant: the stabs of included files are passed over.
NamesFile_SO(s) == s.n_type = "SO" /\ s.n_value # 0
NamesFile(s) == s.n_type = "SOL" \/ (s.n_type = "SO" /\ s.n_value # 0)

FileNameBack ==
  /\ phase = "filename" /\ lline >= lfile /\ ~NamesFile(stabs[lline])
  /\ lline' = lline - 1
  /\ UNCHANGED <<searchVars, eip, stabstr_valid, lfile, rfile, lfun, rfun, info, phase, result>>

\* Mutant: the parameters are counted from the function's own stab on.
FirstParameter_fun == lfun
FirstParameter == lfun + 1
FileNamed ==
  /\ phase = "filename" /\ ~(lline >= lfile /\ ~NamesFile(stabs[lline]))
  /\ info' = IF lline >= lfile THEN [info EXCEPT !.eip_file = NameOf(stabs[lline], @)] ELSE info
  /\ IF lfun < rfun
     THEN lline' = FirstParameter /\ phase' = "arguments" /\ UNCHANGED result
     ELSE Return(0) /\ UNCHANGED lline
  /\ UNCHANGED <<searchVars, eip, stabstr_valid, lfile, rfile, lfun, rfun>>

AtParameter == lline < rfun /\ stabs[lline].n_type = "PSYM"
CountArgument ==
  /\ phase = "arguments" /\ AtParameter
  /\ info' = [info EXCEPT !.eip_fn_narg = @ + 1]
  /\ lline' = lline + 1
  /\ UNCHANGED <<searchVars, eip, stabstr_valid, lfile, rfile, lfun, rfun, phase, result>>

ArgumentsCounted ==
  /\ phase = "arguments" /\ ~AtParameter
  /\ Return(0)
  /\ UNCHANGED <<searchVars, eip, stabstr_valid, regionVars, info>>

-----------------------------------------------------------------------------
\* A call for any address, with the kernel's table and its string table.
Init ==
  /\ stabs \in Tables
  /\ eip \in 0 .. ADDRS - 1
  /\ stabstr_valid \in BOOLEAN
  /\ lfile = 0 /\ rfile = 0 /\ lfun = 0 /\ rfun = 0 /\ lline = 0
  /\ info = [eip_file |-> UnknownName, eip_line |-> 0, eip_fn_name |-> UnknownName,
             eip_fn_addr |-> eip, eip_fn_narg |-> 0]
  /\ phase = "enter" /\ result = 0
  /\ region_left = 0 /\ region_right = 0 /\ l = 0 /\ r = 0 /\ m = 0 /\ any_matches = FALSE
  /\ type = "SO" /\ addr = 0 /\ left0 = 0 /\ right0 = 0 /\ addr0 = 0
  /\ pc = "done"

debuginfo_eip ==
  \/ UserAddress \/ BadStrings \/ SearchFile \/ Searching
  \/ NoFile \/ FileFound \/ FunctionFound \/ NoFunction \/ LineSearched
  \/ FileNameBack \/ FileNamed \/ CountArgument \/ ArgumentsCounted

Spec == Init /\ [][debuginfo_eip]_vars
FairSpec == Spec /\ WF_vars(debuginfo_eip)

-----------------------------------------------------------------------------
(* Properties. *)

\* Every variable has its type: the searches stay inside their regions, the loops
\* inside the table, and no name is
\* taken from outside the string table.
KdebugTypeOK ==
  /\ SearchTypeOK
  /\ {lfile, lfun} \subseteq DOMAIN stabs
  /\ {rfile, rfun} \subseteq DOMAIN stabs \cup {-1}
  /\ lline \in DOMAIN stabs \cup {-1}
  /\ {info.eip_file, info.eip_fn_name} \subseteq {UnknownName} \cup 0 .. StrSize - 1
  /\ info.eip_fn_addr \in 0 .. ADDRS - 1
  /\ info.eip_fn_narg \in 0 .. Cardinality(DOMAIN stabs)
  /\ phase \in {"enter", "panicked", "file", "function", "line", "filename", "arguments", "returned"}
  /\ result \in {-1, 0}

\* The table mixes files, and addresses with offsets, but every region that
\* stab_binsearch is asked to search is in the table, not empty, and sorted by the type
\* it searches for.
SearchesSortedRegions ==
  pc = "search" =>
    /\ {left0, right0} \subseteq DOMAIN stabs /\ left0 <= right0
    /\ Increasing(stabs, type, left0, right0)

\* What the table says of the address, without searching: the last stab of a type
\* at or below the address a in [lo, hi], -1 if there is none.
LastOf(tab, t, a, lo, hi) ==
  LET found == {k \in lo .. hi : tab[k].n_type = t /\ tab[k].n_value <= a}
  IN  IF found = {} THEN -1 ELSE CHOOSE k \in found : \A j \in found : j <= k
EndOf(tab, t, k) ==
  LET next == {j \in DOMAIN tab : j > k /\ tab[j].n_type \in {t, "SO"}}
  IN  IF next = {} THEN Cardinality(DOMAIN tab) - 1
      ELSE (CHOOSE j \in next : \A i \in next : j <= i) - 1
File == LastOf(stabs, "SO", eip, 0, Cardinality(DOMAIN stabs) - 1)
Function == LastOf(stabs, "FUN", eip, File, EndOf(stabs, "SO", File))
LineStab ==
  IF Function = -1 THEN LastOf(stabs, "SLINE", eip, File, EndOf(stabs, "SO", File))
  ELSE LastOf(stabs, "SLINE", eip - stabs[Function].n_value, Function, EndOf(stabs, "FUN", Function))

\* No stab of the kinds searched for begins at the very next address.
NothingNext ==
  /\ eip < ADDRS - 1
  /\ \A k \in DOMAIN stabs :
       CASE stabs[k].n_type \in {"SO", "FUN"} -> stabs[k].n_value # eip + 1
         [] stabs[k].n_type = "SLINE" ->
              stabs[k].n_value # (IF Function = -1 THEN eip ELSE eip - stabs[Function].n_value) + 1
         [] OTHER -> TRUE

Found == phase = "returned" /\ result = 0 /\ NothingNext

\* The function reported is the one that contains the address, with its name; none
\* if the address is in an assembly file or between files.
FunctionContainsEip ==
  Found =>
    IF Function = -1
    THEN info.eip_fn_addr = eip /\ info.eip_fn_name = UnknownName
    ELSE info.eip_fn_addr = stabs[Function].n_value /\ info.eip_fn_name = NameOf(stabs[Function], UnknownName)

\* The file reported is the one the line is in: the last file or included file
\* named before the line's stab.
FileOfLine ==
  Found /\ LineStab # -1 =>
    \E k \in File .. LineStab :
      /\ info.eip_file = NameOf(stabs[k], UnknownName) /\ NamesFile(stabs[k])
      /\ \A j \in k + 1 .. LineStab : stabs[j].n_type \notin {"SO", "SOL"}

\* "eip_fn_narg: Number of function arguments": all the function's parameter stabs.
CountsParameters ==
  Found =>
    info.eip_fn_narg =
      IF Function = -1 THEN 0
      ELSE Cardinality({k \in Function .. EndOf(stabs, "FUN", Function) : stabs[k].n_type = "PSYM"})

\* Together: what mon_backtrace is told of an address is what the table says of it.
InfoDescribesEip == FunctionContainsEip /\ FileOfLine /\ CountsParameters

\* debuginfo_eip comes to an end.
DebuginfoReturns == <>(phase \in {"returned", "panicked"})

\* "If found, set info->eip_line to the right line number" (kdebug.c:179).  The
\* code takes the stab's n_value, an offset or an address; the line is its n_desc.
LineIsRight == Found /\ LineStab # -1 => info.eip_line = stabs[LineStab].n_desc
=============================================================================
