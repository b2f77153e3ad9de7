----------------------------- MODULE MCPrintfmt -----------------------------
(* Printfmt on formats of one and of two directives, with every conversion. *)
EXTENDS Printfmt

N(v) == [num |-> v, str |-> <<>>]
Str(v) == [num |-> 0, str |-> v]

Directive(given, w, ws, p, ps, n, conv, arg) ==
  [before |-> <<"k">>, flags |-> given, width |-> w, wstar |-> ws, prec |-> p, pstar |-> ps,
   longs |-> n, conv |-> conv, arg |-> arg]
Simple(conv, arg) == Directive(<<>>, 0, FALSE, -1, FALSE, 0, conv, arg)

NumberFlags == {<<>>, <<"0">>, <<"-">>, <<"0", "-">>}
NumberDirectives ==
  {Directive(f, w, FALSE, -1, FALSE, n, c, N(v)) :
     f \in NumberFlags, w \in {0, 3, 12}, n \in {0, 2}, c \in {"d", "u", "o", "x"}, v \in {0, 7, 100, -100}}
  \cup {Directive(<<>>, w, FALSE, -1, FALSE, 0, "p", N(171)) : w \in {0, 2, 5}}
StringDirectives ==
  {Directive(f, w, w = 4, p, p \in {0, 1, -3}, 0, "s", Str(v)) :
     f \in {<<>>, <<"-">>, <<"#">>}, w \in {0, 4, 7}, p \in {-3, -1, 0, 1, 2}, v \in {<<>>, <<"a", "CTRL", "b">>, NULL}}
OtherDirectives ==
  {Simple("c", Str(<<"y">>)), Simple("%", N(0)),
   Directive(<<"0">>, 12, FALSE, -1, FALSE, 1, "z", N(0)), Directive(<<"-">>, 5, TRUE, 0, FALSE, 0, "z", N(0))}
  \cup {Directive(<<>>, 4, FALSE, 0, FALSE, 0, "s", Str(<<"a">>))}
  \cup {Simple("e", N(v)) : v \in {0, 1, 6, -4, 7, -9}}
Unfinished == {Simple("NUL", N(0)), Directive(<<"0">>, 2, TRUE, -1, FALSE, 1, "NUL", N(0))}
Directives == NumberDirectives \cup StringDirectives \cup OtherDirectives

Made(parts, rest) ==
  [parts |-> parts, rest |-> rest,
   fmt |-> FlattenSeq([k \in DOMAIN parts |-> parts[k].before \o <<"%">> \o Text(parts[k])]) \o rest,
   args |-> FlattenSeq([k \in DOMAIN parts |-> Arguments(parts[k])])]

MCPrintfs ==
  {Made(<<d>>, <<"m">>) : d \in Directives}
  \cup {Made(<<d, e>>, <<>>) : d \in Directives,
          e \in Unfinished \cup {Directive(<<>>, 3, FALSE, -1, FALSE, 0, "d", N(7)),
                                 Directive(<<>>, 4, TRUE, -1, FALSE, 0, "s", Str(<<"q">>))}}
=============================================================================
