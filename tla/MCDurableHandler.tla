--------------------------- MODULE MCDurableHandler ---------------------------
(* Handlers for TLC: the operation 1 is awaited, the others are its inputs. *)
EXTENDS DurableHandler

Kinds(kinds) == [op \in Ops |-> IF op <= Len(kinds) THEN kinds[op] ELSE "none"]

S(kinds, ins, silent) ==
  [kind |-> Kinds(kinds), becomes |-> Kinds(kinds),
   inputs |-> [op \in Ops |-> IF op <= Len(ins) THEN ins[op] ELSE <<>>],
   of |-> [op \in Ops |-> op], silent |-> silent, opaque |-> {}, omits |-> FALSE]

Omitting(s) == [s EXCEPT !.omits = TRUE]
Opaque(s, ops) == [s EXCEPT !.opaque = ops]

\* `h` is the handle of `op`.
WithHandle(s, h, op) == [s EXCEPT !.of[h] = op]

\* What the operations are once the handler was deployed again.
Becomes(s, kinds) == [s EXCEPT !.becomes = Kinds(kinds)]

MCRedeployed ==
  {Becomes(S(<<"step">>, <<>>, {}), <<"condition">>),
   Becomes(S(<<"condition">>, <<>>, {}), <<"step">>),
   Becomes(S(<<"callback">>, <<>>, {}), <<"invoke">>),
   Becomes(S(<<"child", "step">>, <<<<2>>>>, {}), <<"virtual", "step">>),
   Becomes(S(<<"child", "step", "wait">>, <<<<2, 3>>>>, {}), <<"child", "wait", "step">>),
   Becomes(S(<<"wait_for_callback", "callback", "step">>, <<<<2, 3>>>>, {}),
           <<"wait_for_callback", "callback", "wait">>),
   Becomes(S(<<"race", "step", "wait">>, <<<<2, 3>>>>, {}), <<"race", "step", "callback">>),
   Becomes(S(<<"join_all", "step", "step">>, <<<<2, 3>>>>, {}), <<"join_all", "wait", "step">>),
   Becomes(WithHandle(S(<<"virtual", "race", "step", "handle", "step">>, <<<<2, 5>>, <<3, 4>>>>, {}), 4, 5),
           <<"virtual", "race", "step", "handle", "wait">>)}

MCShapes == MCRedeployed \cup
  {S(<<"wait">>, <<>>, {}), S(<<"invoke">>, <<>>, {}), S(<<"callback">>, <<>>, {}),
   S(<<"condition">>, <<>>, {}),
   S(<<"child", "step", "step">>, <<<<2, 3>>>>, {}),
   S(<<"child", "child", "step">>, <<<<2>>, <<3>>>>, {}),
   S(<<"virtual", "child", "step">>, <<<<2>>, <<3>>>>, {}),
   S(<<"wait_for_callback", "callback", "step">>, <<<<2, 3>>>>, {}),
   S(<<"with_retry", "child", "wait", "child", "step", "step">>,
     <<<<2, 3, 4>>, <<5>>, <<>>, <<6>>>>, {}),
   S(<<"try_join_all", "step", "step">>, <<<<2, 3>>>>, {}),
   S(<<"try_join_all", "callback", "step">>, <<<<2, 3>>>>, {}),
   S(<<"join_all", "step", "wait">>, <<<<2, 3>>>>, {}),
   S(<<"select_ok", "step", "step">>, <<<<2, 3>>>>, {}),
   S(<<"race", "step", "callback">>, <<<<2, 3>>>>, {3}),
   S(<<"race", "child", "step", "step">>, <<<<2, 3>>, <<4>>>>, {}),
   S(<<"race", "condition", "wait">>, <<<<2, 3>>>>, {}),
   S(<<"race", "wait_for_callback", "wait", "callback", "step">>, <<<<2, 3>>, <<4, 5>>>>, {4}),
   S(<<"child", "step", "child", "step">>, <<<<2, 3>>, <<>>, <<4>>>>, {}),
   S(<<"child", "race", "step", "step">>, <<<<2>>, <<3, 4>>>>, {}),
   S(<<"join_all", "child", "child", "step", "step">>, <<<<2, 3>>, <<4>>, <<5>>>>, {}),
   S(<<"race", "virtual", "step", "wait">>, <<<<2, 4>>, <<3>>>>, {}),
   WithHandle(S(<<"virtual", "race", "step", "handle", "step">>, <<<<2, 5>>, <<3, 4>>>>, {}), 4, 5),
   WithHandle(S(<<"child", "try_join_all", "wait", "handle", "select_ok", "step">>,
                <<<<2, 5>>, <<3, 4>>, <<>>, <<>>, <<6>>>>, {}), 4, 5),
   Opaque(S(<<"child", "step">>, <<<<2>>>>, {}), {1, 2}),
   Opaque(S(<<"condition">>, <<>>, {}), {1}),
   S(<<"select_ok">>, <<>>, {}), S(<<"join_all">>, <<>>, {}),
   Omitting(S(<<"condition">>, <<>>, {})),
   Omitting(S(<<"child", "wait", "step">>, <<<<2, 3>>>>, {})),
   Omitting(S(<<"race", "step", "callback">>, <<<<2, 3>>>>, {3}))}

MCChildren == {Opaque(S(<<"child", "step">>, <<<<2>>>>, {}), {2})}
MCConditions == {S(<<"condition">>, <<>>, {})}
=============================================================================
