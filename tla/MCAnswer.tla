------------------------------ MODULE MCAnswer ------------------------------
(***************************************************************************)
(* One answer for TLC: the orders of the middlewares.                      *)
(***************************************************************************)
EXTENDS AnswerChain

\* Orders in which applications install the middlewares (examples/fullstack and
\* examples/api have Logger outermost, then Recovery, then Compress).
MCChains ==
  {<<>>, <<"recovery">>, <<"compress">>, <<"recovery", "compress">>, <<"compress", "recovery">>,
   <<"compress", "logger">>, <<"logger", "recovery", "compress">>, <<"recovery", "logger", "compress">>}
=============================================================================
