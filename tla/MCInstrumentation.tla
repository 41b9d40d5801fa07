-------------------------- MODULE MCInstrumentation ---------------------------
(* A small instance of Instrumentation for TLC. *)
EXTENDS Instrumentation

MCWorkloads ==
  {[guards |-> 3, scopes |-> 0, files |-> {}],
   [guards |-> 2, scopes |-> 2, files |-> {}],
   [guards |-> 0, scopes |-> 0, files |-> Files],
   [guards |-> 0, scopes |-> 1, files |-> Objects \cup {CHOOSE s \in Spools : TRUE}]}

===============================================================================
