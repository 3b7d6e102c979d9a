---------------------------- MODULE MCBatchContent ----------------------------
EXTENDS BatchContent

Shape(kind, disposition, memory, back, tokens) ==
  [kind |-> kind, disposition |-> disposition, memory |-> memory, back |-> back, tokens |-> tokens]

(* Messages, tool results and a derived unit; with and without references; *)
(* answers grounded in the unit before or two before; a unit over the soft *)
(* cap; one kept as a reference; a large one and one beyond every budget.  *)
MCShapes ==
  {Shape("user", "include", FALSE, 0, 1),
   Shape("user", "include", TRUE, 0, 2),
   Shape("user", "reference_only", FALSE, 0, 1),
   Shape("tool_result", "include", FALSE, 1, 1),
   Shape("assistant", "include", FALSE, 0, 1),
   Shape("assistant", "include", TRUE, 0, 1),
   Shape("assistant", "include", TRUE, 1, 1),
   Shape("assistant", "include", FALSE, 2, 2),
   Shape("operational", "include", TRUE, 0, 1),
   Shape("user", "include", FALSE, 0, 5),
   Shape("assistant", "exclude", FALSE, 0, 1)}
===============================================================================
