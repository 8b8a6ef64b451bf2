------------------------------- MODULE MCSSI -------------------------------
EXTENDS SSI, TLC

\* k1 is on the list, k2 has been asked; k3 agreed, k5 was not asked.
Begun   == {{Item("k1", "short", 0), Item("k2", "short", 1)}}
Changes ==
  {[op |-> "add",    list |-> <<Item("k3", "short", 0)>>],
   [op |-> "add",    list |-> <<Item("k4", "short", 0), Item("k6", "long", 0), Item("k5", "short", 0)>>],
   [op |-> "remove", list |-> <<Item("k1", "short", 0)>>],
   [op |-> "update", list |-> <<Item("k1", "long", 0)>>],
   [op |-> "update", list |-> <<Item("k2", "other", 1)>>]}
Symmetry == Permutations(PPs) \cup Permutations(Computers)
=============================================================================
