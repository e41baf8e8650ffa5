------------------------------ MODULE MCConsole ------------------------------
(* Two browsers: one edits the managed list, the other still holds list old *)
(* and saves, starts and stops.                                             *)
EXTENDS Console

CONSTANTS r1, r2, old, new, plain, tuned

Sent(op, list, settings) == [op |-> op, list |-> list, settings |-> settings]

TwoBrowsers ==
  {Sent("list", old, plain), Sent("list", new, plain), Sent("save", old, tuned),
   Sent("start", old, tuned), Sent("stop", old, plain)}

=============================================================================
