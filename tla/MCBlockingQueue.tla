-------------------------- MODULE MCBlockingQueue ---------------------------
(* Instances of BlockingQueue for TLC, with blocks of two or four slots: one *)
(* small block that grows into a circle of three, one larger block that is   *)
(* wrapped, five blocks made by the constructor, and the blocking queue.     *)
EXTENDS BlockingQueue

Use(a, s, b, n) == [api |-> a, size |-> s, blocks |-> b, items |-> n]

MCUses == {Use("plain", 1, 3, 5), Use("plain", 2, 2, 5), Use("plain", 4, 5, 6),
           Use("blocking", 1, 2, 3)}
=============================================================================
