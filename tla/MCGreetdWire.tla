---- MODULE MCGreetdWire ----
(* GreetdWire for model checking. *)
EXTENDS GreetdWire
====
