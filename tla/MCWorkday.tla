------------------------------ MODULE MCWorkday ------------------------------
(* Bounds for TLC: two pages, with a required field and an optional upload *)
(* on the first and a sensitive, optional question on the second.          *)
EXTENDS WorkdayRunner

CONSTANTS name, letter, gender, first, second

MCStepOf == [f \in Fields |-> IF f = gender THEN second ELSE first]

MCPosition == [f \in Fields |-> IF f = letter THEN 2 ELSE 1]

\* Postings that ask everything, and those without the two optional fields.
Postings == shown \in {Fields, {name}}

=============================================================================
