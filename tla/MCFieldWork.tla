---------------------------- MODULE MCFieldWork -----------------------------
(* FieldWork for TLC. *)
EXTENDS FieldWork

MCPlans == {{"visit", "patch"}, {"leadVisit", "patch"}, {"patch"}, {"lead", "photo"}, {"edit", "photo"}}

(* Two events, and one where visits and Do Not Knock changes meet. *)
MCMaxEvents == [p \in MCPlans |-> IF p \in {{"visit", "patch"}, {"leadVisit", "patch"}} THEN 1 ELSE 2]
=============================================================================
