------------------------------- MODULE MCChats ------------------------------
(* TLC instance of the chats of the Node server: two overlapping           *)
(* generations and one other request, one generation and two, or three     *)
(* requests and no generation.                                             *)
EXTENDS Chats

MCBudgets == {[gens |-> 2, requests |-> 1], [gens |-> 1, requests |-> 2],
              [gens |-> 0, requests |-> 3]}
=============================================================================
