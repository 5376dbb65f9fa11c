---- MODULE MCDocuments ----
(* One document that two people upload to at a time, and two processes that
   recover and stop between two steps. *)
EXTENDS Documents

CONSTANTS contract, ann

MCOwnerOf == [d \in {contract} |-> ann]
====
