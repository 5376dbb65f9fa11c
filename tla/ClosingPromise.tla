---------------------------- MODULE ClosingPromise ----------------------------
(***************************************************************************)
(* What the closing promises to those who use a period, with no locks and   *)
(* no transactions: each transition of closing/transitions.ts happens at    *)
(* once, from the status and the signatures the period has at that moment.  *)
(* A period is approved only while its accounts are complete, and only with *)
(* the lead's signature where it needs one; whoever reopens it takes every  *)
(* signature back.                                                          *)
(***************************************************************************)

CONSTANTS Period, needsLead

VARIABLES
  status,   \* of each period
  signed,   \* the lead has approved
  approved, \* HR has approved
  complete  \* the accounts match the bookings; changes as it likes

Init ==
  /\ status = [p \in Period |-> "OPEN"]
  /\ signed = [p \in Period |-> FALSE]
  /\ approved = [p \in Period |-> FALSE]

Moves(p, from, to) ==
  /\ status[p] = from
  /\ status' = [status EXCEPT ![p] = to]

Review(p) ==
  /\ Moves(p, "OPEN", "REVIEW")
  /\ ~ signed[p] /\ ~ approved[p]
  /\ UNCHANGED <<signed, approved>>

Sign(p) ==
  /\ status[p] = "REVIEW" /\ needsLead[p]
  /\ signed' = [signed EXCEPT ![p] = TRUE]
  /\ UNCHANGED <<status, approved>>

Approve(p) ==
  /\ Moves(p, "REVIEW", "CLOSED")
  /\ needsLead[p] => signed[p]
  /\ complete[p]
  /\ approved' = [approved EXCEPT ![p] = TRUE]
  /\ UNCHANGED signed

Export(p) ==
  /\ Moves(p, "CLOSED", "EXPORTED")
  /\ approved[p] /\ complete[p]
  /\ UNCHANGED <<signed, approved>>

Reopen(p) ==
  /\ Moves(p, "REVIEW", "OPEN") \/ Moves(p, "CLOSED", "OPEN")
  /\ signed' = [signed EXCEPT ![p] = FALSE]
  /\ approved' = [approved EXCEPT ![p] = FALSE]

Correct(p) ==
  /\ Moves(p, "EXPORTED", "REVIEW")
  /\ approved' = [approved EXCEPT ![p] = FALSE]
  /\ UNCHANGED signed

Next == \E p \in Period :
  Review(p) \/ Sign(p) \/ Approve(p) \/ Export(p) \/ Reopen(p) \/ Correct(p)

Spec == Init /\ [][Next]_<<status, signed, approved>>
=============================================================================
