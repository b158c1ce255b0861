---------------------------- MODULE OrderLifecycle ----------------------------
(* What an execution client owes the engine, order by order: a verdict once the  *)
(* order is sent, fills only for an order that was accepted and never more than  *)
(* its quantity, and no way back from an end, except that a canceled order opens *)
(* again when it is filled by what was under way.                                *)
EXTENDS Integers

CONSTANTS Orders

VARIABLES status, filled, total

cycleVars == <<status, filled, total>>

Open == {"submitted", "accepted"}
Statuses == Open \cup {"initialized", "rejected", "canceled", "filled"}

CycleInit ==
  /\ status = [o \in Orders |-> "initialized"]
  /\ filled = [o \in Orders |-> 0]
  /\ total \in [Orders -> Nat \ {0}]

Become(o, s) == status' = [status EXCEPT ![o] = s] /\ UNCHANGED <<filled, total>>

Reject(o) ==
  /\ status[o] \in {"initialized"} \cup Open /\ filled[o] = 0
  /\ Become(o, "rejected")
Place(o) == status[o] = "initialized" /\ \E s \in Open : Become(o, s)
Cancel(o) == status[o] \in Open /\ Become(o, "canceled")

Resize(o) ==
  /\ status[o] \in Open
  /\ total' \in [Orders -> Nat] /\ total'[o] > filled[o]
  /\ \A other \in Orders \ {o} : total'[other] = total[other]
  /\ UNCHANGED <<status, filled>>

\* What is left of the order may end with the fill that is reported.
Fill(o, n) ==
  /\ status[o] \in {"accepted", "canceled"}
  /\ filled[o] < n /\ n <= total[o]
  /\ filled' = [filled EXCEPT ![o] = n]
  /\ \E s \in IF n = total[o] THEN {"filled"} ELSE {"accepted", "canceled"} :
       status' = [status EXCEPT ![o] = s]
  /\ UNCHANGED total

CycleNext ==
  \E o \in Orders :
    \/ Reject(o) \/ Place(o) \/ Cancel(o) \/ Resize(o)
    \/ \E n \in 1..total[o] : Fill(o, n)

CycleSpec == CycleInit /\ [][CycleNext]_cycleVars
=============================================================================
