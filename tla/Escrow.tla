------------------------------- MODULE Escrow -------------------------------
(***************************************************************************)
(* What the payment handlers promise about the money of a job, whatever is *)
(* delivered twice, late or out of order: a hold comes first; it is either *)
(* captured, for completed work, and then paid out to one provider, or     *)
(* released, for a cancelled job; and nothing is undone.                   *)
(* Source of the promise: worker/payments.ts, the three moments of its     *)
(* header, and docs/audits/PHASE_4_PLATFORM.md.                            *)
(***************************************************************************)
CONSTANTS Jobs, Providers

VARIABLES
  funds,  \* what became of the customer's money
  payees, \* the providers it was paid to
  over    \* how the job ended: "OPEN", "COMPLETED" or "CANCELLED"

vars == <<funds, payees, over>>

Init ==
  /\ funds = [j \in Jobs |-> "NONE"]
  /\ payees = [j \in Jobs |-> {}]
  /\ over = [j \in Jobs |-> "OPEN"]

Advance(j, from, to) ==
  /\ funds[j] = from
  /\ funds' = [funds EXCEPT ![j] = to]

Close(j) ==
  /\ over[j] = "OPEN"
  /\ \E end \in {"COMPLETED", "CANCELLED"} : over' = [over EXCEPT ![j] = end]
  /\ UNCHANGED <<funds, payees>>

Hold(j) ==
  /\ Advance(j, "NONE", "HELD")
  /\ UNCHANGED <<payees, over>>

Release(j) ==
  /\ over[j] = "CANCELLED"
  /\ Advance(j, "HELD", "RELEASED")
  /\ UNCHANGED <<payees, over>>

Capture(j) ==
  /\ over[j] = "COMPLETED"
  /\ Advance(j, "HELD", "TAKEN")
  /\ UNCHANGED <<payees, over>>

\* The provider is paid, once and for all ...
Pay(j, p) ==
  /\ funds[j] = "TAKEN"
  /\ payees[j] = {}
  /\ payees' = [payees EXCEPT ![j] = {p}]
  /\ UNCHANGED <<funds, over>>

\* ... and the books are closed.
Settle(j) ==
  /\ payees[j] # {}
  /\ Advance(j, "TAKEN", "PAID")
  /\ UNCHANGED <<payees, over>>

Next ==
  \E j \in Jobs :
    \/ Close(j) \/ Hold(j) \/ Release(j) \/ Capture(j) \/ Settle(j)
    \/ \E p \in Providers : Pay(j, p)

Spec == Init /\ [][Next]_vars

-----------------------------------------------------------------------------
(* What the promise is worth *)

\* Money leaves for one provider, only for completed work that the customer was
\* charged for, and never for a job whose hold was released; books that are
\* closed were paid.
PaidForWork ==
  \A j \in Jobs :
    /\ payees[j] # {} => /\ over[j] = "COMPLETED" /\ funds[j] \in {"TAKEN", "PAID"}
                        /\ \E p \in Providers : payees[j] = {p}
    /\ funds[j] = "PAID" => payees[j] # {}
    /\ funds[j] = "RELEASED" => over[j] = "CANCELLED"

\* What money was held, taken, paid or released for good is never undone.
NothingIsUndone ==
  [][\A j \in Jobs :
       /\ payees[j] # {} => payees'[j] = payees[j]
       /\ funds[j] \in {"PAID", "RELEASED"} => funds'[j] = funds[j]
       /\ funds[j] = "TAKEN" => funds'[j] \in {"TAKEN", "PAID"}
       /\ funds[j] = "HELD" => funds'[j] # "NONE"]_vars
=============================================================================
