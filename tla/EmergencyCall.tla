--------------------------- MODULE EmergencyCall ---------------------------
(***************************************************************************)
(* What a caller of sms112_sip_send_req may rely on: the SIP server        *)
(* decides over a call at most once, and the caller is told that decision  *)
(* or that nothing is known of it.  It is told once and never anything     *)
(* else: no call counts as accepted that was not.                          *)
(***************************************************************************)

CONSTANT Calls  \* the calls, named by their Call-ID

VARIABLES
  outcome,  \* call -> what became of it at the server
  told      \* call -> what sms112_sip_send_req returned for it

vars == <<outcome, told>>

Decisions == {"accepted", "refused"}

Init ==
  /\ outcome = [c \in Calls |-> "none"]
  /\ told = [c \in Calls |-> "nothing"]

\* A call is placed: the INVITE leaves.
Place(c) ==
  /\ outcome[c] = "none" /\ told[c] = "nothing"
  /\ outcome' = [outcome EXCEPT ![c] = "open"]
  /\ UNCHANGED told

\* The server's final answer reaches the program.
Decide(c, d) ==
  /\ outcome[c] = "open"
  /\ outcome' = [outcome EXCEPT ![c] = d]
  /\ UNCHANGED told

\* The caller is told the decision, or has waited in vain.
Tell(c) ==
  /\ outcome[c] # "none" /\ told[c] = "nothing"
  /\ \E r \in {outcome[c], "unknown"} \ {"open"} : told' = [told EXCEPT ![c] = r]
  /\ UNCHANGED outcome

Next == \E c \in Calls : Place(c) \/ (\E d \in Decisions : Decide(c, d)) \/ Tell(c)

Spec == Init /\ [][Next]_vars

\* Every placed call is reported to its caller in the end.
Reported == \A c \in Calls : WF_vars(Tell(c))
FairSpec == Spec /\ Reported
=============================================================================
