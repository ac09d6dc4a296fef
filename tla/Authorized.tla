----------------------------- MODULE Authorized -----------------------------
(***************************************************************************)
(* What the whitelist promises the routes: a set of authorized names that  *)
(* only grows, one name at a time, whoever adds to it.  An addition that   *)
(* could not read the set starts it anew; nothing else ever removes a name *)
(***************************************************************************)
CONSTANT Names
VARIABLES
  authorized,  \* the names
  blind        \* additions that read nothing and have not written yet

Init == authorized \subseteq Names /\ blind = {}

Authorize ==
  /\ \E n \in Names : authorized' = authorized \cup {n}
  /\ UNCHANGED blind

ReadNothing == UNCHANGED authorized /\ blind' \in SUBSET Names /\ blind \subseteq blind'

StartAnew ==
  /\ \E n \in blind : authorized' = {n} /\ blind' = blind \ {n}

GiveUp == UNCHANGED authorized /\ blind' \subseteq blind

Next == Authorize \/ ReadNothing \/ StartAnew \/ GiveUp

Spec == Init /\ [][Next]_<<authorized, blind>>
=============================================================================
