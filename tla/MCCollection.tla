---------------------------- MODULE MCCollection ----------------------------
(***************************************************************************)
(* Instances of Collection for TLC: one subscription of one subject; a      *)
(* company does all that an account does, and can be disabled as well.     *)
(***************************************************************************)
EXTENDS Collection, TLC

CONSTANTS
    First,       \* the dispute that is followed to the end
    MaxVersion   \* bound on the versions that are followed beyond it

OneSubscription == 1 :> "payer"
OnePayer == [d \in Disputes |-> "payer"]

\* The disputes nobody has heard of; how one would close makes no difference.
Unheard == {d \in Disputes \ {First} : hold[d].sub = NoSub /\ verdict[d] = "won"}

\* One dispute of a company that lasts is followed through every fault to its
\* end; several disputes and a disabled company, within these bounds.  A state
\* beyond them is checked, and has no successors.
InBounds ==
    \/ disabled = {} /\ Unheard = Disputes \ {First}
    \/ faults = 0 /\ \A s \in Subs : row[s].desiredVersion <= MaxVersion
=============================================================================
