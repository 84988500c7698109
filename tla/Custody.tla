------------------------------- MODULE Custody -------------------------------
(***************************************************************************)
(* What a quarantine store promises about the items in its custody,        *)
(* whatever the platform: the documented lifecycle of ItemState            *)
(* (crates/remediation/src/record.rs) and where an item's content may be.  *)
(*                                                                         *)
(* An item's content is at home (the store has not removed the original),  *)
(* in the store, or back with its owner.  It leaves home only for the      *)
(* store, and leaves the store only when it is still at home, has been     *)
(* given back, or its deletion was asked for.  Failures, crashes and the   *)
(* order in which a store writes its files are the business of the         *)
(* specifications that implement this one.                                 *)
(***************************************************************************)
CONSTANTS
    Id,
    Undo     \* whether a loss of power may undo the last change of place

VARIABLES
    state,   \* state[id]: the state in the item's record, or "absent"
    place,   \* place[id]: the places that hold the item's content
    asked    \* items whose deletion an administrator asked for

vars == <<state, place, asked>>

Init ==
    /\ state = [id \in Id |-> "absent"]
    /\ place = [id \in Id |-> {"home"}]
    /\ asked = {}

Record(id, s) == state' = [state EXCEPT ![id] = s] /\ UNCHANGED <<place, asked>>

Begin(id) == state[id] = "absent" /\ Record(id, "pending")

\* The outcomes of an operation, and what each of them says of the content.
Keep(id)     == state[id] = "pending" /\ "store" \in place[id] /\ Record(id, "quarantined")
RollBack(id) == state[id] = "pending" /\ "home" \in place[id] /\ Record(id, "rolled_back")
GiveUp(id)   == state[id] = "pending" /\ Record(id, "failed")
Close(id)    == /\ state[id] = "quarantined" /\ "store" \notin place[id]
                /\ \/ "back" \in place[id] /\ Record(id, "restored")
                   \/ id \in asked /\ Record(id, "deleted")

Move(id, places) == place' = [place EXCEPT ![id] = places] /\ UNCHANGED <<state, asked>>

Deposit(id) == state[id] = "pending" /\ Move(id, place[id] \cup {"store"})
Take(id)    == /\ state[id] = "pending" /\ "store" \in place[id]
               /\ Move(id, place[id] \ {"home"})
Return(id)  == /\ state[id] = "quarantined" /\ "store" \in place[id]
               /\ Move(id, place[id] \cup {"back"})
Discard(id) == /\ \/ state[id] = "pending" /\ "home" \in place[id]
                  \/ state[id] = "quarantined" /\ ("back" \in place[id] \/ id \in asked)
               /\ Move(id, place[id] \ {"store"})

\* The last change of place had not reached the disk; the content is at home
\* or in the store all the same.
Revert(id) ==
    /\ Undo
    /\ \E x \in {"home", "store", "back"} :
          \E places \in {place[id] \cup {x}, place[id] \ {x}} :
             places \cap {"home", "store"} # {} /\ Move(id, places)

Ask(id) == /\ state[id] = "quarantined"
           /\ asked' = asked \cup {id}
           /\ UNCHANGED <<state, place>>

Next == \E id \in Id :
          \/ Begin(id) \/ Keep(id) \/ RollBack(id) \/ GiveUp(id) \/ Close(id)
          \/ Deposit(id) \/ Take(id) \/ Return(id) \/ Discard(id) \/ Ask(id) \/ Revert(id)

Spec == Init /\ [][Next]_vars
============================================================================
