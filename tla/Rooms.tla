------------------------------- MODULE Rooms -------------------------------
(***************************************************************************)
(* What the server promises about its rooms (class Channel: "Like rooms    *)
(* that can have Users and 1 or more Operators"), without descriptors      *)
(* that are reused, lists that mirror sets, or modes: people who are       *)
(* online are in rooms, a room with anybody in it has an operator among    *)
(* them, and whoever goes offline is in no room any more.                  *)
(***************************************************************************)
CONSTANTS Person, Room

VARIABLES
  online,    \* the people connected
  members,   \* the people in each room
  ops        \* the operators among them

vars == <<online, members, ops>>

Init ==
  /\ online = {}
  /\ members = [r \in Room |-> {}]
  /\ ops = [r \in Room |-> {}]

Connect(p) ==
  /\ p \notin online
  /\ online' = online \cup {p}
  /\ UNCHANGED <<members, ops>>

(* Whoever opens a room operates it; nobody else enters as an operator. *)
Enter(p, r) ==
  /\ p \in online \ members[r]
  /\ members' = [members EXCEPT ![r] = @ \cup {p}]
  /\ ops' = [ops EXCEPT ![r] = IF members[r] = {} THEN {p} ELSE @]
  /\ UNCHANGED online

(* Who may operate the room once p is gone: those who did, and if nobody   *)
(* is left of them exactly one of the people who remain, if there are any. *)
Heirs(p, r) ==
  IF ops[r] \ {p} # {} \/ members[r] \ {p} = {}
  THEN {ops[r] \ {p}}
  ELSE { {q} : q \in members[r] \ {p} }

(* p leaves a room of its own accord. *)
Leave(p, r) ==
  /\ p \in members[r]
  /\ members' = [members EXCEPT ![r] = @ \ {p}]
  /\ \E heirs \in Heirs(p, r) : ops' = [ops EXCEPT ![r] = heirs]
  /\ UNCHANGED online

(* An operator of the room is present. *)
Staffed(r) == ops[r] \cap online # {}

(* An operator who is present removes a member who is none. *)
Evict(p, r) ==
  /\ p \in members[r] \ ops[r]
  /\ Staffed(r)
  /\ members' = [members EXCEPT ![r] = @ \ {p}]
  /\ UNCHANGED <<online, ops>>

(* An operator who is present shares the office. *)
Promote(p, r) ==
  /\ p \in members[r] \ ops[r]
  /\ Staffed(r)
  /\ ops' = [ops EXCEPT ![r] = @ \cup {p}]
  /\ UNCHANGED <<online, members>>

(* p goes offline and leaves every room at once. *)
Disconnect(p) ==
  /\ p \in online
  /\ online' = online \ {p}
  /\ members' = [r \in Room |-> members[r] \ {p}]
  /\ ops' \in [Room -> SUBSET Person]
  /\ \A r \in Room : ops'[r] \in IF p \in members[r] THEN Heirs(p, r) ELSE {ops[r]}

Next ==
  \/ \E p \in Person : Connect(p) \/ Disconnect(p)
  \/ \E p \in Person, r \in Room : Enter(p, r) \/ Leave(p, r) \/ Evict(p, r) \/ Promote(p, r)

Spec == Init /\ [][Next]_vars
=============================================================================
