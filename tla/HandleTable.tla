---------------------------- MODULE HandleTable ----------------------------
(***************************************************************************)
(* What HBI_open and HBI_close promise (hbi.h:299-336), without saying how *)
(* the driver keeps its tables: each open gives a handle nobody else has,  *)
(* the first open of a device opens it physically, and the device          *)
(* "physically doesn't close until user count reaches to 0".               *)
(***************************************************************************)
EXTENDS Naturals, FiniteSets

CONSTANTS Handles, Devices, MaxOpenDevices, MaxUsers

VARIABLES
  users,   \* the handles in use, each with the device it was opened for
  ports    \* the devices that are physically open

tableVars == <<users, ports>>

UsersOn(id) == {h \in DOMAIN users : users[h] = id}

Init ==
  /\ users = [h \in {} |-> 0]
  /\ ports = {}

OpenDevice(id) ==
  /\ id \notin ports
  /\ Cardinality(ports) < MaxOpenDevices
  /\ UsersOn(id) = {}
  /\ ports' = ports \cup {id}
  /\ UNCHANGED users

AddUser(h, id) ==
  /\ h \notin DOMAIN users
  /\ id \in ports
  /\ Cardinality(UsersOn(id)) < MaxUsers
  /\ users' = [g \in DOMAIN users \cup {h} |-> IF g = h THEN id ELSE users[g]]
  /\ UNCHANGED ports

\* Only on behalf of the last user.
CloseDevice(id) ==
  /\ id \in ports
  /\ Cardinality(UsersOn(id)) = 1
  /\ ports' = ports \ {id}
  /\ UNCHANGED users

\* The last user goes after its device was closed, the others while it is open.
RemoveUser(h) ==
  /\ h \in DOMAIN users
  /\ users[h] \in ports <=> UsersOn(users[h]) # {h}
  /\ users' = [g \in DOMAIN users \ {h} |-> users[g]]
  /\ UNCHANGED ports

Next ==
  \/ \E id \in Devices : OpenDevice(id) \/ CloseDevice(id)
  \/ \E h \in Handles : RemoveUser(h) \/ \E id \in Devices : AddUser(h, id)

Spec == Init /\ [][Next]_tableVars

=============================================================================
