----------------------------- MODULE FileLease ------------------------------
\* What the file cache promises of the files it opens: a file is used only
\* while it is open, and it is closed once, when nobody uses it any more.
CONSTANTS
  Files,
  Users

VARIABLES
  handle,   \* handle[f]: "none", "open" or "closed"
  users     \* users[f]: who uses f

LeaseInit ==
  /\ handle = [f \in Files |-> "none"]
  /\ users = [f \in Files |-> {}]

Open(f) ==
  /\ handle[f] = "none"
  /\ handle' = [handle EXCEPT ![f] = "open"]
  /\ UNCHANGED users

Use(f, u) ==
  /\ handle[f] = "open" /\ u \notin users[f]
  /\ users' = [users EXCEPT ![f] = @ \cup {u}]
  /\ UNCHANGED handle

Leave(f, u) ==
  /\ u \in users[f]
  /\ users' = [users EXCEPT ![f] = @ \ {u}]
  /\ UNCHANGED handle

Close(f) ==
  /\ handle[f] = "open" /\ users[f] = {}
  /\ handle' = [handle EXCEPT ![f] = "closed"]
  /\ UNCHANGED users

LeaseNext ==
  \E f \in Files :
    Open(f) \/ Close(f) \/ \E u \in Users : Use(f, u) \/ Leave(f, u)

LeaseSpec == LeaseInit /\ [][LeaseNext]_<<handle, users>>
=============================================================================
