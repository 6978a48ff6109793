------------------------------ MODULE JailGate ------------------------------
(***************************************************************************)
(* What chrootshell promises its administrator, without saying how: a      *)
(* login is granted one pair (jail, uid) taken from the host's passwd file *)
(* and from then on it is either refused or it runs a shell with exactly   *)
(* that root directory and exactly that user id.  ChrootShell implements   *)
(* this specification.                                                     *)
(***************************************************************************)
CONSTANTS
  Session,   \* the login attempts
  Host,      \* the root directory of the host
  Root,      \* the user id of the superuser
  None,      \* nothing granted yet
  Identity   \* the pairs [jail, uid] a host passwd line can name

VARIABLES
  offer,     \* offer[s]: the identities the host's passwd file allows to s now
  phase,     \* phase[s]: how far the login has come
  grant,     \* grant[s]: the identity s has been promised, or None
  view       \* view[s]: the identity s really runs with

vars == <<offer, phase, grant, view>>

Phase == {"host", "granted", "confined", "shell", "refused"}
Outside == [jail |-> Host, uid |-> Root]

TypeOK ==
  /\ offer \in [Session -> SUBSET Identity]
  /\ phase \in [Session -> Phase]
  /\ grant \in [Session -> Identity \cup {None}]
  /\ view \in [Session -> Identity \cup {Outside}]

Init ==
  /\ offer \in [Session -> SUBSET Identity]
  /\ phase = [s \in Session |-> "host"]
  /\ grant = [s \in Session |-> None]
  /\ view = [s \in Session |-> Outside]

\* The administrator edits the host's passwd file.
Edit ==
  /\ offer' \in [Session -> SUBSET Identity]
  /\ UNCHANGED <<phase, grant, view>>

\* The login is promised one of the identities offered at this moment.
Grant(s) ==
  /\ phase[s] = "host"
  /\ \E id \in offer[s] : grant' = [grant EXCEPT ![s] = id]
  /\ phase' = [phase EXCEPT ![s] = "granted"]
  /\ UNCHANGED <<offer, view>>

\* It takes on that identity, all of it at once.
Confine(s) ==
  /\ phase[s] = "granted"
  /\ view' = [view EXCEPT ![s] = grant[s]]
  /\ phase' = [phase EXCEPT ![s] = "confined"]
  /\ UNCHANGED <<offer, grant>>

\* Only a confined login ever runs a shell.
Start(s) ==
  /\ phase[s] = "confined"
  /\ phase' = [phase EXCEPT ![s] = "shell"]
  /\ UNCHANGED <<offer, grant, view>>

\* A login that has no shell yet may be refused at any moment: the process
\* ends, and with it whatever it was promised.
Refuse(s) ==
  /\ phase[s] \notin {"shell", "refused"}
  /\ phase' = [phase EXCEPT ![s] = "refused"]
  /\ grant' = [grant EXCEPT ![s] = None]
  /\ view' = [view EXCEPT ![s] = Outside]
  /\ UNCHANGED offer

Next ==
  \/ Edit
  \/ \E s \in Session : Grant(s) \/ Confine(s) \/ Start(s) \/ Refuse(s)

Spec == Init /\ [][Next]_vars
=============================================================================
