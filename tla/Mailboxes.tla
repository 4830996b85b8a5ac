----------------------------- MODULE Mailboxes -----------------------------
(***************************************************************************)
(* What the clients of socket/LAN8720/socket.c are promised: each socket   *)
(* has a mailbox that holds one datagram for the port it is bound to.  A   *)
(* newer datagram takes the place of an older one.  A call of recvfrom     *)
(* takes a datagram out once, hands over what it took, and returns.        *)
(*                                                                         *)
(* Not promised: that a datagram reaches the mailbox at all, that one      *)
(* stays in it that comes in while its socket is being read, and that the  *)
(* mailbox is empty when a closed socket is opened again.                  *)
(*                                                                         *)
(* SocketPool implements it with an interrupt and a main loop that share a *)
(* pointer, a flag and a pool of buffers; see there.                       *)
(***************************************************************************)
CONSTANTS Sock,       \* the sockets
          Ports,
          Datagram,   \* records with a port in their field to
          Null        \* no port, no datagram

VARIABLES port,    \* the port a socket is bound to
          mail,    \* the datagram in its mailbox
          taken,   \* the datagram that the call under way has taken out
          got      \* the datagram that this call has handed to its caller

vars == <<port, mail, taken, got>>

None == [s \in Sock |-> Null]

Init == port = None /\ mail = None /\ taken = None /\ got = None

(* No two sockets have the same port, and none changes the port it has. *)
Bind(s, p) ==
  /\ port[s] = Null
  /\ \A t \in Sock : port[t] # p
  /\ port' = [port EXCEPT ![s] = p]
  /\ UNCHANGED <<mail, taken, got>>

Close(s) ==
  /\ port' = [port EXCEPT ![s] = Null]
  /\ UNCHANGED <<mail, taken, got>>

Arrive(s, d) ==
  /\ port[s] = d.to
  /\ mail' = [mail EXCEPT ![s] = d]
  /\ UNCHANGED <<port, taken, got>>

Take(s) ==
  /\ mail[s] # Null /\ taken[s] = Null
  /\ taken' = [taken EXCEPT ![s] = mail[s]]
  /\ mail' = [mail EXCEPT ![s] = Null]
  /\ UNCHANGED <<port, got>>

(* What came in while the socket was being read is lost. *)
Lose(s) ==
  /\ taken[s] # Null
  /\ mail' = [mail EXCEPT ![s] = Null]
  /\ UNCHANGED <<port, taken, got>>

HandOver(s) ==
  /\ taken[s] # Null /\ got[s] = Null
  /\ got' = [got EXCEPT ![s] = taken[s]]
  /\ UNCHANGED <<port, mail, taken>>

(* A call that has taken a datagram does not return without it. *)
Return(s) ==
  /\ got[s] # Null
  /\ got' = [got EXCEPT ![s] = Null]
  /\ taken' = [taken EXCEPT ![s] = Null]
  /\ UNCHANGED <<port, mail>>

Next ==
  \E s \in Sock :
    \/ \E p \in Ports : Bind(s, p)
    \/ Close(s)
    \/ \E d \in Datagram : Arrive(s, d)
    \/ Take(s)
    \/ Lose(s)
    \/ HandOver(s)
    \/ Return(s)

Spec == Init /\ [][Next]_vars
=============================================================================
