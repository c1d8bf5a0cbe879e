--------------------------- MODULE DataConnection ---------------------------
(***************************************************************************)
(* struct s_data_connection (dtp.h, dtp.c): the socket a session uses to   *)
(* carry listings and files.  One session owns one such structure from its *)
(* first request to its last.                                              *)
(*                                                                         *)
(* dc_socket is abstracted to what the code can find behind it:            *)
(*   "closed"       the field holds -1;                                    *)
(*   "unconnected"  a descriptor whose bind() or connect() failed;         *)
(*   "connected"    a descriptor connected to the client.                  *)
(* is_data_connection_opened tells only the first from the other two.      *)
(***************************************************************************)
EXTENDS Integers

CONSTANT ClientPort     \* source port of the control connection

PortSpace == 65536      \* sin_port is 16 bits wide
Ports == 0 .. PortSpace - 1

ASSUME ClientPortAssumption == ClientPort \in Ports

VARIABLES dcSocket,     \* dc_socket, as above
          dcPort,       \* dc_addr.sin_port, in host order
          dcType,       \* dc_transfer_t
          dcPeer        \* the port the kernel connected dc_socket to

dcVars == <<dcSocket, dcPort, dcType, dcPeer>>

NoPeer == -1            \* dc_socket is not connected and was not before closing

DataConnectionTypeOK ==
    /\ dcSocket \in {"closed", "unconnected", "connected"}
    /\ dcPort \in Ports
    /\ dcType \in {"ascii", "binary"}
    /\ dcPeer \in Ports \cup {NoPeer}

\* new_data_connection: until a PORT the address is that of the control
\* connection.  dc_transfer_m stays DT_ACTIVE, no code selects DT_PASSIVE.
DataConnectionInit ==
    /\ dcSocket = "closed"
    /\ dcPort = ClientPort
    /\ dcType = "ascii"
    /\ dcPeer = NoPeer

IsOpened(socket) == socket # "closed"

\* What open_data_connection leaves in dc_socket when it returns -1: socket()
\* itself failed, or bind() or connect() failed on a socket that is not closed.
FailedOpens == {"closed", "unconnected"}

\* Mutant of PortNumber: the port is computed in an int.
PortNumberUnbounded(x, y) == x * 256 + y

\* The two arguments of PORT that give the port are unsigned shorts, and so is
\* their combination.
PortNumber(x, y) == (x * 256 + y) % PortSpace

SetPort(port) == dcPort' = port /\ UNCHANGED <<dcSocket, dcType, dcPeer>>

SetType(type) == dcType' = type /\ UNCHANGED <<dcSocket, dcPort, dcPeer>>

OpenFails ==
    /\ ~IsOpened(dcSocket)
    /\ dcSocket' \in FailedOpens
    /\ dcPeer' = NoPeer
    /\ UNCHANGED <<dcPort, dcType>>

\* Mutant of PeerInUse: connect() uses the address saved at the first request.
PeerAtFirst == IF IsOpened(dcSocket) THEN dcPeer ELSE ClientPort

\* The socket a transfer runs on once process_list, process_retr or process_stor
\* has made sure that one is open, and the peer behind it.
SocketInUse == IF IsOpened(dcSocket) THEN dcSocket ELSE "connected"
PeerInUse == IF IsOpened(dcSocket) THEN dcPeer ELSE dcPort

\* A transfer that leaves the socket open behind it, and one that closes it.
UseAndKeep ==
    /\ dcSocket' = SocketInUse
    /\ dcPeer' = PeerInUse
    /\ UNCHANGED <<dcPort, dcType>>

\* Mutant of UseAndClose: dc_socket is not set back to -1.
UseAndForgetToClose == UseAndKeep

UseAndClose ==
    /\ dcSocket' = "closed"
    /\ dcPeer' = PeerInUse
    /\ UNCHANGED <<dcPort, dcType>>

\* close_data_connection
Close ==
    /\ dcSocket' = "closed"
    /\ UNCHANGED <<dcPort, dcType, dcPeer>>
=============================================================================
