---- MODULE NetConnect ----
(***************************************************************************)
(* NetConnect: descriptors and ports of the media connections.             *)
(*                                                                         *)
(* Descriptors are numbers that the process uses again as soon as they are *)
(* closed, for connections of other calls, HTTP connections, files.  A     *)
(* NetConnect object keeps such a number in sock_fd_, also after connect() *)
(* has failed and closed it.  The table of open descriptors is the         *)
(* kernel's; what the process does with a number falls on whatever the     *)
(* number means by then.                                                   *)
(*                                                                         *)
(* For each call: the SIP loop finds a free port while it answers INVITE,  *)
(* the streaming thread that ACK starts connects and sends, and whoever    *)
(* stops the call joins that thread and closes (who that is and when is    *)
(* PushStreams' subject).  What a send puts on the wire is not modelled.   *)
(*                                                                         *)
(* A port that was found free is only noted: until it is bound, anybody    *)
(* may take it, and the program's own searches try it too.                 *)
(***************************************************************************)
EXTENDS Naturals, FiniteSetsExt

CONSTANTS
    Clients,   \* RtpClients, each with a NetConnect, used for one call after another
    Fds,       \* descriptor numbers the process may have (a bound)
    MinPort,   \* MIN_PORT
    MaxPort,   \* MAX_PORT
    MaxOther,  \* descriptors that other parts of the program hold at once (a bound)
    Free,      \* the entry of a descriptor that is not open
    Other,     \* the entry of a descriptor opened by another part of the program
    Probe,     \* the entry of isPortAvailable's socket
    NoFd,      \* sock_fd_ = -1
    NoPort,    \* a socket that is not bound
    Idle       \* the SIP loop is not answering an INVITE

Ports == MinPort .. MaxPort

Protocols == {"TCP", "UDP"}

ASSUME NumbersNat == Fds \subseteq Nat /\ MinPort \in Nat /\ MaxPort \in Nat
ASSUME ClientsNamed == {Free, Other, Probe, Idle} \cap Clients = {}
ASSUME NamesDistinct ==
    /\ Free # Other /\ Free # Probe /\ Other # Probe
    /\ NoFd \notin Fds /\ NoPort \notin Ports

VARIABLES
    table,      \* who opened each descriptor
    bound,      \* the port that the socket of each descriptor is bound to
    others,     \* the numbers that other parts of the program hold
    taken,      \* ports that cannot be bound, by protocol, though no descriptor of the
                \* program has them: another program's, or a closed connection's that lingers
    loop,       \* the client for whose INVITE the SIP loop looks for a port
    sockfd,     \* the probe's descriptor
    chosenPort, \* the port that was drawn
    pc,         \* where each call is
    protocol,   \* rtp_protocol_
    port,       \* localRtpPort
    sock_fd_,
    recycled,   \* a close() after a failed connect() has closed a number again
                \* when it was open (history)
    outrun      \* the calls whose port was taken since it was found free (history)

kernelVars == <<table, bound>>
searchVars == <<loop, sockfd, chosenPort>>
callVars == <<protocol, port>>
history == <<recycled, outrun>>
vars == <<kernelVars, others, taken, searchVars, pc, callVars, sock_fd_, history>>

Init ==
    /\ table = [f \in Fds |-> Free]
    /\ bound = [f \in Fds |-> NoPort]
    /\ others = {}
    /\ taken = [proto \in Protocols |-> {}]
    /\ loop = Idle
    /\ sockfd = NoFd
    /\ chosenPort = NoPort
    /\ pc = [c \in Clients |-> "none"]
    /\ protocol = [c \in Clients |-> "UDP"]
    /\ port = [c \in Clients |-> NoPort]
    /\ sock_fd_ = [c \in Clients |-> NoFd]
    /\ recycled = FALSE
    /\ outrun = {}

----
(***************************************************************************)
(* The kernel.                                                             *)
(***************************************************************************)
IsOpen(f) == f \in Fds /\ table[f] # Free

FreeFds == {f \in Fds : table[f] = Free}

\* socket(), open(), accept() return the lowest number.
Lowest == Min(FreeFds)

Open(f, who) ==
    /\ table' = [table EXCEPT ![f] = who]
    /\ bound' = [bound EXCEPT ![f] = NoPort]

\* ::close(f); of a number that is not open it changes nothing.
Release(f) ==
    /\ table' = [g \in Fds |-> IF g = f THEN Free ELSE table[g]]
    /\ bound' = [g \in Fds |-> IF g = f THEN NoPort ELSE bound[g]]

SocketProtocol(f) == IF table[f] = Probe THEN "TCP" ELSE protocol[table[f]]

\* The program's sockets that have port p.
Having(proto, p) == {f \in Fds : bound[f] = p /\ SocketProtocol(f) = proto}

\* bind() to port p succeeds: nobody sets SO_REUSEADDR.
Bindable(proto, p) == p \notin taken[proto] /\ Having(proto, p) = {}

\* bind(f, p), on whatever the number f is by now.
CanBind(f, p) ==
    /\ IsOpen(f)
    /\ table[f] # Other
    /\ bound[f] = NoPort
    /\ Bindable(SocketProtocol(f), p)

\* The calls that were given port p and have not bound it.
NotYetBound(proto, p) ==
    {c \in Clients : pc[c] \in {"answered", "socket", "bind"} /\ protocol[c] = proto /\ port[c] = p}

\* Port p can no longer be bound.
Take(proto, p) ==
    /\ taken' = [taken EXCEPT ![proto] = @ \cup {p}]
    /\ outrun' = outrun \cup NotYetBound(proto, p)

\* Another program binds a port, or the kernel gives it to an outgoing connection.
PortTaken ==
    /\ \E proto \in Protocols, p \in Ports : Bindable(proto, p) /\ Take(proto, p)
    /\ UNCHANGED <<kernelVars, others, searchVars, pc, callVars, sock_fd_, recycled>>

\* It is closed, or TIME_WAIT is over.
PortFreed ==
    /\ \E proto \in Protocols : \E p \in taken[proto] : taken' = [taken EXCEPT ![proto] = @ \ {p}]
    /\ UNCHANGED <<kernelVars, others, searchVars, pc, callVars, sock_fd_, history>>

----
(***************************************************************************)
(* The port, on the SIP loop.                                              *)
(***************************************************************************)
Invite(c) ==
    /\ loop = Idle
    /\ pc[c] = "none"
    /\ loop' = c
    /\ \E proto \in Protocols : protocol' = [protocol EXCEPT ![c] = proto]
    /\ pc' = [pc EXCEPT ![c] = "invited"]
    /\ UNCHANGED <<kernelVars, others, taken, sockfd, chosenPort, port, sock_fd_, history>>

\* A port is drawn and a TCP socket opened.  Without a free descriptor the probe fails,
\* and the next one, for ever: the loop is then where it was.
ProbeOpens(c) ==
    /\ loop = c
    /\ pc[c] = "invited"
    /\ FreeFds # {}
    /\ chosenPort' \in Ports
    /\ Open(Lowest, Probe)
    /\ sockfd' = Lowest
    /\ pc' = [pc EXCEPT ![c] = "probing"]
    /\ UNCHANGED <<others, taken, loop, callVars, sock_fd_, history>>

ProbeBinds(c) ==
    /\ loop = c
    /\ pc[c] = "probing"
    /\ CanBind(sockfd, chosenPort)
    /\ bound' = [bound EXCEPT ![sockfd] = chosenPort]
    /\ pc' = [pc EXCEPT ![c] = "probed"]
    /\ UNCHANGED <<table, others, taken, searchVars, callVars, sock_fd_, history>>

\* A probe that forgets its socket when the bind fails.
ProbeFailsLeaking(c) ==
    /\ loop = c
    /\ pc[c] = "probing"
    /\ ~ CanBind(sockfd, chosenPort)
    /\ sockfd' = NoFd
    /\ chosenPort' = NoPort
    /\ pc' = [pc EXCEPT ![c] = "invited"]
    /\ UNCHANGED <<kernelVars, others, taken, loop, callVars, sock_fd_, history>>

\* Another port is drawn.
ProbeFails(c) ==
    /\ loop = c
    /\ pc[c] = "probing"
    /\ ~ CanBind(sockfd, chosenPort)
    /\ Release(sockfd)
    /\ sockfd' = NoFd
    /\ chosenPort' = NoPort
    /\ pc' = [pc EXCEPT ![c] = "invited"]
    /\ UNCHANGED <<others, taken, loop, callVars, sock_fd_, history>>

\* The search ends: isPortAvailable closes its socket, and the port is put into the
\* answer to INVITE.
Found(c, p) ==
    /\ loop = c
    /\ Release(sockfd)
    /\ port' = [port EXCEPT ![c] = p]
    /\ sockfd' = NoFd
    /\ chosenPort' = NoPort
    /\ loop' = Idle
    /\ pc' = [pc EXCEPT ![c] = "answered"]
    /\ outrun' = outrun \ {c}
    /\ UNCHANGED <<others, taken, protocol, sock_fd_, recycled>>

\* A port that is handed out whether or not the bind succeeded.
AllocUnprobed(c) == pc[c] \in {"probing", "probed"} /\ Found(c, chosenPort)

\* A draw that is off by one.
AllocPastMax(c) == pc[c] = "probed" /\ Found(c, chosenPort + 1)

allocSocketPort(c) == pc[c] = "probed" /\ Found(c, chosenPort)

Ack(c) ==
    /\ loop = Idle
    /\ pc[c] = "answered"
    /\ pc' = [pc EXCEPT ![c] = "socket"]
    /\ UNCHANGED <<kernelVars, others, taken, searchVars, callVars, sock_fd_, history>>

----
(***************************************************************************)
(* connect, on the streaming thread.                                       *)
(***************************************************************************)
Socket(c) ==
    /\ pc[c] = "socket"
    /\ \/ /\ FreeFds # {}
          /\ Open(Lowest, c)
          /\ sock_fd_' = [sock_fd_ EXCEPT ![c] = Lowest]
       \/ /\ FreeFds = {}
          /\ sock_fd_' = [sock_fd_ EXCEPT ![c] = NoFd]
          /\ UNCHANGED kernelVars
    /\ pc' = [pc EXCEPT ![c] = "bind"]
    /\ UNCHANGED <<others, taken, searchVars, callVars, history>>

\* ::close(sock_fd_); return: the number stays in sock_fd_.
GiveUp(c) ==
    /\ Release(sock_fd_[c])
    /\ pc' = [pc EXCEPT ![c] = "failed"]

Bind(c) ==
    /\ pc[c] = "bind"
    /\ \/ /\ CanBind(sock_fd_[c], port[c])
          /\ bound' = [bound EXCEPT ![sock_fd_[c]] = port[c]]
          /\ pc' = [pc EXCEPT ![c] = IF protocol[c] = "TCP" THEN "connect" ELSE "stream"]
          /\ UNCHANGED table
       \/ /\ ~ CanBind(sock_fd_[c], port[c])
          /\ GiveUp(c)
    /\ UNCHANGED <<others, taken, searchVars, callVars, sock_fd_, history>>

\* ::connect() by TCP: the server may refuse, or the number is not a socket by now.
Connect(c) ==
    /\ pc[c] = "connect"
    /\ \/ /\ IsOpen(sock_fd_[c])
          /\ table[sock_fd_[c]] # Other
          /\ pc' = [pc EXCEPT ![c] = "stream"]
          /\ UNCHANGED kernelVars
       \/ GiveUp(c)
    /\ UNCHANGED <<others, taken, searchVars, callVars, sock_fd_, history>>

\* The clip is over, a send failed, or the call is stopped.
StreamEnds(c) ==
    /\ pc[c] = "stream"
    /\ pc' = [pc EXCEPT ![c] = "ended"]
    /\ UNCHANGED <<kernelVars, others, taken, searchVars, callVars, sock_fd_, history>>

----
(***************************************************************************)
(* close, after the streaming thread was joined.                           *)
(***************************************************************************)
\* A TCP connection that this side closes first keeps its port for a while (TIME_WAIT).
Lingers(f) ==
    /\ IsOpen(f)
    /\ bound[f] # NoPort
    /\ SocketProtocol(f) = "TCP"
    /\ Take("TCP", bound[f])

CloseWhen(c, places) ==
    /\ pc[c] \in places
    /\ Release(sock_fd_[c])
    /\ Lingers(sock_fd_[c]) \/ UNCHANGED <<taken, outrun>>
    /\ sock_fd_' = [sock_fd_ EXCEPT ![c] = NoFd]
    /\ pc' = [pc EXCEPT ![c] = "none"]
    /\ port' = [port EXCEPT ![c] = NoPort]
    /\ recycled' = (recycled \/ (pc[c] = "failed" /\ IsOpen(sock_fd_[c])))
    /\ UNCHANGED <<others, searchVars, protocol>>

\* A close() that closes before the thread is joined.
CloseAndJoin(c) ==
    \/ CloseWhen(c, {"failed", "ended"})
    \/ /\ pc[c] = "stream"
       /\ Release(sock_fd_[c])
       /\ UNCHANGED <<others, taken, searchVars, pc, callVars, sock_fd_, history>>

\* if (sock_fd_ >= 0) { ::close(sock_fd_); sock_fd_ = -1; }
Close(c) == CloseWhen(c, {"failed", "ended"})

----
(***************************************************************************)
(* The rest of the program: HTTP connections, files, eXosip's sockets.     *)
(***************************************************************************)
OtherOpens ==
    /\ Cardinality(others) < MaxOther
    /\ FreeFds # {}
    /\ Open(Lowest, Other)
    /\ others' = others \cup {Lowest}
    /\ UNCHANGED <<taken, searchVars, pc, callVars, sock_fd_, history>>

OtherCloses ==
    /\ \E f \in others : Release(f) /\ others' = others \ {f}
    /\ UNCHANGED <<taken, searchVars, pc, callVars, sock_fd_, history>>

Search(c) == ProbeOpens(c) \/ ProbeBinds(c) \/ ProbeFails(c) \/ allocSocketPort(c)

Thread(c) == Socket(c) \/ Bind(c) \/ Connect(c)

Next ==
    \/ \E c \in Clients :
        \/ Invite(c) \/ Search(c) \/ Ack(c)
        \/ Thread(c) \/ StreamEnds(c) \/ Close(c)
    \/ OtherOpens \/ OtherCloses
    \/ PortTaken \/ PortFreed

Spec == Init /\ [][Next]_vars

----
(***************************************************************************)
(* Properties.                                                             *)
(***************************************************************************)
TypeOK ==
    /\ table \in [Fds -> Clients \cup {Free, Other, Probe}]
    /\ bound \in [Fds -> Ports \cup {NoPort}]
    /\ others \subseteq Fds
    /\ taken \in [Protocols -> SUBSET Ports]
    /\ loop \in Clients \cup {Idle}
    /\ sockfd \in Fds \cup {NoFd}
    /\ chosenPort \in Ports \cup {NoPort}
    /\ pc \in [Clients -> {"none", "invited", "probing", "probed", "answered", "socket",
                           "bind", "connect", "stream", "failed", "ended"}]
    /\ protocol \in [Clients -> Protocols]
    /\ port \in [Clients -> Ports \cup {NoPort}]
    /\ sock_fd_ \in [Clients -> Fds \cup {NoFd}]
    /\ recycled \in BOOLEAN
    /\ outrun \subseteq Clients

\* No descriptor leaks, on any path through failing probes, binds and connects:
\* whatever is open is held by somebody who will still close it.
NoLeak ==
    \A f \in Fds : IsOpen(f) =>
        \/ f \in others
        \/ f = sockfd
        \/ \E c \in Clients : sock_fd_[c] = f

\* Whoever holds a number holds what it has opened: no thread sends on, closes
\* or reads another's connection or file.  The exception is what the code makes
\* possible when close() follows a failed connect() (see Close).
HoldersOwn ==
    ~ recycled =>
        /\ \A c \in Clients : pc[c] \in {"bind", "connect", "stream", "ended"} =>
               sock_fd_[c] = NoFd \/ table[sock_fd_[c]] = c
        /\ sockfd # NoFd => table[sockfd] = Probe
        /\ \A f \in others : table[f] = Other

\* The search for a port is worth its while: a TCP call's bind() fails only for want of
\* a descriptor, because the port was taken after it had been found free, or because a
\* TCP socket of the program has it, of another call or of a probe for another call.
\* A UDP call has no such promise: the probe is TCP.
BindFailsOnlyIfOutrun ==
    [][\A c \in Clients :
        (pc[c] = "bind" /\ pc'[c] = "failed" /\ protocol[c] = "TCP" /\ ~ recycled) =>
            \/ sock_fd_[c] = NoFd
            \/ c \in outrun
            \/ \E f \in Having("TCP", port[c]) : table[f] # c]_vars
====
