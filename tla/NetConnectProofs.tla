---- MODULE NetConnectProofs ----
(***************************************************************************)
(* Proofs about NetConnect for every set of calls, descriptors and ports.  *)
(***************************************************************************)
EXTENDS NetConnect, TLAPS, WellFoundedInduction

----
(***************************************************************************)
(* The inductive invariant.                                                *)
(***************************************************************************)
\* The loop looks for a port for one call.
LoopSearches == \A c \in Clients : pc[c] \in {"invited", "probing", "probed"} <=> loop = c

\* It has a socket and a port while it probes.
LoopProbes ==
    /\ sockfd # NoFd => loop \in Clients /\ pc[loop] \in {"probing", "probed"}
    /\ \A c \in Clients : pc[c] \in {"probing", "probed"} => sockfd # NoFd /\ chosenPort \in Ports

\* A call that has not come to its socket has no number left from an earlier one.
NoNumberYet ==
    \A c \in Clients :
        pc[c] \in {"none", "invited", "probing", "probed", "answered", "socket"} => sock_fd_[c] = NoFd

\* A call that is to be bound was given a port, and if that is taken, it was so since.
PortFound ==
    \A c \in Clients : pc[c] \in {"answered", "socket", "bind"} =>
        /\ port[c] \in Ports
        /\ ~ recycled /\ protocol[c] = "TCP" /\ port[c] \in taken["TCP"] => c \in outrun

\* Whatever is bound is the probe's socket, or the socket of a call past its bind().
BoundByHolder ==
    ~ recycled =>
        \A f \in Fds : bound[f] # NoPort =>
            \/ /\ f = sockfd
               /\ table[f] = Probe
               /\ \A c \in Clients : loop = c => pc[c] = "probed"
            \/ \E c \in Clients :
                /\ table[f] = c
                /\ sock_fd_[c] = f
                /\ pc[c] \in {"connect", "stream", "ended"}

\* The port that was found free is bound by the probe.
ProbeBound ==
    ~ recycled =>
        \A c \in Clients : pc[c] = "probed" => table[sockfd] = Probe /\ bound[sockfd] = chosenPort

\* A TCP port has one socket, and none if it is taken.
OneSocket ==
    ~ recycled =>
        \A f \in Fds : bound[f] # NoPort /\ SocketProtocol(f) = "TCP" =>
            /\ bound[f] \notin taken["TCP"]
            /\ \A g \in Fds : bound[g] = bound[f] /\ SocketProtocol(g) = "TCP" => g = f

IInv ==
    /\ TypeOK /\ NoLeak /\ HoldersOwn
    /\ LoopSearches /\ LoopProbes /\ NoNumberYet /\ PortFound
    /\ BoundByHolder /\ ProbeBound /\ OneSocket

----
\* The kernel finds a lowest number if one is free.
LEMMA LowestFree ==
    ASSUME FreeFds # {}
    PROVE  Lowest \in FreeFds
<1> DEFINE R == OpToRel(<, Nat)
<1>1. FreeFds \subseteq Nat
  BY NumbersNat DEF FreeFds
<1>2. \A x, y \in Nat : ~ (<<y, x>> \in R) => x <= y
  BY DEF OpToRel
<1>3. IsWellFoundedOn(R, Nat)
  BY NatLessThanWellFounded
<1> HIDE DEF R
<1>4. \E x \in FreeFds : \A y \in FreeFds : ~ (<<y, x>> \in R)
  BY <1>1, <1>3, WFMin
<1>5. \E x \in FreeFds : \A y \in FreeFds : x <= y
  BY <1>1, <1>2, <1>4
<1>. QED BY <1>5 DEF Lowest, Min

LEMMA InitInv == Init => IInv
<1> SUFFICES ASSUME Init PROVE IInv
  OBVIOUS
<1> USE NamesDistinct, ClientsNamed DEF Init
<1>1. TypeOK
  BY DEF TypeOK, Protocols
<1>2. NoLeak /\ BoundByHolder /\ OneSocket
  BY DEF NoLeak, BoundByHolder, OneSocket, IsOpen
<1>3. HoldersOwn /\ LoopSearches /\ LoopProbes /\ NoNumberYet /\ PortFound /\ ProbeBound
  BY DEF HoldersOwn, LoopSearches, LoopProbes, NoNumberYet, PortFound, ProbeBound
<1>. QED BY <1>1, <1>2, <1>3 DEF IInv

\* A step is one of these, so every preservation proof has this case split.
LEMMA NextCases ==
    ASSUME [Next]_vars, NEW ACTION P,
           \A c \in Clients : Invite(c) \/ Ack(c) \/ StreamEnds(c) => P,
           \A c \in Clients : ProbeOpens(c) => P,
           \A c \in Clients : ProbeBinds(c) \/ ProbeFails(c) \/ allocSocketPort(c) => P,
           \A c \in Clients : Socket(c) => P,
           \A c \in Clients : Bind(c) \/ Connect(c) => P,
           \A c \in Clients : Close(c) => P,
           OtherOpens \/ OtherCloses => P,
           PortTaken \/ PortFreed \/ UNCHANGED vars => P
    PROVE  P
  BY DEF Next, Search, Thread

\* A port that is taken is refused to later binds, and noted for the calls that were given it.
LEMMA TakeFacts ==
    ASSUME IInv, NEW proto \in Protocols, NEW p \in Ports, Take(proto, p)
    PROVE  /\ taken' \in [Protocols -> SUBSET Ports]
           /\ outrun \subseteq outrun' /\ outrun' \subseteq Clients
           /\ \A q \in taken'["TCP"] : q \in taken["TCP"] \/ (proto = "TCP" /\ q = p)
           /\ \A c \in Clients :
                pc[c] \in {"answered", "socket", "bind"} /\ protocol[c] = proto /\ port[c] = p
                    => c \in outrun'
  BY DEF Take, NotYetBound, IInv, TypeOK, Protocols

\* What a close() does: to the number's socket, and perhaps to its port.
LEMMA CloseFacts ==
    ASSUME IInv, NEW c \in Clients, Close(c)
    PROVE  /\ pc[c] \in {"failed", "ended"}
           /\ Release(sock_fd_[c])
           /\ sock_fd_' = [sock_fd_ EXCEPT ![c] = NoFd]
           /\ pc' = [pc EXCEPT ![c] = "none"]
           /\ port' = [port EXCEPT ![c] = NoPort]
           /\ recycled' \in BOOLEAN
           /\ recycled => recycled'
           /\ pc[c] = "failed" /\ IsOpen(sock_fd_[c]) => recycled'
           /\ UNCHANGED <<others, searchVars, protocol>>
           /\ taken' \in [Protocols -> SUBSET Ports]
           /\ outrun \subseteq outrun' /\ outrun' \subseteq Clients
           /\ \/ UNCHANGED <<taken, outrun>>
              \/ /\ sock_fd_[c] \in Fds
                 /\ bound[sock_fd_[c]] # NoPort
                 /\ SocketProtocol(sock_fd_[c]) = "TCP"
                 /\ Take("TCP", bound[sock_fd_[c]])
<1>1. recycled' \in BOOLEAN /\ (recycled => recycled') /\ (pc[c] = "failed" /\ IsOpen(sock_fd_[c]) => recycled')
  BY Zenon DEF Close, CloseWhen
<1>2. /\ pc[c] \in {"failed", "ended"}
      /\ Release(sock_fd_[c])
      /\ sock_fd_' = [sock_fd_ EXCEPT ![c] = NoFd]
      /\ pc' = [pc EXCEPT ![c] = "none"]
      /\ port' = [port EXCEPT ![c] = NoPort]
      /\ UNCHANGED <<others, searchVars, protocol>>
      /\ Lingers(sock_fd_[c]) \/ UNCHANGED <<taken, outrun>>
  BY DEF Close, CloseWhen
<1>3. CASE UNCHANGED <<taken, outrun>>
  BY <1>1, <1>2, <1>3 DEF IInv, TypeOK
<1>4. CASE Lingers(sock_fd_[c])
  <2>1. /\ sock_fd_[c] \in Fds
        /\ bound[sock_fd_[c]] # NoPort
        /\ SocketProtocol(sock_fd_[c]) = "TCP"
        /\ Take("TCP", bound[sock_fd_[c]])
        /\ bound[sock_fd_[c]] \in Ports
    BY <1>4 DEF Lingers, IsOpen, IInv, TypeOK
  <2>2. taken' \in [Protocols -> SUBSET Ports] /\ outrun \subseteq outrun' /\ outrun' \subseteq Clients
    BY <2>1, TakeFacts DEF Protocols
  <2>. QED BY <1>1, <1>2, <2>1, <2>2
<1>. QED BY <1>2, <1>3, <1>4

LEMMA TypeStep == IInv /\ [Next]_vars => TypeOK'
<1> SUFFICES ASSUME IInv, [Next]_vars PROVE TypeOK'
  OBVIOUS
<1> USE NamesDistinct, ClientsNamed DEF IInv, TypeOK, kernelVars, searchVars, callVars, history, Protocols, LoopProbes
<1>1. ASSUME NEW c \in Clients, Invite(c) \/ Ack(c) \/ StreamEnds(c) PROVE TypeOK'
  BY <1>1 DEF Invite, Ack, StreamEnds
<1>2. ASSUME NEW c \in Clients, ProbeOpens(c) PROVE TypeOK'
  BY <1>2, LowestFree DEF ProbeOpens, Open, FreeFds
<1>3. ASSUME NEW c \in Clients, ProbeBinds(c) \/ ProbeFails(c) \/ allocSocketPort(c) PROVE TypeOK'
  BY <1>3 DEF ProbeBinds, ProbeFails, allocSocketPort, Found, Release, CanBind
<1>4. ASSUME NEW c \in Clients, Socket(c) PROVE TypeOK'
  BY <1>4, LowestFree DEF Socket, Open, FreeFds
<1>5. ASSUME NEW c \in Clients, Bind(c) \/ Connect(c) PROVE TypeOK'
  BY <1>5 DEF Bind, CanBind, Connect, GiveUp, Release
<1>6. ASSUME NEW c \in Clients, Close(c) PROVE TypeOK'
  BY <1>6, CloseFacts DEF Release
<1>7. CASE OtherOpens \/ OtherCloses
  BY <1>7, LowestFree DEF OtherOpens, OtherCloses, Open, Release, FreeFds
<1>8. CASE PortTaken \/ PortFreed \/ UNCHANGED vars
  <2>1. CASE PortTaken
    BY <2>1, TakeFacts DEF PortTaken
  <2>. QED BY <1>8, <2>1 DEF PortFreed, vars
<1>. QED BY <1>1, <1>2, <1>3, <1>4, <1>5, <1>6, <1>7, <1>8, NextCases

\* The parts about the search for a port and one call's own progress.
LEMMA ProgressStep == IInv /\ [Next]_vars => LoopSearches' /\ LoopProbes' /\ NoNumberYet'
<1> DEFINE P == LoopSearches' /\ LoopProbes' /\ NoNumberYet'
<1> SUFFICES ASSUME IInv, [Next]_vars PROVE P
  OBVIOUS
<1> USE NamesDistinct, ClientsNamed DEF IInv, TypeOK, kernelVars, searchVars, callVars, history, LoopSearches, LoopProbes, NoNumberYet
<1>1. ASSUME NEW c \in Clients, Invite(c) \/ Ack(c) \/ StreamEnds(c) PROVE P
  BY <1>1 DEF Invite, Ack, StreamEnds
<1>2. ASSUME NEW c \in Clients, ProbeOpens(c) PROVE P
  BY <1>2, LowestFree DEF ProbeOpens, Open, FreeFds
<1>3. ASSUME NEW c \in Clients, ProbeBinds(c) \/ ProbeFails(c) \/ allocSocketPort(c) PROVE P
  BY <1>3 DEF ProbeBinds, ProbeFails, allocSocketPort, Found, Release, CanBind
<1>4. ASSUME NEW c \in Clients, Socket(c) PROVE P
  BY <1>4, LowestFree DEF Socket, Open, FreeFds
<1>5. ASSUME NEW c \in Clients, Bind(c) \/ Connect(c) PROVE P
  BY <1>5 DEF Bind, CanBind, Connect, GiveUp, Release
<1>6. ASSUME NEW c \in Clients, Close(c) PROVE P
  BY <1>6, CloseFacts DEF Release
<1>7. CASE OtherOpens \/ OtherCloses
  BY <1>7, LowestFree DEF OtherOpens, OtherCloses, Open, Release, FreeFds
<1>8. CASE PortTaken \/ PortFreed \/ UNCHANGED vars
  BY <1>8 DEF PortTaken, PortFreed, Take, vars
<1>. QED BY <1>1, <1>2, <1>3, <1>4, <1>5, <1>6, <1>7, <1>8, NextCases

LEMMA NoLeakStep == IInv /\ [Next]_vars => NoLeak'
<1> SUFFICES ASSUME IInv, [Next]_vars PROVE NoLeak'
  OBVIOUS
<1> USE NamesDistinct, ClientsNamed DEF IInv, TypeOK, kernelVars, searchVars, callVars, history, NoLeak, NoNumberYet, LoopProbes, LoopSearches, IsOpen
<1>1. ASSUME NEW c \in Clients, Invite(c) \/ Ack(c) \/ StreamEnds(c) PROVE NoLeak'
  BY <1>1 DEF Invite, Ack, StreamEnds
<1>2. ASSUME NEW c \in Clients, ProbeOpens(c) PROVE NoLeak'
  BY <1>2, LowestFree DEF ProbeOpens, Open, FreeFds
<1>3. ASSUME NEW c \in Clients, ProbeBinds(c) \/ ProbeFails(c) \/ allocSocketPort(c) PROVE NoLeak'
  BY <1>3 DEF ProbeBinds, ProbeFails, allocSocketPort, Found, Release, CanBind
<1>4. ASSUME NEW c \in Clients, Socket(c) PROVE NoLeak'
  BY <1>4, LowestFree DEF Socket, Open, FreeFds
<1>5. ASSUME NEW c \in Clients, Bind(c) \/ Connect(c) PROVE NoLeak'
  BY <1>5 DEF Bind, CanBind, Connect, GiveUp, Release
<1>6. ASSUME NEW c \in Clients, Close(c) PROVE NoLeak'
  BY <1>6, CloseFacts DEF Release
<1>7. CASE OtherOpens \/ OtherCloses
  BY <1>7, LowestFree DEF OtherOpens, OtherCloses, Open, Release, FreeFds
<1>8. CASE PortTaken \/ PortFreed \/ UNCHANGED vars
  BY <1>8 DEF PortTaken, PortFreed, Take, vars
<1>. QED BY <1>1, <1>2, <1>3, <1>4, <1>5, <1>6, <1>7, <1>8, NextCases

LEMMA HoldersStep == IInv /\ [Next]_vars => HoldersOwn'
<1> SUFFICES ASSUME IInv, [Next]_vars PROVE HoldersOwn'
  OBVIOUS
<1> USE NamesDistinct, ClientsNamed DEF IInv, TypeOK, kernelVars, searchVars, callVars, history, HoldersOwn, LoopProbes, LoopSearches, IsOpen
<1>1. ASSUME NEW c \in Clients, Invite(c) \/ Ack(c) \/ StreamEnds(c) PROVE HoldersOwn'
  BY <1>1 DEF Invite, Ack, StreamEnds
<1>2. ASSUME NEW c \in Clients, ProbeOpens(c) PROVE HoldersOwn'
  BY <1>2, LowestFree DEF ProbeOpens, Open, FreeFds
<1>3. ASSUME NEW c \in Clients, ProbeBinds(c) \/ ProbeFails(c) \/ allocSocketPort(c) PROVE HoldersOwn'
  BY <1>3 DEF ProbeBinds, ProbeFails, allocSocketPort, Found, Release, CanBind
<1>4. ASSUME NEW c \in Clients, Socket(c) PROVE HoldersOwn'
  BY <1>4, LowestFree DEF Socket, Open, FreeFds
<1>5. ASSUME NEW c \in Clients, Bind(c) \/ Connect(c) PROVE HoldersOwn'
  BY <1>5 DEF Bind, CanBind, Connect, GiveUp, Release
<1>6. ASSUME NEW c \in Clients, Close(c) PROVE HoldersOwn'
  BY <1>6, CloseFacts DEF Release
<1>7. CASE OtherOpens \/ OtherCloses
  BY <1>7, LowestFree DEF OtherOpens, OtherCloses, Open, Release, FreeFds
<1>8. CASE PortTaken \/ PortFreed \/ UNCHANGED vars
  BY <1>8 DEF PortTaken, PortFreed, Take, vars
<1>. QED BY <1>1, <1>2, <1>3, <1>4, <1>5, <1>6, <1>7, <1>8, NextCases

LEMMA BoundStep == IInv /\ [Next]_vars => BoundByHolder' /\ ProbeBound'
<1> DEFINE P == BoundByHolder' /\ ProbeBound'
<1> SUFFICES ASSUME IInv, [Next]_vars PROVE P
  OBVIOUS
<1> USE NamesDistinct, ClientsNamed DEF IInv, TypeOK, kernelVars, searchVars, callVars, history, BoundByHolder, ProbeBound, HoldersOwn, LoopProbes, LoopSearches, NoNumberYet, IsOpen
<1>1. ASSUME NEW c \in Clients, Invite(c) \/ Ack(c) \/ StreamEnds(c) PROVE P
  BY <1>1 DEF Invite, Ack, StreamEnds
<1>2. ASSUME NEW c \in Clients, ProbeOpens(c) PROVE P
  BY <1>2, LowestFree DEF ProbeOpens, Open, FreeFds
<1>3. ASSUME NEW c \in Clients, ProbeBinds(c) \/ ProbeFails(c) \/ allocSocketPort(c) PROVE P
  BY <1>3 DEF ProbeBinds, ProbeFails, allocSocketPort, Found, Release, CanBind
<1>4. ASSUME NEW c \in Clients, Socket(c) PROVE P
  BY <1>4, LowestFree DEF Socket, Open, FreeFds
<1>5. ASSUME NEW c \in Clients, Bind(c) \/ Connect(c) PROVE P
  BY <1>5 DEF Bind, CanBind, Connect, GiveUp, Release
<1>6. ASSUME NEW c \in Clients, Close(c) PROVE P
  BY <1>6, CloseFacts DEF Release
<1>7. CASE OtherOpens \/ OtherCloses
  BY <1>7, LowestFree DEF OtherOpens, OtherCloses, Open, Release, FreeFds
<1>8. CASE PortTaken \/ PortFreed \/ UNCHANGED vars
  BY <1>8 DEF PortTaken, PortFreed, Take, vars
<1>. QED BY <1>1, <1>2, <1>3, <1>4, <1>5, <1>6, <1>7, <1>8, NextCases

LEMMA OneSocketStep == IInv /\ [Next]_vars => OneSocket'
<1> SUFFICES ASSUME IInv, [Next]_vars PROVE OneSocket'
  OBVIOUS
<1> USE NamesDistinct, ClientsNamed DEF IInv, TypeOK, kernelVars, searchVars, callVars, history, OneSocket, SocketProtocol, Having, Bindable, BoundByHolder, HoldersOwn, IsOpen
<1>1. ASSUME NEW c \in Clients, Invite(c) \/ Ack(c) \/ StreamEnds(c) PROVE OneSocket'
  BY <1>1 DEF Invite, Ack, StreamEnds
<1>2. ASSUME NEW c \in Clients, ProbeOpens(c) PROVE OneSocket'
  BY <1>2, LowestFree DEF ProbeOpens, Open, FreeFds
<1>3. ASSUME NEW c \in Clients, ProbeBinds(c) \/ ProbeFails(c) \/ allocSocketPort(c) PROVE OneSocket'
  BY <1>3 DEF ProbeBinds, ProbeFails, allocSocketPort, Found, Release, CanBind
<1>4. ASSUME NEW c \in Clients, Socket(c) PROVE OneSocket'
  BY <1>4, LowestFree DEF Socket, Open, FreeFds
<1>5. ASSUME NEW c \in Clients, Bind(c) \/ Connect(c) PROVE OneSocket'
  BY <1>5 DEF Bind, CanBind, Connect, GiveUp, Release
<1>6. ASSUME NEW c \in Clients, Close(c) PROVE OneSocket'
  <2> SUFFICES ASSUME ~ recycled', NEW f \in Fds, bound'[f] # NoPort, SocketProtocol(f)' = "TCP"
               PROVE  /\ bound'[f] \notin taken'["TCP"]
                      /\ \A g \in Fds : bound'[g] = bound'[f] /\ SocketProtocol(g)' = "TCP" => g = f
    BY DEF OneSocket
  <2>1. /\ ~ recycled /\ Release(sock_fd_[c]) /\ UNCHANGED protocol
        /\ \/ UNCHANGED taken
           \/ /\ sock_fd_[c] \in Fds
              /\ bound[sock_fd_[c]] # NoPort /\ SocketProtocol(sock_fd_[c]) = "TCP"
              /\ \A q \in taken'["TCP"] : q \in taken["TCP"] \/ q = bound[sock_fd_[c]]
    BY <1>6, CloseFacts, TakeFacts DEF Protocols
  <2>2. \A g \in Fds : bound'[g] # NoPort =>
            bound'[g] = bound[g] /\ g # sock_fd_[c] /\ SocketProtocol(g)' = SocketProtocol(g)
    BY <2>1 DEF Release, SocketProtocol
  <2>. QED BY <2>1, <2>2 DEF OneSocket
<1>7. CASE OtherOpens \/ OtherCloses
  BY <1>7, LowestFree DEF OtherOpens, OtherCloses, Open, Release, FreeFds
<1>8. CASE PortTaken \/ PortFreed \/ UNCHANGED vars
  <2>1. CASE PortTaken
    <3> SUFFICES ASSUME ~ recycled', NEW f \in Fds, bound'[f] # NoPort, SocketProtocol(f)' = "TCP"
                 PROVE  /\ bound'[f] \notin taken'["TCP"]
                        /\ \A g \in Fds : bound'[g] = bound'[f] /\ SocketProtocol(g)' = "TCP" => g = f
      BY DEF OneSocket
    <3>1. PICK proto \in Protocols, p \in Ports : Bindable(proto, p) /\ Take(proto, p)
      BY <2>1 DEF PortTaken
    <3>2. \A q \in taken'["TCP"] : q \in taken["TCP"] \/ (proto = "TCP" /\ q = p)
      BY <3>1, TakeFacts
    <3>3. UNCHANGED <<table, bound, protocol, recycled>>
      BY <2>1 DEF PortTaken
    <3>4. \A g \in Fds : SocketProtocol(g)' = SocketProtocol(g)
      BY <3>3 DEF SocketProtocol
    <3>5. proto = "TCP" => \A g \in Fds : ~ (bound[g] = p /\ SocketProtocol(g) = "TCP")
      BY <3>1 DEF Bindable, Having
    <3>6. ~ recycled /\ bound[f] # NoPort /\ SocketProtocol(f) = "TCP" /\ bound'[f] = bound[f]
      BY <3>3, <3>4
    <3>7. bound[f] \notin taken["TCP"] /\ ~ (proto = "TCP" /\ bound[f] = p)
      BY <3>5, <3>6
    <3>8. bound[f] \notin taken'["TCP"]
      BY <3>2, <3>7
    <3>. QED BY <3>3, <3>4, <3>6, <3>8
  <2>2. CASE PortFreed \/ UNCHANGED vars
    <3>1. UNCHANGED <<table, bound, protocol, recycled>> /\ taken'["TCP"] \subseteq taken["TCP"]
      BY <2>2 DEF PortFreed, Protocols, vars
    <3>2. \A g \in Fds : SocketProtocol(g)' = SocketProtocol(g)
      BY <3>1 DEF SocketProtocol
    <3>. QED BY <3>1, <3>2 DEF OneSocket
  <2>. QED BY <1>8, <2>1, <2>2
<1>. QED BY <1>1, <1>2, <1>3, <1>4, <1>5, <1>6, <1>7, <1>8, NextCases

LEMMA FoundStep == IInv /\ [Next]_vars => PortFound'
<1> SUFFICES ASSUME IInv, [Next]_vars PROVE PortFound'
  OBVIOUS
<1> USE NamesDistinct, ClientsNamed DEF IInv, TypeOK, kernelVars, searchVars, callVars, history, PortFound, OneSocket, ProbeBound, SocketProtocol, LoopProbes, LoopSearches
<1>1. ASSUME NEW c \in Clients, Invite(c) \/ Ack(c) \/ StreamEnds(c) PROVE PortFound'
  BY <1>1 DEF Invite, Ack, StreamEnds
<1>2. ASSUME NEW c \in Clients, ProbeOpens(c) PROVE PortFound'
  BY <1>2, LowestFree DEF ProbeOpens, Open, FreeFds
<1>3. ASSUME NEW c \in Clients, ProbeBinds(c) \/ ProbeFails(c) \/ allocSocketPort(c) PROVE PortFound'
  BY <1>3 DEF ProbeBinds, ProbeFails, allocSocketPort, Found, Release, CanBind
<1>4. ASSUME NEW c \in Clients, Socket(c) PROVE PortFound'
  BY <1>4, LowestFree DEF Socket, Open, FreeFds
<1>5. ASSUME NEW c \in Clients, Bind(c) \/ Connect(c) PROVE PortFound'
  BY <1>5 DEF Bind, CanBind, Connect, GiveUp, Release
<1>6. ASSUME NEW c \in Clients, Close(c) PROVE PortFound'
  <2>1. /\ recycled => recycled'
        /\ pc' = [pc EXCEPT ![c] = "none"] /\ port' = [port EXCEPT ![c] = NoPort]
        /\ UNCHANGED protocol
        /\ outrun \subseteq outrun'
    BY <1>6, CloseFacts
  <2>2. CASE UNCHANGED <<taken, outrun>>
    BY <2>1, <2>2 DEF PortFound
  <2>3. CASE sock_fd_[c] \in Fds /\ bound[sock_fd_[c]] # NoPort /\ Take("TCP", bound[sock_fd_[c]])
    <3>1. bound[sock_fd_[c]] \in Ports
      BY <2>3
    <3>2. /\ \A q \in taken'["TCP"] : q \in taken["TCP"] \/ q = bound[sock_fd_[c]]
          /\ \A d \in Clients :
                pc[d] \in {"answered", "socket", "bind"} /\ protocol[d] = "TCP"
                /\ port[d] = bound[sock_fd_[c]] => d \in outrun'
      BY <2>3, <3>1, TakeFacts DEF Protocols
    <3>. QED BY <2>1, <3>2 DEF PortFound
  <2>. QED BY <1>6, <2>2, <2>3, CloseFacts
<1>7. CASE OtherOpens \/ OtherCloses
  BY <1>7, LowestFree DEF OtherOpens, OtherCloses, Open, Release, FreeFds
<1>8. CASE PortTaken \/ PortFreed \/ UNCHANGED vars
  <2>1. CASE PortTaken
    <3>1. PICK proto \in Protocols, p \in Ports : Take(proto, p)
      BY <2>1 DEF PortTaken
    <3>2. \A q \in taken'["TCP"] : q \in taken["TCP"] \/ (proto = "TCP" /\ q = p)
      BY <3>1, TakeFacts
    <3>. QED BY <2>1, <3>1, <3>2, TakeFacts DEF PortTaken, PortFound
  <2>. QED BY <1>8, <2>1 DEF PortFreed, vars
<1>. QED BY <1>1, <1>2, <1>3, <1>4, <1>5, <1>6, <1>7, <1>8, NextCases

LEMMA InvHolds == Spec => []IInv
<1>1. Init => IInv
  BY InitInv
<1>2. IInv /\ [Next]_vars => IInv'
  BY TypeStep, ProgressStep, NoLeakStep, HoldersStep, BoundStep, OneSocketStep, FoundStep DEF IInv
<1>. QED BY <1>1, <1>2, PTL DEF Spec

----
(***************************************************************************)
(* Theorems.                                                               *)
(***************************************************************************)
\* Numbers and ports stay within their ranges.
THEOREM TypeCorrect == Spec => []TypeOK
<1>1. IInv => TypeOK
  BY DEF IInv
<1>. QED BY <1>1, InvHolds, PTL

\* Whatever connect() and the probes open is closed by somebody, however binds and
\* connects fail.
THEOREM NothingLeaks == Spec => []NoLeak
<1>1. IInv => NoLeak
  BY DEF IInv
<1>. QED BY <1>1, InvHolds, PTL

\* Until close() has followed a failed connect() at the wrong moment, each holder of
\* a number holds what it opened.
THEOREM OwnDescriptors == Spec => []HoldersOwn
<1>1. IInv => HoldersOwn
  BY DEF IInv
<1>. QED BY <1>1, InvHolds, PTL

\* Only the thread of a call brings it from its bind() to failure.
LEMMA BindFailed ==
    ASSUME IInv, [Next]_vars, NEW c \in Clients, pc[c] = "bind", pc'[c] = "failed"
    PROVE  ~ CanBind(sock_fd_[c], port[c])
<1> USE DEF IInv, TypeOK, kernelVars, searchVars, callVars, history
<1> DEFINE P == ~ CanBind(sock_fd_[c], port[c])
<1>1. ASSUME NEW d \in Clients, Invite(d) \/ Ack(d) \/ StreamEnds(d) PROVE P
  BY <1>1 DEF Invite, Ack, StreamEnds
<1>2. ASSUME NEW d \in Clients, ProbeOpens(d) PROVE P
  BY <1>2 DEF ProbeOpens
<1>3. ASSUME NEW d \in Clients, ProbeBinds(d) \/ ProbeFails(d) \/ allocSocketPort(d) PROVE P
  BY <1>3 DEF ProbeBinds, ProbeFails, allocSocketPort, Found
<1>4. ASSUME NEW d \in Clients, Socket(d) PROVE P
  BY <1>4 DEF Socket
<1>5. ASSUME NEW d \in Clients, Bind(d) \/ Connect(d) PROVE P
  BY <1>5 DEF Bind, Connect, GiveUp
<1>6. ASSUME NEW d \in Clients, Close(d) PROVE P
  BY <1>6 DEF Close, CloseWhen
<1>7. CASE OtherOpens \/ OtherCloses
  BY <1>7 DEF OtherOpens, OtherCloses
<1>8. CASE PortTaken \/ PortFreed \/ UNCHANGED vars
  BY <1>8 DEF PortTaken, PortFreed, vars
<1>. QED BY <1>1, <1>2, <1>3, <1>4, <1>5, <1>6, <1>7, <1>8, NextCases

\* A TCP call whose bind() fails had no descriptor, its port was taken since it had been
\* found free, or another TCP socket of the program has it.
THEOREM BindsFailOnlyIfOutrun == Spec => BindFailsOnlyIfOutrun
<1> DEFINE A == \A c \in Clients :
                  (pc[c] = "bind" /\ pc'[c] = "failed" /\ protocol[c] = "TCP" /\ ~ recycled) =>
                      \/ sock_fd_[c] = NoFd
                      \/ c \in outrun
                      \/ \E f \in Having("TCP", port[c]) : table[f] # c
<1>1. IInv /\ [Next]_vars => A
  <2> SUFFICES ASSUME IInv, [Next]_vars, NEW c \in Clients, pc[c] = "bind", pc'[c] = "failed",
                      protocol[c] = "TCP", ~ recycled, sock_fd_[c] # NoFd, c \notin outrun
               PROVE  \E f \in Having("TCP", port[c]) : table[f] # c
    OBVIOUS
  <2>1. ~ CanBind(sock_fd_[c], port[c])
    BY BindFailed
  <2>2. sock_fd_[c] \in Fds /\ table[sock_fd_[c]] = c /\ c # Other /\ c # Free /\ c # Probe
    BY ClientsNamed DEF IInv, TypeOK, HoldersOwn
  <2>3. \A f \in Fds : bound[f] # NoPort => table[f] # c
    BY ClientsNamed DEF IInv, BoundByHolder
  <2>4. ~ Bindable("TCP", port[c])
    BY <2>1, <2>2, <2>3 DEF CanBind, IsOpen, SocketProtocol
  <2>5. port[c] \in Ports /\ port[c] \notin taken["TCP"]
    BY DEF IInv, PortFound
  <2>6. PICK f \in Having("TCP", port[c]) : TRUE
    BY <2>4, <2>5 DEF Bindable
  <2>. QED BY <2>3, <2>5, <2>6, NamesDistinct DEF Having
<1>. QED BY <1>1, InvHolds, PTL DEF BindFailsOnlyIfOutrun, Spec
====
