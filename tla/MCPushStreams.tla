---- MODULE MCPushStreams ----
EXTENDS PushStreams, TLC

\* RtpClient objects and descriptor numbers are interchangeable.
ClientSymmetry == Permutations(Clients) \cup Permutations(Fds)
====
