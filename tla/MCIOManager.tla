----------------------------- MODULE MCIOManager -----------------------------
(* Instances of IOManager for TLC: up to three waiters and two fds, named   *)
(* by model values, and the call, fd and direction of each waiter.         *)
EXTENDS IOManager, TLC

CONSTANTS w1, w2, w3, f1, f2

\* w1 reads f1; w2 writes (or connects on) f2; w3, if present, sleeps
WFdApart == [w \in Waiters |-> IF w = w1 THEN f1 ELSE f2]
WDirApart == [w \in Waiters |-> IF w = w1 THEN "READ" ELSE "WRITE"]

\* w1 reads and w2 writes the same fd, as a duplex connection does
WFdShared == [w \in Waiters |-> f1]

\* w1 in read, w2 in connect_with_timeout, w3 in usleep
KindMixed ==
    [w \in Waiters |-> CASE w = w1 -> "read"
                         [] w = w2 -> "connect"
                         [] OTHER -> "sleep"]

\* w1 is the accept loop of a TcpServer listening on f1; w2 connects on f2,
\* which a fiber closes
KindServer == [w \in Waiters |-> IF w = w1 THEN "accept" ELSE "connect"]

\* every waiter in do_io
KindAllRead == [w \in Waiters |-> "read"]
=============================================================================
