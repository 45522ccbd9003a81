------------------------------- MODULE Server -------------------------------
(***************************************************************************)
(* Server.cpp: the thread that carries commands from a TCP client to the   *)
(* simulation (tx, as the server sends them) and answers back (rx).  The   *)
(* simulation starts the thread and, in the destructor, ends it; clients   *)
(* come and go by themselves.                                              *)
(*                                                                         *)
(* Both queues keep what is put into them, in order (SpscQueue); their     *)
(* elements are commands and answers.  The kernel's part is the listening  *)
(* socket and one connection.                                              *)
(***************************************************************************)
EXTENDS Naturals, Sequences, SequencesExt

CONSTANTS
    CmdBytes,       \* what one read takes: sizeof (cmd) - 1
    RespBytes,      \* what one write gives: sizeof (resp)
    SockBytes,      \* what the kernel holds for the client to read
    EarlyQuit       \* may the simulation end before the thread accepts clients?

ASSUME BytesAssumption == {CmdBytes, RespBytes, SockBytes} \subseteq Nat \ {0}
ASSUME EarlyAssumption == EarlyQuit \in BOOLEAN

VARIABLES
    running,        \* the flag; the constructor leaves it as memory was
    thread,         \* where Listen is
    tx, rx,         \* the two queues
    sockfd,         \* the listening socket: "none", "bound" (not listening yet), "listening" or "shut"
    conn,           \* the connection: "none", "pending", "open", "fin", "reset" or "dead"
    inbound,        \* sent by the client and not read
    outbound,       \* written for the client and not received
    process,        \* "runs", "quits", "joins", "deleted" or how it ended
    sent,           \* history: what clients sent
    served,         \* history: what the simulation took from tx
    answered,       \* history: what the simulation put into rx
    got,            \* history: what clients received
    rude            \* history: a client left while answers were due, or did not read them

connection == <<conn, inbound, outbound>>
simulation == <<served, answered>>
clients == <<sent, got, rude>>
serverVars == <<running, thread, tx, rx, sockfd, connection, process, simulation, clients>>

Alive == process \in {"runs", "quits", "joins", "deleted"}

ServerInit ==
    /\ running \in BOOLEAN
    /\ thread = "none"
    /\ tx = <<>>
    /\ rx = <<>>
    /\ sockfd = "none"
    /\ conn = "none"
    /\ inbound = <<>>
    /\ outbound = <<>>
    /\ process = "runs"
    /\ sent = <<>>
    /\ served = <<>>
    /\ answered = <<>>
    /\ got = <<>>
    /\ rude = FALSE

-----------------------------------------------------------------------------
\* Start: pthread_create.
Start ==
    /\ process = "runs"
    /\ thread = "none"
    /\ thread' = "new"
    /\ UNCHANGED <<running, tx, rx, sockfd, connection, process, simulation, clients>>

\* Listen sets the flag, opens the socket, binds it, and listens.
SetRunning ==
    /\ thread = "new"
    /\ thread' = "socket"
    /\ running' = TRUE
    /\ UNCHANGED <<tx, rx, sockfd, connection, process, simulation, clients>>

OpenSocket ==
    /\ thread = "socket"
    /\ thread' = "listen"
    /\ sockfd' = "bound"
    /\ UNCHANGED <<running, tx, rx, connection, process, simulation, clients>>

ListenSocket ==
    /\ thread = "listen"
    /\ thread' = "accept"
    /\ sockfd' = "listening"
    /\ UNCHANGED <<running, tx, rx, connection, process, simulation, clients>>

\* accept: a client, which may have closed since it connected, or, once the
\* socket is shut, an error and exit (-1).
Accept ==
    /\ thread = "accept"
    /\ sockfd = "listening"
    /\ conn \in {"pending", "fin"}
    /\ thread' = "read"
    /\ conn' = IF conn = "pending" THEN "open" ELSE conn
    /\ UNCHANGED <<running, tx, rx, sockfd, inbound, outbound, process, simulation, clients>>

AcceptFails ==
    /\ thread = "accept"
    /\ sockfd = "shut"
    /\ process' = "exit -1"
    /\ UNCHANGED <<running, thread, tx, rx, sockfd, connection, simulation, clients>>

\* The head of the loop: read what is there, and queue it byte by byte.
\* Mutant of Read: what does not fit the buffer at once is dropped.
ReadTruncates ==
    /\ thread = "read"
    /\ running
    /\ conn \in {"open", "fin", "reset"}
    /\ inbound /= <<>>
    /\ tx' = tx \o SubSeq(inbound, 1, IF CmdBytes < Len(inbound) THEN CmdBytes ELSE Len(inbound))
    /\ inbound' = <<>>
    /\ thread' = "flush"
    /\ UNCHANGED <<running, rx, sockfd, conn, outbound, process, simulation, clients>>
Read ==
    LET n == IF CmdBytes < Len(inbound) THEN CmdBytes ELSE Len(inbound)
    IN  /\ thread = "read"
        /\ running
        /\ conn \in {"open", "fin", "reset"}
        /\ inbound /= <<>>
        /\ tx' = tx \o SubSeq(inbound, 1, n)
        /\ inbound' = SubSeq(inbound, n + 1, Len(inbound))
        /\ thread' = "flush"
        /\ UNCHANGED <<running, rx, sockfd, conn, outbound, process, simulation, clients>>

\* Nothing there, or the error of a reset connection, which is reported once:
\* neither stops the loop.
\* Mutant of ReadNothing: there is nothing to flush then.
ReadNothingSkips ==
    /\ thread = "read"
    /\ running
    /\ inbound = <<>>
    /\ conn = "reset"
    /\ conn' = "dead"
    /\ UNCHANGED <<running, thread, tx, rx, sockfd, inbound, outbound, process, simulation, clients>>
ReadNothing ==
    /\ thread = "read"
    /\ running
    /\ inbound = <<>>
    /\ conn \in {"open", "reset"}
    /\ conn' = IF conn = "reset" THEN "dead" ELSE conn
    /\ thread' = "flush"
    /\ UNCHANGED <<running, tx, rx, sockfd, inbound, outbound, process, simulation, clients>>

\* The other side closed: wait for the next client, whatever the flag says.
ReadEnd ==
    /\ thread = "read"
    /\ running
    /\ inbound = <<>>
    /\ conn \in {"fin", "dead"}
    /\ conn' = "none"
    /\ outbound' = <<>>
    /\ thread' = "accept"
    /\ UNCHANGED <<running, tx, rx, sockfd, inbound, process, simulation, clients>>

\* Flush what the simulation answered, as much as one write takes; what the
\* kernel has no room for is lost, no room at all is an error and exit (-1).
\* A client that has closed answers with a reset; a write after that is an
\* error, or a SIGPIPE.
Flush ==
    LET n == IF RespBytes < Len(rx) THEN RespBytes ELSE Len(rx)
        room == SockBytes - Len(outbound)
        m == IF n < room THEN n ELSE room
    IN  /\ thread = "flush"
        /\ thread' = "read"
        /\ rx' = SubSeq(rx, n + 1, Len(rx))
        /\ IF n = 0 THEN UNCHANGED <<conn, outbound, process, rude>>
           ELSE /\ outbound' = IF conn = "open" THEN outbound \o SubSeq(rx, 1, m) ELSE outbound
                /\ conn' = IF conn = "fin" THEN "reset" ELSE conn
                /\ rude' = (rude \/ (conn = "open" /\ n > room))
                /\ process' = IF conn \in {"reset", "dead"} \/ (conn = "open" /\ room = 0)
                              THEN "exit -1" ELSE process
        /\ UNCHANGED <<running, tx, sockfd, inbound, simulation, sent, got>>

\* The flag was cleared: the thread ends.
Done ==
    /\ thread = "read"
    /\ ~running
    /\ thread' = "ended"
    /\ UNCHANGED <<running, tx, rx, sockfd, connection, process, simulation, clients>>

\* The steps of Listen.
Listen ==
    /\ Alive
    /\ \/ SetRunning
       \/ OpenSocket
       \/ ListenSocket
       \/ Accept
       \/ AcceptFails
       \/ Read
       \/ ReadNothing
       \/ ReadEnd
       \/ Flush
       \/ Done

-----------------------------------------------------------------------------
\* ~Server: if the flag is set, clear it, shut the listening socket, which
\* wakes an accept but does nothing to a socket that does not listen yet, and
\* wait for the thread.
\* Mutants of Destroy: the socket is not shut; the thread is not waited for.
DestroyOpen ==
    /\ process = "quits"
    /\ process' = IF running THEN "joins" ELSE "deleted"
    /\ running' = FALSE
    /\ UNCHANGED <<thread, tx, rx, sockfd, connection, simulation, clients>>
DestroyNow ==
    /\ process = "quits"
    /\ process' = "deleted"
    /\ running' = FALSE
    /\ UNCHANGED <<thread, tx, rx, sockfd, connection, simulation, clients>>
Destroy ==
    /\ process = "quits"
    /\ process' = IF running THEN "joins" ELSE "deleted"
    /\ sockfd' = IF running /\ sockfd = "listening" THEN "shut" ELSE sockfd
    /\ running' = FALSE
    /\ UNCHANGED <<thread, tx, rx, connection, simulation, clients>>

Joined ==
    /\ process = "joins"
    /\ thread = "ended"
    /\ process' = "deleted"
    /\ UNCHANGED <<running, thread, tx, rx, sockfd, connection, simulation, clients>>

-----------------------------------------------------------------------------
\* What the services of the simulation do: take the first n elements of tx and
\* answer.
Exchange(n, answers) ==
    /\ tx' = SubSeq(tx, n + 1, Len(tx))
    /\ served' = served \o SubSeq(tx, 1, n)
    /\ rx' = rx \o answers
    /\ answered' = answered \o answers

-----------------------------------------------------------------------------
\* The client's end of the connection.

Connect ==
    /\ Alive
    /\ conn = "none"
    /\ sockfd = "listening"
    /\ conn' = "pending"
    /\ UNCHANGED <<running, thread, tx, rx, sockfd, inbound, outbound, process, simulation, clients>>

Connected == conn \in {"pending", "open"}

Send(cmds) ==
    /\ Alive
    /\ Connected
    /\ inbound' = inbound \o cmds
    /\ sent' = sent \o cmds
    /\ UNCHANGED <<running, thread, tx, rx, sockfd, conn, outbound, process, simulation, got, rude>>

Receive ==
    /\ Connected
    /\ outbound /= <<>>
    /\ outbound' = Tail(outbound)
    /\ got' = Append(got, Head(outbound))
    /\ UNCHANGED <<running, thread, tx, rx, sockfd, conn, inbound, process, simulation, sent, rude>>

\* A close with answers unread resets the connection.  What was sent before
\* can be read all the same.  Is the client to get answers (isDue)?
Close(isDue) ==
    /\ Alive
    /\ Connected
    /\ conn' = IF outbound /= <<>> THEN "reset" ELSE "fin"
    /\ outbound' = <<>>
    /\ rude' = (rude \/ isDue)
    /\ UNCHANGED <<running, thread, tx, rx, sockfd, inbound, process, simulation, sent, got>>

=============================================================================
