-------------------------------- MODULE Tcp --------------------------------
(***************************************************************************)
(* The TCP target (targets/tcp.go) and the goroutines that meet in it: the *)
(* read loop of its host, which calls Write for one record after another;  *)
(* the call of TargetHost.Shutdown, which ends in Tcp.Shutdown; a dialling *)
(* goroutine for every connection that getConn asks for; and a monitor     *)
(* goroutine for every connection.                                         *)
(*                                                                         *)
(* A dialling goroutine, the connection it makes and the `monitor' channel *)
(* made for that connection have the same name, an element of Dials, which *)
(* is used again once all three are gone.                                  *)
(***************************************************************************)
EXTENDS Naturals

CONSTANTS
    Dials,                  \* bounds the connections that exist at a time
    TLS,                    \* options.TLS
    RetryBackoffMillis, MaxRetryBackoffMillis,
    MaxWrites,              \* records the host writes
    MaxFailures,            \* bounds the failures of the network
    TcpFaults,              \* what may go wrong, see TcpFaultNames
    nil

\* dialError, handshakeError, writeError, peerClose, peerData: the network or the
\* server fails, or the server sends something, at most MaxFailures times.
\* serverDown: from some time on, no connection can be made.  handshakeHang: the
\* server accepts and says nothing.  ctxTimeout: the context of
\* TargetHost.Shutdown is done.
TcpFaultNames == {"dialError", "handshakeError", "writeError", "peerClose", "serverDown",
                  "handshakeHang", "peerData", "ctxTimeout"}

ASSUME TcpAssumption ==
    /\ TLS \in BOOLEAN
    /\ RetryBackoffMillis \in Nat \ {0}
    /\ MaxRetryBackoffMillis \in Nat
    /\ RetryBackoffMillis <= MaxRetryBackoffMillis
    /\ MaxWrites \in Nat
    /\ MaxFailures \in Nat
    /\ TcpFaults \subseteq TcpFaultNames
    /\ nil \notin Dials \cup {"getConn"}

VARIABLES
    \* fields of Tcp
    mutex,      \* the holder of the mutex, where it is held for a while
    conn,       \* tcp.conn
    monitor,    \* tcp.monitor; nil is the channel made by NewTcpTarget
    closed,     \* the `monitor' channels that are closed
    shutdown,   \* tcp.shutdown is closed
    \* connections and their goroutines
    down,       \* the server is down for good
    sock,       \* our end of a connection: "none" (or closed), "open"
    gone,       \* connections whose other end is gone
    dpc, mpc,   \* the dialling and the monitor goroutine
    \* the read loop of the host
    wpc, wconn, \* where it is in Write, the connection it writes to or dials
    backoff,
    writes,     \* records it has passed to Write
    \* TargetHost.Shutdown
    cpc, quit,
    \* history
    failures,
    expired,    \* the context was done before the read loop exited
    stray,      \* open connections that dial returned an error for
    panicked    \* a channel was closed twice

fieldVars  == <<mutex, conn, monitor, closed, shutdown>>
netVars    == <<down, sock, gone, dpc, mpc>>
writeVars  == <<wpc, wconn, backoff, writes>>
closeVars  == <<cpc, quit>>
tcpHistory == <<failures, expired, stray, panicked>>
tcpVars    == <<fieldVars, netVars, writeVars, closeVars, tcpHistory>>

\* Every variable keeps its type; the pause between two tries stays between
\* RetryBackoffMillis and MaxRetryBackoffMillis.
TcpTypeOK ==
    /\ mutex \in {nil, "getConn"}
    /\ conn \in Dials \cup {nil} /\ monitor \in Dials \cup {nil}
    /\ closed \in SUBSET (Dials \cup {nil})
    /\ shutdown \in BOOLEAN
    /\ down \in BOOLEAN
    /\ sock \in [Dials -> {"none", "open"}]
    /\ gone \in SUBSET Dials
    /\ dpc \in [Dials -> {"none", "dial", "handshake", "hung", "assign", "monitor", "ok", "error"}]
    /\ mpc \in [Dials -> {"none", "wait", "read"}]
    /\ wpc \in {"idle", "top", "lock", "dialling", "write", "close", "sleep", "exited"}
    /\ wconn \in Dials \cup {nil}
    /\ backoff \in RetryBackoffMillis .. MaxRetryBackoffMillis
    /\ writes \in 0 .. MaxWrites
    /\ cpc \in {"none", "wait", "close", "signal", "returned"}
    /\ quit \in BOOLEAN
    /\ failures \in 0 .. MaxFailures
    /\ expired \in BOOLEAN
    /\ stray \in SUBSET Dials
    /\ panicked \in BOOLEAN

\* NewTcpTarget, and a host for it; Init does nothing.
TcpInit ==
    /\ mutex = nil /\ conn = nil /\ monitor = nil /\ closed = {} /\ shutdown = FALSE
    /\ down = FALSE /\ sock = [d \in Dials |-> "none"] /\ gone = {}
    /\ dpc = [d \in Dials |-> "none"] /\ mpc = [d \in Dials |-> "none"]
    /\ wpc = "idle" /\ wconn = nil /\ backoff = RetryBackoffMillis /\ writes = 0
    /\ cpc = "none" /\ quit = FALSE
    /\ failures = 0 /\ expired = FALSE /\ stray = {} /\ panicked = FALSE

\* One of the failures that the network may have.
Fails(fault) ==
    /\ fault \in TcpFaults
    /\ failures < MaxFailures
    /\ failures' = failures + 1

Free(d) == dpc[d] = "none" /\ mpc[d] = "none" /\ sock[d] = "none"

-----------------------------------------------------------------------------
(***************************************************************************)
(* The read loop of the host and Tcp.Write.                                *)
(***************************************************************************)

\* The loop takes the next record and calls Write.
WriteBegin ==
    /\ wpc = "idle"
    /\ writes < MaxWrites
    /\ writes' = writes + 1
    /\ wpc' = "top"
    /\ backoff' = RetryBackoffMillis
    /\ UNCHANGED <<fieldVars, netVars, wconn, closeVars, tcpHistory>>

\* The loop sees that quit is closed.
LoopQuit ==
    /\ wpc = "idle"
    /\ quit
    /\ wpc' = "exited"
    /\ UNCHANGED <<fieldVars, netVars, wconn, backoff, writes, closeVars, tcpHistory>>

\* The head of the retry loop: after Shutdown the record is given up.
WriteTop ==
    /\ wpc = "top"
    /\ wpc' = IF shutdown THEN "idle" ELSE "lock"
    /\ UNCHANGED <<fieldVars, netVars, wconn, backoff, writes, closeVars, tcpHistory>>

\* getConn: with the mutex, return the connection there is or start to dial.
GetConn ==
    /\ wpc = "lock"
    /\ mutex = nil
    /\ IF conn # nil
         THEN /\ wconn' = conn
              /\ wpc' = "write"
              /\ UNCHANGED <<mutex, dpc>>
         ELSE \E d \in Dials :
              /\ Free(d)
              /\ wconn' = d
              /\ dpc' = [dpc EXCEPT ![d] = "dial"]
              /\ wpc' = "dialling"
              /\ mutex' = "getConn"
    /\ UNCHANGED <<conn, monitor, closed, shutdown, down, sock, gone, mpc, backoff, writes, closeVars,
                   tcpHistory>>

\* Mutant: the mutex is not released when dialling failed.
Mut_GetConnResult ==
    /\ wpc = "dialling"
    /\ dpc[wconn] \in {"ok", "error"}
    /\ dpc' = [dpc EXCEPT ![wconn] = "none"]
    /\ IF dpc[wconn] = "ok"
         THEN wpc' = "write" /\ mutex' = nil /\ UNCHANGED wconn
         ELSE wpc' = "sleep" /\ wconn' = nil /\ UNCHANGED mutex
    /\ UNCHANGED <<conn, monitor, closed, shutdown, down, sock, gone, mpc, backoff, writes, closeVars,
                   tcpHistory>>

\* `case res := <-connChan': the dialling goroutine hands over its result.
GetConnResult ==
    /\ wpc = "dialling"
    /\ dpc[wconn] \in {"ok", "error"}
    /\ dpc' = [dpc EXCEPT ![wconn] = "none"]
    /\ IF dpc[wconn] = "ok"
         THEN wpc' = "write" /\ UNCHANGED wconn
         ELSE wpc' = "sleep" /\ wconn' = nil
    /\ mutex' = nil
    /\ UNCHANGED <<conn, monitor, closed, shutdown, down, sock, gone, mpc, backoff, writes, closeVars,
                   tcpHistory>>

\* `case <-tcp.shutdown': getConn returns an error and leaves the dialling
\* goroutine behind; its context is cancelled.
GetConnShutdown ==
    /\ wpc = "dialling"
    /\ shutdown
    /\ mutex' = nil
    /\ wpc' = "sleep"
    /\ wconn' = nil
    /\ UNCHANGED <<conn, monitor, closed, shutdown, netVars, backoff, writes, closeVars,
                   tcpHistory>>

\* conn.Write succeeds, which it may although the other end is gone.
ConnWriteOK ==
    /\ wpc = "write"
    /\ sock[wconn] = "open"
    /\ wpc' = "idle"
    /\ wconn' = nil
    /\ UNCHANGED <<fieldVars, netVars, backoff, writes, closeVars, tcpHistory>>

\* conn.Write fails: the connection is closed or broken, or the deadline of
\* the write has passed.
ConnWriteErr ==
    /\ wpc = "write"
    /\ \/ (sock[wconn] # "open" \/ wconn \in gone) /\ UNCHANGED failures
       \/ Fails("writeError")
    /\ wpc' = "close"
    /\ wconn' = nil
    /\ UNCHANGED <<fieldVars, netVars, backoff, writes, closeVars, expired, stray, panicked>>

\* Mutant: tcp.conn is not reset.
Mut_TcpClose ==
    /\ mutex = nil
    /\ IF conn # nil
         THEN /\ panicked' = (panicked \/ monitor \in closed)
              /\ closed' = closed \cup {monitor}
              /\ sock' = [sock EXCEPT ![conn] = "none"]
              /\ UNCHANGED conn
         ELSE UNCHANGED <<conn, closed, sock, panicked>>
    /\ UNCHANGED <<mutex, monitor, shutdown, down, gone, dpc, mpc, failures, expired, stray>>

\* Mutant: the connection is forgotten, not closed.
Mut_TcpCloseForgets ==
    /\ mutex = nil
    /\ IF conn # nil
         THEN /\ panicked' = (panicked \/ monitor \in closed)
              /\ closed' = closed \cup {monitor}
              /\ conn' = nil
              /\ UNCHANGED sock
         ELSE UNCHANGED <<conn, closed, sock, panicked>>
    /\ UNCHANGED <<mutex, monitor, shutdown, down, gone, dpc, mpc, failures, expired, stray>>

\* Tcp.close: stop the monitor, close the connection.
TcpClose ==
    /\ mutex = nil
    /\ IF conn # nil
         THEN /\ panicked' = (panicked \/ monitor \in closed)
              /\ closed' = closed \cup {monitor}
              /\ sock' = [sock EXCEPT ![conn] = "none"]
              /\ conn' = nil
         ELSE UNCHANGED <<conn, closed, sock, panicked>>
    /\ UNCHANGED <<mutex, monitor, shutdown, down, gone, dpc, mpc, failures, expired, stray>>

WriteClose ==
    /\ wpc = "close"
    /\ TcpClose
    /\ wpc' = "sleep"
    /\ UNCHANGED <<wconn, backoff, writes, closeVars>>

\* Mutant: the pause grows without bound.
Mut_NextBackoff(ms) == ms + ms \div 2

\* `backoff + (backoff >> 1)', capped.
NextBackoff(ms) ==
    LET next == ms + ms \div 2
    IN  IF next > MaxRetryBackoffMillis THEN MaxRetryBackoffMillis ELSE next

\* sleep ends, at once if the target is shut down, and Write tries again.
Sleep ==
    /\ wpc = "sleep"
    /\ backoff' = NextBackoff(backoff)
    /\ wpc' = "top"
    /\ UNCHANGED <<fieldVars, netVars, wconn, writes, closeVars, tcpHistory>>

-----------------------------------------------------------------------------
(***************************************************************************)
(* The goroutine of getConn that dials, and Tcp.dial.                      *)
(***************************************************************************)

DialConnect(d) ==
    /\ dpc[d] = "dial"
    /\ ~down
    /\ sock' = [sock EXCEPT ![d] = "open"]
    /\ gone' = gone \ {d}
    /\ dpc' = [dpc EXCEPT ![d] = IF TLS THEN "handshake" ELSE "assign"]
    /\ UNCHANGED <<fieldVars, down, mpc, writeVars, closeVars, tcpHistory>>

\* dialer.DialContext fails, or the context was cancelled: getConn has returned.
DialFail(d) ==
    /\ dpc[d] = "dial"
    /\ \/ Fails("dialError")
       \/ (down \/ wconn # d) /\ UNCHANGED failures
    /\ dpc' = [dpc EXCEPT ![d] = "error"]
    /\ UNCHANGED <<fieldVars, down, sock, gone, mpc, writeVars, closeVars, expired, stray, panicked>>

\* The TLS handshake, which no deadline limits: it succeeds, or fails and
\* leaves the connection open, or never ends.
HandshakeOK(d) ==
    /\ dpc[d] = "handshake"
    /\ dpc' = [dpc EXCEPT ![d] = "assign"]
    /\ UNCHANGED <<fieldVars, down, sock, gone, mpc, writeVars, closeVars, tcpHistory>>

HandshakeFail(d) ==
    /\ dpc[d] = "handshake"
    /\ Fails("handshakeError")
    /\ dpc' = [dpc EXCEPT ![d] = "error"]
    /\ stray' = stray \cup {d}
    /\ UNCHANGED <<fieldVars, down, sock, gone, mpc, writeVars, closeVars, expired, panicked>>

HandshakeHang(d) ==
    /\ dpc[d] = "handshake"
    /\ "handshakeHang" \in TcpFaults
    /\ dpc' = [dpc EXCEPT ![d] = "hung"]
    /\ UNCHANGED <<fieldVars, down, sock, gone, mpc, writeVars, closeVars, tcpHistory>>

\* `tcp.conn = conn', under no lock of its own.
AssignConn(d) ==
    /\ dpc[d] = "assign"
    /\ conn' = d
    /\ dpc' = [dpc EXCEPT ![d] = "monitor"]
    /\ UNCHANGED <<mutex, monitor, closed, shutdown, down, sock, gone, mpc, writeVars, closeVars,
                   tcpHistory>>

\* `tcp.monitor = make(chan struct{})' and `go monitor(tcp.conn, tcp.monitor)'.
AssignMonitor(d) ==
    /\ dpc[d] = "monitor"
    /\ monitor' = d
    /\ closed' = closed \ {d}
    /\ mpc' = [mpc EXCEPT ![d] = "wait"]
    /\ dpc' = [dpc EXCEPT ![d] = "ok"]
    /\ UNCHANGED <<mutex, conn, shutdown, down, sock, gone, writeVars, closeVars, tcpHistory>>

-----------------------------------------------------------------------------
(***************************************************************************)
(* The monitor of a connection.                                            *)
(***************************************************************************)

\* The select at the head of its loop.
MonitorSelect(d) ==
    /\ mpc[d] = "wait"
    /\ mpc' \in {[mpc EXCEPT ![d] = pc] : pc \in IF d \in closed THEN {"none", "read"} ELSE {"read"}}
    /\ UNCHANGED <<fieldVars, down, sock, gone, dpc, writeVars, closeVars, tcpHistory>>

\* The read deadline cannot be set, or passes: on with the loop.
MonitorContinue(d) ==
    /\ mpc[d] = "read"
    /\ mpc' = [mpc EXCEPT ![d] = "wait"]
    /\ UNCHANGED <<fieldVars, down, sock, gone, dpc, writeVars, closeVars, tcpHistory>>

\* Anything else that Read returns closes the connection, data included.
MonitorClose(d) ==
    /\ mpc[d] = "read"
    /\ \/ (sock[d] # "open" \/ d \in gone) /\ UNCHANGED failures
       \/ sock[d] = "open" /\ d \notin gone /\ Fails("peerData")
    /\ mpc' = [mpc EXCEPT ![d] = "none"]
    /\ sock' = [sock EXCEPT ![d] = "none"]
    /\ UNCHANGED <<fieldVars, down, gone, dpc, writeVars, closeVars, expired, stray, panicked>>

\* The server goes down for good; its connections may linger.
ServerDown ==
    /\ "serverDown" \in TcpFaults
    /\ ~down
    /\ down' = TRUE
    /\ UNCHANGED <<fieldVars, sock, gone, dpc, mpc, writeVars, closeVars, tcpHistory>>

\* The server closes a connection.
PeerClose(d) ==
    /\ sock[d] = "open"
    /\ d \notin gone
    /\ Fails("peerClose")
    /\ gone' = gone \cup {d}
    /\ UNCHANGED <<fieldVars, down, sock, dpc, mpc, writeVars, closeVars, expired, stray, panicked>>

-----------------------------------------------------------------------------
(***************************************************************************)
(* TargetHost.Shutdown and, at its end, Tcp.Shutdown.                      *)
(***************************************************************************)

HostShutdown ==
    /\ cpc = "none"
    /\ cpc' = "wait"
    /\ quit' = TRUE
    /\ UNCHANGED <<fieldVars, netVars, writeVars, tcpHistory>>

\* The read loop has exited, or the context is done.
HostShutdownWait ==
    /\ cpc = "wait"
    /\ \/ wpc = "exited" /\ UNCHANGED expired
       \/ "ctxTimeout" \in TcpFaults /\ expired' = TRUE
    /\ cpc' = "close"
    /\ UNCHANGED <<fieldVars, netVars, writeVars, quit, failures, stray, panicked>>

ShutdownClose ==
    /\ cpc = "close"
    /\ TcpClose
    /\ cpc' = "signal"
    /\ UNCHANGED <<writeVars, quit>>

\* Mutant: Shutdown only closes the connection.
Mut_ShutdownSignal ==
    /\ cpc = "signal"
    /\ cpc' = "returned"
    /\ UNCHANGED <<fieldVars, netVars, writeVars, quit, tcpHistory>>

\* `close(tcp.shutdown)'.
ShutdownSignal ==
    /\ cpc = "signal"
    /\ shutdown' = TRUE
    /\ cpc' = "returned"
    /\ UNCHANGED <<mutex, conn, monitor, closed, netVars, writeVars, quit, tcpHistory>>

-----------------------------------------------------------------------------

WriteStep ==
    \/ LoopQuit \/ WriteTop \/ GetConn \/ GetConnResult \/ GetConnShutdown
    \/ ConnWriteOK \/ ConnWriteErr \/ WriteClose \/ Sleep

DialStep(d) ==
    \/ DialConnect(d) \/ DialFail(d) \/ HandshakeOK(d) \/ HandshakeFail(d) \/ HandshakeHang(d)
    \/ AssignConn(d) \/ AssignMonitor(d)

MonitorStep(d) == MonitorSelect(d) \/ MonitorContinue(d) \/ MonitorClose(d)

ShutdownStep == HostShutdownWait \/ ShutdownClose \/ ShutdownSignal

TcpNext ==
    \/ WriteBegin \/ WriteStep
    \/ HostShutdown \/ ShutdownStep \/ ServerDown
    \/ \E d \in Dials : DialStep(d) \/ MonitorStep(d) \/ PeerClose(d)

TcpSpec == TcpInit /\ [][TcpNext]_tcpVars

(***************************************************************************)
(* Every goroutine that can go on does; dialling ends after DialTimeout    *)
(* and a write after WriteTimeout, but no context is assumed to end.       *)
(* sync.Mutex hands itself to a waiter that has starved, so entering close *)
(* is strongly fair.  A monitor that comes back to its select finds a      *)
(* closed channel ready and its new timer not, so it does not miss it for  *)
(* ever.                                                                   *)
(***************************************************************************)
TcpFairness ==
    /\ WF_tcpVars(WriteStep)
    /\ WF_tcpVars(wpc = "exited" /\ HostShutdownWait)
    /\ SF_tcpVars(ShutdownClose) /\ WF_tcpVars(ShutdownSignal)
    /\ \A d \in Dials : WF_tcpVars(DialStep(d)) /\ WF_tcpVars(MonitorStep(d))
                        /\ SF_tcpVars(MonitorSelect(d) /\ mpc'[d] = "none")

TcpFairSpec == TcpSpec /\ TcpFairness

-----------------------------------------------------------------------------
(***************************************************************************)
(* Properties.                                                             *)
(***************************************************************************)

\* No `monitor' channel is closed twice, which would panic: although the
\* dialling goroutine assigns tcp.conn and tcp.monitor one after the other and
\* without the mutex, nobody calls close() in between (tcp.go:98-99, 151-152).
NoDoubleClose == ~panicked

\* As long as Tcp.Shutdown does not overtake the read loop, an open connection
\* is one of these and no other, however often Write reconnects (tcp.go:98-100,
\* 146-157, 199, 232):
\*   - tcp.conn, with a monitor that will close it when it breaks, or about to
\*     get one;
\*   - the one that getConn waits for;
\*   - one whose TLS handshake failed, or that came before an error of the
\*     certificates: dial returns the error and nobody closes the connection
\*     (tcp.go:131-142), so that every such try leaves one behind.
\* The third case is a leak; see ResourcesFreed.
ConnectionsOwned ==
    \A d \in Dials :
        sock[d] = "open" /\ ~expired =>
            \/ conn = d /\ (dpc[d] = "monitor" \/ mpc[d] # "none")
            \/ wpc = "dialling" /\ wconn = d
            \/ d \in stray

\* getConn waits for a handshake that never ends (tcp.go:140 has no deadline).
Hung == \E d \in Dials : wpc = "dialling" /\ wconn = d /\ dpc[d] = "hung"

\* Write returns once the network has stopped failing, or never will, or a TLS
\* handshake hangs: no cycle of the mutex, the dialling goroutine, the monitor
\* and a stale tcp.conn keeps it trying for ever while the server is up
\* (tcp.go:171-203).
WriteEnds == (wpc = "top" ~> wpc \in {"idle", "exited"}) \/ <>[]down \/ <>[]Hung

\* Shutdown of the host returns, with two exceptions: it waits for a read loop
\* that cannot connect because the server is down, and its context never ends;
\* or a TLS handshake hangs, which keeps the read loop in getConn and, as
\* getConn has the mutex, also Tcp.Shutdown (target.go:142-157, tcp.go:72-75,
\* 140, 160-164; see ShutdownStopsWrite and ShutdownStopsDial).
TcpShutdownEnds ==
    (cpc = "wait" ~> cpc = "returned") \/ <>[](down /\ cpc = "wait") \/ <>[]Hung

\* Once Shutdown has returned, the read loop gets out of Write and exits, even
\* if no connection can be made (tcp.go:167: "will block until success or
\* shutdown").
WriterReleased == cpc = "returned" ~> wpc = "exited"

-----------------------------------------------------------------------------
(***************************************************************************)
(* What comments of the code say and the code does not do.                 *)
(***************************************************************************)

\* "Shutdown is called once to free/close any resources" (target.go:21); fails
\* for a dial that completes after it and for a handshake that failed before.
ResourcesFreed == cpc = "returned" ~> [](\A d \in Dials : sock[d] # "open")

\* Tcp.Shutdown ends a getConn that dials, which "blocks until a new connection
\* is created, timeout or shutdown" (tcp.go:72-73), and returns.
ShutdownStopsDial == cpc = "close" ~> cpc = "returned"

\* Write "will block until success or shutdown" (tcp.go:167): it does not hold
\* up the shutdown of its host.
ShutdownStopsWrite == quit ~> wpc \in {"idle", "exited"}

\* "Any other error closes the connection" (tcp.go:231), nothing else does.
MonitorClosesOnError ==
    [][\A d \in Dials : MonitorClose(d) /\ sock[d] = "open" => d \in gone]_tcpVars

=============================================================================
