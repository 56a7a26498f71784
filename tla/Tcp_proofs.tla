----------------------------- MODULE Tcp_proofs -----------------------------
(***************************************************************************)
(* Proofs of the safety properties of Tcp, for any number of connections,  *)
(* records and failures and any faults.                                    *)
(***************************************************************************)
EXTENDS Tcp, TLAPS

\* getConn waits for the goroutine that dials d.
Awaited(d) == wpc = "dialling" /\ wconn = d

\* getConn holds the mutex while it waits, and what it waits for exists.
Waiting ==
    /\ mutex = "getConn" <=> wpc = "dialling"
    /\ wpc = "dialling" => wconn \in Dials /\ dpc[wconn] # "none"

\* Tcp.Shutdown has signalled when it returns, and it is called when the read
\* loop has exited or the context was done before.
Stopped ==
    /\ shutdown => cpc = "returned"
    /\ cpc \in {"close", "signal", "returned"} => expired \/ wpc = "exited"

\* A goroutine that dials and that nobody waits for was left behind by a getConn
\* that saw the signal; from then on Write neither dials nor closes.
LeftBehind ==
    \A d \in Dials : dpc[d] # "none" /\ ~Awaited(d)
        => shutdown /\ expired /\ wpc \in {"sleep", "top", "idle", "exited"}

\* One goroutine dials at a time; it finds tcp.conn nil and sets it.
OneDials ==
    \A d \in Dials :
        /\ dpc[d] # "none" => \A e \in Dials \ {d} : dpc[e] = "none"
        /\ dpc[d] \in {"dial", "handshake", "hung", "assign", "error"} => conn = nil
        /\ dpc[d] \in {"monitor", "ok"} => conn = d

\* tcp.monitor belongs to tcp.conn and is open, but between the two assignments.
MonitorMatches ==
    conn # nil => dpc[conn] = "monitor" \/ (monitor = conn /\ conn \notin closed)

\* While it is open it has a monitor, or is about to get one.
MonitorAlive ==
    conn # nil => sock[conn] = "none" \/ dpc[conn] = "monitor" \/ mpc[conn] # "none"

\* What dial gives up it has not opened, or it is stray.
GivenUp ==
    \A d \in Dials :
        /\ dpc[d] = "dial" => sock[d] = "none"
        /\ dpc[d] = "error" => sock[d] = "none" \/ d \in stray

\* An open connection is tcp.conn, awaited or stray.
Reachable ==
    \A d \in Dials :
        sock[d] = "open" /\ d \notin stray /\ ~expired => conn = d \/ Awaited(d)

TcpInv ==
    /\ TcpTypeOK /\ Waiting /\ Stopped /\ LeftBehind /\ OneDials
    /\ MonitorMatches /\ MonitorAlive /\ GivenUp /\ NoDoubleClose /\ Reachable

-----------------------------------------------------------------------------

\* The pause grows by half of it and stays below the cap.
LEMMA BackoffRange ==
    ASSUME NEW ms \in RetryBackoffMillis .. MaxRetryBackoffMillis
    PROVE  NextBackoff(ms) \in RetryBackoffMillis .. MaxRetryBackoffMillis
<1>1. ms \div 2 \in Nat
    BY TcpAssumption
<1>2. ms + (ms \div 2) \in Nat /\ ms <= ms + (ms \div 2)
    BY <1>1, TcpAssumption
<1> QED BY <1>2, TcpAssumption DEF NextBackoff

\* Whoever calls close() finds nobody dialling, and tcp.monitor open.
LEMMA CloseEffect ==
    ASSUME TcpInv, TcpClose, wpc = "close" \/ cpc = "close"
    PROVE  /\ \A d \in Dials : dpc[d] = "none"
           /\ panicked' = panicked /\ conn' = nil
           /\ closed' \in SUBSET (Dials \cup {nil}) /\ sock' \in [Dials -> {"none", "open"}]
           /\ \A d \in Dials : sock'[d] = "open" => sock[d] = "open" /\ conn # d
           /\ mutex' = mutex /\ monitor' = monitor /\ shutdown' = shutdown /\ down' = down /\ gone' = gone
           /\ dpc' = dpc /\ mpc' = mpc /\ failures' = failures /\ expired' = expired /\ stray' = stray
<1> USE TcpAssumption DEF TcpInv
<1>1. wpc # "dialling" /\ ~(shutdown /\ wpc \in {"sleep", "top", "idle", "exited"})
    BY DEF TcpClose, Waiting, Stopped
<1>2. \A d \in Dials : dpc[d] = "none"
    BY <1>1 DEF LeftBehind, Awaited
<1>3. conn # nil => conn \in Dials /\ monitor \notin closed
    BY <1>2 DEF TcpTypeOK, MonitorMatches
<1>4. panicked' = panicked
    BY <1>3 DEF TcpClose, TcpTypeOK, NoDoubleClose
<1>5. closed' \in SUBSET (Dials \cup {nil}) /\ sock' \in [Dials -> {"none", "open"}]
    BY DEF TcpClose, TcpTypeOK
<1>6. \A d \in Dials : sock'[d] = "open" => sock[d] = "open" /\ conn # d
    BY DEF TcpClose, TcpTypeOK
<1> QED BY <1>2, <1>4, <1>5, <1>6 DEF TcpClose

LEMMA TcpInvInit == TcpInit => TcpInv
<1> SUFFICES ASSUME TcpInit PROVE TcpInv
    OBVIOUS
<1> USE TcpAssumption DEF TcpInit
<1>1. TcpTypeOK
    <2>1. backoff \in RetryBackoffMillis .. MaxRetryBackoffMillis /\ writes \in 0 .. MaxWrites
        OBVIOUS
    <2>2. failures \in 0 .. MaxFailures
        OBVIOUS
    <2>3. /\ sock \in [Dials -> {"none", "open"}] /\ mpc \in [Dials -> {"none", "wait", "read"}]
          /\ dpc \in [Dials -> {"none", "dial", "handshake", "hung", "assign", "monitor", "ok", "error"}]
        OBVIOUS
    <2> QED BY <2>1, <2>2, <2>3 DEF TcpTypeOK
<1>2. Waiting /\ Stopped /\ LeftBehind /\ OneDials
    BY DEF Waiting, Stopped, LeftBehind, OneDials, Awaited
<1>3. MonitorMatches /\ MonitorAlive /\ GivenUp /\ NoDoubleClose /\ Reachable
    BY DEF MonitorMatches, MonitorAlive, GivenUp, NoDoubleClose, Reachable, Awaited
<1> QED BY <1>1, <1>2, <1>3 DEF TcpInv

LEMMA TcpInvStep == TcpInv /\ [TcpNext]_tcpVars => TcpInv'
<1> SUFFICES ASSUME TcpInv, [TcpNext]_tcpVars PROVE TcpInv'
    OBVIOUS
<1> USE TcpAssumption DEF TcpInv, fieldVars, netVars, writeVars, closeVars, tcpHistory, Fails
<1>1. ASSUME WriteBegin PROVE TcpInv'
    <2> USE DEF WriteBegin
    <2>1. TcpTypeOK'
        BY <1>1 DEF TcpTypeOK
    <2>2. Waiting' /\ Stopped'
        BY <1>1 DEF Waiting, TcpTypeOK, Stopped
    <2>3. LeftBehind'
        BY <1>1 DEF LeftBehind, Awaited, TcpTypeOK, Waiting, Stopped
    <2>4. OneDials'
        BY <1>1 DEF OneDials, TcpTypeOK, LeftBehind, Awaited, Waiting
    <2>5. MonitorMatches' /\ MonitorAlive' /\ NoDoubleClose'
        BY <1>1 DEF MonitorMatches, MonitorAlive, TcpTypeOK, OneDials, NoDoubleClose
    <2>6. GivenUp'
        BY <1>1 DEF GivenUp, TcpTypeOK
    <2>7. Reachable'
        BY <1>1 DEF Reachable, TcpTypeOK, Awaited, OneDials
    <2> QED BY <2>1, <2>2, <2>3, <2>4, <2>5, <2>6, <2>7 DEF TcpInv
<1>2. ASSUME LoopQuit PROVE TcpInv'
    <2> USE DEF LoopQuit
    <2>1. TcpTypeOK'
        BY <1>2 DEF TcpTypeOK
    <2>2. Waiting' /\ Stopped'
        BY <1>2 DEF Waiting, TcpTypeOK, Stopped
    <2>3. LeftBehind'
        BY <1>2 DEF LeftBehind, Awaited, TcpTypeOK, Waiting, Stopped
    <2>4. OneDials'
        BY <1>2 DEF OneDials, TcpTypeOK, LeftBehind, Awaited, Waiting
    <2>5. MonitorMatches' /\ MonitorAlive' /\ NoDoubleClose'
        BY <1>2 DEF MonitorMatches, MonitorAlive, TcpTypeOK, OneDials, NoDoubleClose
    <2>6. GivenUp'
        BY <1>2 DEF GivenUp, TcpTypeOK
    <2>7. Reachable'
        BY <1>2 DEF Reachable, TcpTypeOK, Awaited, OneDials
    <2> QED BY <2>1, <2>2, <2>3, <2>4, <2>5, <2>6, <2>7 DEF TcpInv
<1>3. ASSUME WriteTop PROVE TcpInv'
    <2> USE DEF WriteTop
    <2>1. TcpTypeOK'
        BY <1>3 DEF TcpTypeOK
    <2>2. Waiting' /\ Stopped'
        BY <1>3 DEF Waiting, TcpTypeOK, Stopped
    <2>3. LeftBehind'
        BY <1>3 DEF LeftBehind, Awaited, TcpTypeOK, Waiting, Stopped
    <2>4. OneDials'
        BY <1>3 DEF OneDials, TcpTypeOK, LeftBehind, Awaited, Waiting
    <2>5. MonitorMatches' /\ MonitorAlive' /\ NoDoubleClose'
        BY <1>3 DEF MonitorMatches, MonitorAlive, TcpTypeOK, OneDials, NoDoubleClose
    <2>6. GivenUp'
        BY <1>3 DEF GivenUp, TcpTypeOK
    <2>7. Reachable'
        BY <1>3 DEF Reachable, TcpTypeOK, Awaited, OneDials
    <2> QED BY <2>1, <2>2, <2>3, <2>4, <2>5, <2>6, <2>7 DEF TcpInv
<1>4. ASSUME GetConn PROVE TcpInv'
    <2> USE DEF GetConn
    <2>1. TcpTypeOK'
        BY <1>4 DEF TcpTypeOK
    <2>2. Waiting' /\ Stopped'
        BY <1>4 DEF Waiting, TcpTypeOK, Stopped
    <2>3. LeftBehind'
        BY <1>4 DEF LeftBehind, Awaited, TcpTypeOK, Waiting, Stopped
    <2>4. OneDials'
        BY <1>4 DEF OneDials, TcpTypeOK, LeftBehind, Awaited, Waiting
    <2>5. MonitorMatches' /\ MonitorAlive' /\ NoDoubleClose'
        BY <1>4 DEF MonitorMatches, MonitorAlive, TcpTypeOK, OneDials, NoDoubleClose
    <2>6. GivenUp'
        BY <1>4 DEF GivenUp, TcpTypeOK, Free
    <2>7. Reachable'
        BY <1>4 DEF Reachable, TcpTypeOK, Awaited, OneDials
    <2> QED BY <2>1, <2>2, <2>3, <2>4, <2>5, <2>6, <2>7 DEF TcpInv
<1>5. ASSUME GetConnResult PROVE TcpInv'
    <2> USE DEF GetConnResult
    <2>1. TcpTypeOK'
        BY <1>5 DEF TcpTypeOK
    <2>2. Waiting' /\ Stopped'
        BY <1>5 DEF Waiting, TcpTypeOK, Stopped
    <2>3. LeftBehind'
        BY <1>5 DEF LeftBehind, Awaited, TcpTypeOK, Waiting, Stopped
    <2>4. OneDials'
        BY <1>5 DEF OneDials, TcpTypeOK, LeftBehind, Awaited, Waiting
    <2>5. MonitorMatches' /\ MonitorAlive' /\ NoDoubleClose'
        BY <1>5 DEF MonitorMatches, MonitorAlive, TcpTypeOK, OneDials, NoDoubleClose
    <2>6. GivenUp'
        BY <1>5 DEF GivenUp, TcpTypeOK
    <2>7. Reachable'
        <3>1. wconn \in Dials /\ (dpc[wconn] = "ok" => conn = wconn)
            BY <1>5 DEF Waiting, OneDials
        <3>2. dpc[wconn] = "error" => sock[wconn] = "none" \/ wconn \in stray
            BY <3>1 DEF GivenUp
        <3> QED BY <1>5, <3>1, <3>2 DEF Reachable, Awaited, TcpTypeOK
    <2> QED BY <2>1, <2>2, <2>3, <2>4, <2>5, <2>6, <2>7 DEF TcpInv
<1>6. ASSUME GetConnShutdown PROVE TcpInv'
    <2> USE DEF GetConnShutdown
    <2>1. TcpTypeOK'
        BY <1>6 DEF TcpTypeOK
    <2>2. Waiting' /\ Stopped'
        BY <1>6 DEF Waiting, TcpTypeOK, Stopped
    <2>3. LeftBehind'
        BY <1>6 DEF LeftBehind, Awaited, TcpTypeOK, Waiting, Stopped
    <2>4. OneDials'
        BY <1>6 DEF OneDials, TcpTypeOK, LeftBehind, Awaited, Waiting
    <2>5. MonitorMatches' /\ MonitorAlive' /\ NoDoubleClose'
        BY <1>6 DEF MonitorMatches, MonitorAlive, TcpTypeOK, OneDials, NoDoubleClose
    <2>6. GivenUp'
        BY <1>6 DEF GivenUp, TcpTypeOK
    <2>7. Reachable'
        <3>1. expired /\ expired' = expired
            BY <1>6 DEF Stopped
        <3> QED BY <3>1 DEF Reachable, Awaited
    <2> QED BY <2>1, <2>2, <2>3, <2>4, <2>5, <2>6, <2>7 DEF TcpInv
<1>7. ASSUME ConnWriteOK PROVE TcpInv'
    <2> USE DEF ConnWriteOK
    <2>1. TcpTypeOK'
        BY <1>7 DEF TcpTypeOK
    <2>2. Waiting' /\ Stopped'
        BY <1>7 DEF Waiting, TcpTypeOK, Stopped
    <2>3. LeftBehind'
        BY <1>7 DEF LeftBehind, Awaited, TcpTypeOK, Waiting, Stopped
    <2>4. OneDials'
        BY <1>7 DEF OneDials, TcpTypeOK, LeftBehind, Awaited, Waiting
    <2>5. MonitorMatches' /\ MonitorAlive' /\ NoDoubleClose'
        BY <1>7 DEF MonitorMatches, MonitorAlive, TcpTypeOK, OneDials, NoDoubleClose
    <2>6. GivenUp'
        BY <1>7 DEF GivenUp, TcpTypeOK
    <2>7. Reachable'
        BY <1>7 DEF Reachable, TcpTypeOK, Awaited, OneDials
    <2> QED BY <2>1, <2>2, <2>3, <2>4, <2>5, <2>6, <2>7 DEF TcpInv
<1>8. ASSUME ConnWriteErr PROVE TcpInv'
    <2> USE DEF ConnWriteErr
    <2>1. TcpTypeOK'
        <3>1. failures' \in 0 .. MaxFailures
            BY <1>8 DEF TcpTypeOK
        <3> QED BY <1>8, <3>1 DEF TcpTypeOK
    <2>2. Waiting' /\ Stopped'
        BY <1>8 DEF Waiting, TcpTypeOK, Stopped
    <2>3. LeftBehind'
        BY <1>8 DEF LeftBehind, Awaited, TcpTypeOK, Waiting, Stopped
    <2>4. OneDials'
        BY <1>8 DEF OneDials, TcpTypeOK, LeftBehind, Awaited, Waiting
    <2>5. MonitorMatches' /\ MonitorAlive' /\ NoDoubleClose'
        BY <1>8 DEF MonitorMatches, MonitorAlive, TcpTypeOK, OneDials, NoDoubleClose
    <2>6. GivenUp'
        BY <1>8 DEF GivenUp, TcpTypeOK
    <2>7. Reachable'
        BY <1>8 DEF Reachable, TcpTypeOK, Awaited, OneDials
    <2> QED BY <2>1, <2>2, <2>3, <2>4, <2>5, <2>6, <2>7 DEF TcpInv
<1>9. ASSUME WriteClose PROVE TcpInv'
    <2> USE DEF WriteClose
    <2>1. /\ \A d \in Dials : dpc[d] = "none"
          /\ panicked' = panicked /\ conn' = nil
          /\ closed' \in SUBSET (Dials \cup {nil}) /\ sock' \in [Dials -> {"none", "open"}]
          /\ \A d \in Dials : sock'[d] = "open" => sock[d] = "open" /\ conn # d
          /\ mutex' = mutex /\ monitor' = monitor /\ shutdown' = shutdown /\ down' = down /\ gone' = gone
          /\ dpc' = dpc /\ mpc' = mpc /\ failures' = failures /\ expired' = expired /\ stray' = stray
        BY <1>9, CloseEffect
    <2>2. wpc = "close" /\ wpc' = "sleep" /\ UNCHANGED <<wconn, backoff, writes, cpc, quit>>
        BY <1>9
    <2>3. TcpTypeOK'
        BY <2>1, <2>2 DEF TcpTypeOK
    <2>4. Waiting'
        BY <2>1, <2>2 DEF Waiting
    <2>5. Stopped'
        BY <2>1, <2>2 DEF Stopped
    <2>6. LeftBehind'
        BY <2>1 DEF LeftBehind
    <2>7. OneDials'
        BY <2>1 DEF OneDials
    <2>8. MonitorMatches' /\ MonitorAlive'
        BY <2>1 DEF MonitorMatches, MonitorAlive
    <2>9. NoDoubleClose'
        BY <2>1 DEF NoDoubleClose
    <2>10. GivenUp'
        BY <2>1 DEF GivenUp
    <2>11. Reachable'
        BY <2>1, <2>2 DEF Reachable, Awaited
    <2> QED BY <2>3, <2>4, <2>5, <2>6, <2>7, <2>8, <2>9, <2>10, <2>11 DEF TcpInv
<1>10. ASSUME Sleep PROVE TcpInv'
    <2> USE DEF Sleep
    <2>1. TcpTypeOK'
        BY <1>10, BackoffRange DEF TcpTypeOK
    <2>2. Waiting' /\ Stopped'
        BY <1>10 DEF Waiting, TcpTypeOK, Stopped
    <2>3. LeftBehind'
        BY <1>10 DEF LeftBehind, Awaited, TcpTypeOK, Waiting, Stopped
    <2>4. OneDials'
        BY <1>10 DEF OneDials, TcpTypeOK, LeftBehind, Awaited, Waiting
    <2>5. MonitorMatches' /\ MonitorAlive' /\ NoDoubleClose'
        BY <1>10 DEF MonitorMatches, MonitorAlive, TcpTypeOK, OneDials, NoDoubleClose
    <2>6. GivenUp'
        BY <1>10 DEF GivenUp, TcpTypeOK
    <2>7. Reachable'
        BY <1>10 DEF Reachable, TcpTypeOK, Awaited, OneDials
    <2> QED BY <2>1, <2>2, <2>3, <2>4, <2>5, <2>6, <2>7 DEF TcpInv
<1>11. ASSUME NEW d \in Dials, DialConnect(d) PROVE TcpInv'
    <2> USE DEF DialConnect
    <2>1. TcpTypeOK'
        BY <1>11 DEF TcpTypeOK
    <2>2. Waiting' /\ Stopped'
        BY <1>11 DEF Waiting, TcpTypeOK, Stopped
    <2>3. LeftBehind'
        BY <1>11 DEF LeftBehind, Awaited, TcpTypeOK, Waiting, Stopped
    <2>4. OneDials'
        BY <1>11 DEF OneDials, TcpTypeOK, LeftBehind, Awaited, Waiting
    <2>5. MonitorMatches' /\ MonitorAlive' /\ NoDoubleClose'
        BY <1>11 DEF MonitorMatches, MonitorAlive, TcpTypeOK, OneDials, NoDoubleClose
    <2>6. GivenUp'
        BY <1>11 DEF GivenUp, TcpTypeOK
    <2>7. Reachable'
        <3>1. expired \/ Awaited(d)
            BY <1>11 DEF LeftBehind
        <3> QED BY <1>11, <3>1 DEF Reachable, TcpTypeOK, Awaited
    <2> QED BY <2>1, <2>2, <2>3, <2>4, <2>5, <2>6, <2>7 DEF TcpInv
<1>12. ASSUME NEW d \in Dials, DialFail(d) PROVE TcpInv'
    <2> USE DEF DialFail
    <2>1. TcpTypeOK'
        <3>1. failures' \in 0 .. MaxFailures
            BY <1>12 DEF TcpTypeOK
        <3> QED BY <1>12, <3>1 DEF TcpTypeOK
    <2>2. Waiting' /\ Stopped'
        BY <1>12 DEF Waiting, TcpTypeOK, Stopped
    <2>3. LeftBehind'
        BY <1>12 DEF LeftBehind, Awaited, TcpTypeOK, Waiting, Stopped
    <2>4. OneDials'
        BY <1>12 DEF OneDials, TcpTypeOK, LeftBehind, Awaited, Waiting
    <2>5. MonitorMatches' /\ MonitorAlive' /\ NoDoubleClose'
        BY <1>12 DEF MonitorMatches, MonitorAlive, TcpTypeOK, OneDials, NoDoubleClose
    <2>6. GivenUp'
        BY <1>12 DEF GivenUp, TcpTypeOK
    <2>7. Reachable'
        BY <1>12 DEF Reachable, TcpTypeOK, Awaited, OneDials
    <2> QED BY <2>1, <2>2, <2>3, <2>4, <2>5, <2>6, <2>7 DEF TcpInv
<1>13. ASSUME NEW d \in Dials, HandshakeOK(d) PROVE TcpInv'
    <2> USE DEF HandshakeOK
    <2>1. TcpTypeOK'
        BY <1>13 DEF TcpTypeOK
    <2>2. Waiting' /\ Stopped'
        BY <1>13 DEF Waiting, TcpTypeOK, Stopped
    <2>3. LeftBehind'
        BY <1>13 DEF LeftBehind, Awaited, TcpTypeOK, Waiting, Stopped
    <2>4. OneDials'
        BY <1>13 DEF OneDials, TcpTypeOK, LeftBehind, Awaited, Waiting
    <2>5. MonitorMatches' /\ MonitorAlive' /\ NoDoubleClose'
        BY <1>13 DEF MonitorMatches, MonitorAlive, TcpTypeOK, OneDials, NoDoubleClose
    <2>6. GivenUp'
        BY <1>13 DEF GivenUp, TcpTypeOK
    <2>7. Reachable'
        BY <1>13 DEF Reachable, TcpTypeOK, Awaited, OneDials
    <2> QED BY <2>1, <2>2, <2>3, <2>4, <2>5, <2>6, <2>7 DEF TcpInv
<1>14. ASSUME NEW d \in Dials, HandshakeFail(d) PROVE TcpInv'
    <2> USE DEF HandshakeFail
    <2>1. TcpTypeOK'
        <3>1. failures' \in 0 .. MaxFailures
            BY <1>14 DEF TcpTypeOK
        <3> QED BY <1>14, <3>1 DEF TcpTypeOK
    <2>2. Waiting' /\ Stopped'
        BY <1>14 DEF Waiting, TcpTypeOK, Stopped
    <2>3. LeftBehind'
        BY <1>14 DEF LeftBehind, Awaited, TcpTypeOK, Waiting, Stopped
    <2>4. OneDials'
        BY <1>14 DEF OneDials, TcpTypeOK, LeftBehind, Awaited, Waiting
    <2>5. MonitorMatches' /\ MonitorAlive' /\ NoDoubleClose'
        BY <1>14 DEF MonitorMatches, MonitorAlive, TcpTypeOK, OneDials, NoDoubleClose
    <2>6. GivenUp'
        BY <1>14 DEF GivenUp, TcpTypeOK
    <2>7. Reachable'
        BY <1>14 DEF Reachable, TcpTypeOK, Awaited, OneDials
    <2> QED BY <2>1, <2>2, <2>3, <2>4, <2>5, <2>6, <2>7 DEF TcpInv
<1>15. ASSUME NEW d \in Dials, HandshakeHang(d) PROVE TcpInv'
    <2> USE DEF HandshakeHang
    <2>1. TcpTypeOK'
        BY <1>15 DEF TcpTypeOK
    <2>2. Waiting' /\ Stopped'
        BY <1>15 DEF Waiting, TcpTypeOK, Stopped
    <2>3. LeftBehind'
        BY <1>15 DEF LeftBehind, Awaited, TcpTypeOK, Waiting, Stopped
    <2>4. OneDials'
        BY <1>15 DEF OneDials, TcpTypeOK, LeftBehind, Awaited, Waiting
    <2>5. MonitorMatches' /\ MonitorAlive' /\ NoDoubleClose'
        BY <1>15 DEF MonitorMatches, MonitorAlive, TcpTypeOK, OneDials, NoDoubleClose
    <2>6. GivenUp'
        BY <1>15 DEF GivenUp, TcpTypeOK
    <2>7. Reachable'
        BY <1>15 DEF Reachable, TcpTypeOK, Awaited, OneDials
    <2> QED BY <2>1, <2>2, <2>3, <2>4, <2>5, <2>6, <2>7 DEF TcpInv
<1>16. ASSUME NEW d \in Dials, AssignConn(d) PROVE TcpInv'
    <2> USE DEF AssignConn
    <2>1. TcpTypeOK'
        BY <1>16 DEF TcpTypeOK
    <2>2. Waiting' /\ Stopped'
        BY <1>16 DEF Waiting, TcpTypeOK, Stopped
    <2>3. LeftBehind'
        BY <1>16 DEF LeftBehind, Awaited, TcpTypeOK, Waiting, Stopped
    <2>4. OneDials'
        BY <1>16 DEF OneDials, TcpTypeOK, LeftBehind, Awaited, Waiting
    <2>5. MonitorMatches' /\ MonitorAlive' /\ NoDoubleClose'
        BY <1>16 DEF MonitorMatches, MonitorAlive, TcpTypeOK, OneDials, NoDoubleClose
    <2>6. GivenUp'
        BY <1>16 DEF GivenUp, TcpTypeOK
    <2>7. Reachable'
        BY <1>16 DEF Reachable, TcpTypeOK, Awaited, OneDials
    <2> QED BY <2>1, <2>2, <2>3, <2>4, <2>5, <2>6, <2>7 DEF TcpInv
<1>17. ASSUME NEW d \in Dials, AssignMonitor(d) PROVE TcpInv'
    <2> USE DEF AssignMonitor
    <2>1. TcpTypeOK'
        BY <1>17 DEF TcpTypeOK
    <2>2. Waiting' /\ Stopped'
        BY <1>17 DEF Waiting, TcpTypeOK, Stopped
    <2>3. LeftBehind'
        BY <1>17 DEF LeftBehind, Awaited, TcpTypeOK, Waiting, Stopped
    <2>4. OneDials'
        BY <1>17 DEF OneDials, TcpTypeOK, LeftBehind, Awaited, Waiting
    <2>5. MonitorMatches' /\ MonitorAlive' /\ NoDoubleClose'
        BY <1>17 DEF MonitorMatches, MonitorAlive, TcpTypeOK, OneDials, NoDoubleClose
    <2>6. GivenUp'
        BY <1>17 DEF GivenUp, TcpTypeOK
    <2>7. Reachable'
        BY <1>17 DEF Reachable, TcpTypeOK, Awaited, OneDials
    <2> QED BY <2>1, <2>2, <2>3, <2>4, <2>5, <2>6, <2>7 DEF TcpInv
<1>18. ASSUME NEW d \in Dials, MonitorSelect(d) PROVE TcpInv'
    <2> USE DEF MonitorSelect
    <2>1. TcpTypeOK'
        BY <1>18 DEF TcpTypeOK
    <2>2. Waiting' /\ Stopped'
        BY <1>18 DEF Waiting, TcpTypeOK, Stopped
    <2>3. LeftBehind'
        BY <1>18 DEF LeftBehind, Awaited, TcpTypeOK, Waiting, Stopped
    <2>4. OneDials'
        BY <1>18 DEF OneDials, TcpTypeOK, LeftBehind, Awaited, Waiting
    <2>5. MonitorMatches' /\ MonitorAlive' /\ NoDoubleClose'
        BY <1>18 DEF MonitorMatches, MonitorAlive, TcpTypeOK, OneDials, NoDoubleClose
    <2>6. GivenUp'
        BY <1>18 DEF GivenUp, TcpTypeOK
    <2>7. Reachable'
        BY <1>18 DEF Reachable, TcpTypeOK, Awaited, OneDials
    <2> QED BY <2>1, <2>2, <2>3, <2>4, <2>5, <2>6, <2>7 DEF TcpInv
<1>19. ASSUME NEW d \in Dials, MonitorContinue(d) PROVE TcpInv'
    <2> USE DEF MonitorContinue
    <2>1. TcpTypeOK'
        BY <1>19 DEF TcpTypeOK
    <2>2. Waiting' /\ Stopped'
        BY <1>19 DEF Waiting, TcpTypeOK, Stopped
    <2>3. LeftBehind'
        BY <1>19 DEF LeftBehind, Awaited, TcpTypeOK, Waiting, Stopped
    <2>4. OneDials'
        BY <1>19 DEF OneDials, TcpTypeOK, LeftBehind, Awaited, Waiting
    <2>5. MonitorMatches' /\ MonitorAlive' /\ NoDoubleClose'
        BY <1>19 DEF MonitorMatches, MonitorAlive, TcpTypeOK, OneDials, NoDoubleClose
    <2>6. GivenUp'
        BY <1>19 DEF GivenUp, TcpTypeOK
    <2>7. Reachable'
        BY <1>19 DEF Reachable, TcpTypeOK, Awaited, OneDials
    <2> QED BY <2>1, <2>2, <2>3, <2>4, <2>5, <2>6, <2>7 DEF TcpInv
<1>20. ASSUME NEW d \in Dials, MonitorClose(d) PROVE TcpInv'
    <2> USE DEF MonitorClose
    <2>1. TcpTypeOK'
        BY <1>20 DEF TcpTypeOK
    <2>2. Waiting' /\ Stopped'
        BY <1>20 DEF Waiting, TcpTypeOK, Stopped
    <2>3. LeftBehind'
        BY <1>20 DEF LeftBehind, Awaited, TcpTypeOK, Waiting, Stopped
    <2>4. OneDials'
        BY <1>20 DEF OneDials, TcpTypeOK, LeftBehind, Awaited, Waiting
    <2>5. MonitorMatches' /\ MonitorAlive' /\ NoDoubleClose'
        BY <1>20 DEF MonitorMatches, MonitorAlive, TcpTypeOK, OneDials, NoDoubleClose
    <2>6. GivenUp'
        BY <1>20 DEF GivenUp, TcpTypeOK
    <2>7. Reachable'
        BY <1>20 DEF Reachable, TcpTypeOK, Awaited, OneDials
    <2> QED BY <2>1, <2>2, <2>3, <2>4, <2>5, <2>6, <2>7 DEF TcpInv
<1>21. ASSUME NEW d \in Dials, PeerClose(d) PROVE TcpInv'
    <2> USE DEF PeerClose
    <2>1. TcpTypeOK'
        <3>1. failures' \in 0 .. MaxFailures
            BY <1>21 DEF TcpTypeOK
        <3> QED BY <1>21, <3>1 DEF TcpTypeOK
    <2>2. Waiting' /\ Stopped'
        BY <1>21 DEF Waiting, TcpTypeOK, Stopped
    <2>3. LeftBehind'
        BY <1>21 DEF LeftBehind, Awaited, TcpTypeOK, Waiting, Stopped
    <2>4. OneDials'
        BY <1>21 DEF OneDials, TcpTypeOK, LeftBehind, Awaited, Waiting
    <2>5. MonitorMatches' /\ MonitorAlive' /\ NoDoubleClose'
        BY <1>21 DEF MonitorMatches, MonitorAlive, TcpTypeOK, OneDials, NoDoubleClose
    <2>6. GivenUp'
        BY <1>21 DEF GivenUp, TcpTypeOK
    <2>7. Reachable'
        BY <1>21 DEF Reachable, TcpTypeOK, Awaited, OneDials
    <2> QED BY <2>1, <2>2, <2>3, <2>4, <2>5, <2>6, <2>7 DEF TcpInv
<1>22. ASSUME ServerDown PROVE TcpInv'
    <2> USE DEF ServerDown
    <2>1. TcpTypeOK'
        BY <1>22 DEF TcpTypeOK
    <2>2. Waiting' /\ Stopped'
        BY <1>22 DEF Waiting, TcpTypeOK, Stopped
    <2>3. LeftBehind'
        BY <1>22 DEF LeftBehind, Awaited, TcpTypeOK, Waiting, Stopped
    <2>4. OneDials'
        BY <1>22 DEF OneDials, TcpTypeOK, LeftBehind, Awaited, Waiting
    <2>5. MonitorMatches' /\ MonitorAlive' /\ NoDoubleClose'
        BY <1>22 DEF MonitorMatches, MonitorAlive, TcpTypeOK, OneDials, NoDoubleClose
    <2>6. GivenUp'
        BY <1>22 DEF GivenUp, TcpTypeOK
    <2>7. Reachable'
        BY <1>22 DEF Reachable, TcpTypeOK, Awaited, OneDials
    <2> QED BY <2>1, <2>2, <2>3, <2>4, <2>5, <2>6, <2>7 DEF TcpInv
<1>23. ASSUME HostShutdown PROVE TcpInv'
    <2> USE DEF HostShutdown
    <2>1. TcpTypeOK'
        BY <1>23 DEF TcpTypeOK
    <2>2. Waiting' /\ Stopped'
        BY <1>23 DEF Waiting, TcpTypeOK, Stopped
    <2>3. LeftBehind'
        BY <1>23 DEF LeftBehind, Awaited, TcpTypeOK, Waiting, Stopped
    <2>4. OneDials'
        BY <1>23 DEF OneDials, TcpTypeOK, LeftBehind, Awaited, Waiting
    <2>5. MonitorMatches' /\ MonitorAlive' /\ NoDoubleClose'
        BY <1>23 DEF MonitorMatches, MonitorAlive, TcpTypeOK, OneDials, NoDoubleClose
    <2>6. GivenUp'
        BY <1>23 DEF GivenUp, TcpTypeOK
    <2>7. Reachable'
        BY <1>23 DEF Reachable, TcpTypeOK, Awaited, OneDials
    <2> QED BY <2>1, <2>2, <2>3, <2>4, <2>5, <2>6, <2>7 DEF TcpInv
<1>24. ASSUME HostShutdownWait PROVE TcpInv'
    <2> USE DEF HostShutdownWait
    <2>1. TcpTypeOK'
        <3>1. expired' \in BOOLEAN
            BY <1>24 DEF TcpTypeOK
        <3> QED BY <1>24, <3>1 DEF TcpTypeOK
    <2>2. Waiting' /\ Stopped'
        BY <1>24 DEF Waiting, TcpTypeOK, Stopped
    <2>3. LeftBehind'
        BY <1>24 DEF LeftBehind, Awaited, TcpTypeOK, Waiting, Stopped
    <2>4. OneDials'
        BY <1>24 DEF OneDials, TcpTypeOK, LeftBehind, Awaited, Waiting
    <2>5. MonitorMatches' /\ MonitorAlive' /\ NoDoubleClose'
        BY <1>24 DEF MonitorMatches, MonitorAlive, TcpTypeOK, OneDials, NoDoubleClose
    <2>6. GivenUp'
        BY <1>24 DEF GivenUp, TcpTypeOK
    <2>7. Reachable'
        BY <1>24 DEF Reachable, TcpTypeOK, Awaited, OneDials
    <2> QED BY <2>1, <2>2, <2>3, <2>4, <2>5, <2>6, <2>7 DEF TcpInv
<1>25. ASSUME ShutdownClose PROVE TcpInv'
    <2> USE DEF ShutdownClose
    <2>1. /\ \A d \in Dials : dpc[d] = "none"
          /\ panicked' = panicked /\ conn' = nil
          /\ closed' \in SUBSET (Dials \cup {nil}) /\ sock' \in [Dials -> {"none", "open"}]
          /\ \A d \in Dials : sock'[d] = "open" => sock[d] = "open" /\ conn # d
          /\ mutex' = mutex /\ monitor' = monitor /\ shutdown' = shutdown /\ down' = down /\ gone' = gone
          /\ dpc' = dpc /\ mpc' = mpc /\ failures' = failures /\ expired' = expired /\ stray' = stray
        BY <1>25, CloseEffect
    <2>2. cpc = "close" /\ cpc' = "signal" /\ UNCHANGED <<wpc, wconn, backoff, writes, quit>>
        BY <1>25
    <2>3. TcpTypeOK'
        BY <2>1, <2>2 DEF TcpTypeOK
    <2>4. Waiting'
        BY <2>1, <2>2 DEF Waiting
    <2>5. Stopped'
        BY <2>1, <2>2 DEF Stopped
    <2>6. LeftBehind'
        BY <2>1 DEF LeftBehind
    <2>7. OneDials'
        BY <2>1 DEF OneDials
    <2>8. MonitorMatches' /\ MonitorAlive'
        BY <2>1 DEF MonitorMatches, MonitorAlive
    <2>9. NoDoubleClose'
        BY <2>1 DEF NoDoubleClose
    <2>10. GivenUp'
        BY <2>1 DEF GivenUp
    <2>11. Reachable'
        BY <2>1, <2>2 DEF Reachable, Awaited
    <2> QED BY <2>3, <2>4, <2>5, <2>6, <2>7, <2>8, <2>9, <2>10, <2>11 DEF TcpInv
<1>26. ASSUME ShutdownSignal PROVE TcpInv'
    <2> USE DEF ShutdownSignal
    <2>1. TcpTypeOK'
        BY <1>26 DEF TcpTypeOK
    <2>2. Waiting' /\ Stopped'
        BY <1>26 DEF Waiting, TcpTypeOK, Stopped
    <2>3. LeftBehind'
        BY <1>26 DEF LeftBehind, Awaited, TcpTypeOK, Waiting, Stopped
    <2>4. OneDials'
        BY <1>26 DEF OneDials, TcpTypeOK, LeftBehind, Awaited, Waiting
    <2>5. MonitorMatches' /\ MonitorAlive' /\ NoDoubleClose'
        BY <1>26 DEF MonitorMatches, MonitorAlive, TcpTypeOK, OneDials, NoDoubleClose
    <2>6. GivenUp'
        BY <1>26 DEF GivenUp, TcpTypeOK
    <2>7. Reachable'
        BY <1>26 DEF Reachable, TcpTypeOK, Awaited, OneDials
    <2> QED BY <2>1, <2>2, <2>3, <2>4, <2>5, <2>6, <2>7 DEF TcpInv
<1>27. CASE UNCHANGED tcpVars
    BY <1>27 DEF tcpVars, TcpTypeOK, Waiting, Stopped, LeftBehind, OneDials, MonitorMatches, MonitorAlive,
        GivenUp, NoDoubleClose, Reachable, Awaited
<1> HIDE DEF TcpInv
<1> QED BY <1>1, <1>2, <1>3, <1>4, <1>5, <1>6, <1>7, <1>8, <1>9, <1>10, <1>11, <1>12, <1>13, <1>14, <1>15, <1>16, <1>17, <1>18, <1>19, <1>20, <1>21, <1>22, <1>23, <1>24, <1>25, <1>26, <1>27 DEF TcpNext, WriteStep, DialStep, MonitorStep, ShutdownStep

LEMMA TcpInvariant == TcpSpec => []TcpInv
BY TcpInvInit, TcpInvStep, PTL DEF TcpSpec

-----------------------------------------------------------------------------

\* Every variable of the target keeps its type, and the pause between two tries
\* stays between RetryBackoffMillis and MaxRetryBackoffMillis (tcp.go:242-253).
THEOREM TcpTypeCorrect == TcpSpec => []TcpTypeOK
<1>1. TcpInv => TcpTypeOK
    BY DEF TcpInv
<1> QED BY <1>1, TcpInvariant, PTL

\* No channel of a monitor is closed twice, although the goroutine that dials
\* assigns tcp.conn and tcp.monitor without the mutex and may go on after
\* getConn has left it behind (tcp.go:98-99, 151-152).
THEOREM MonitorClosedOnce == TcpSpec => []NoDoubleClose
<1>1. TcpInv => NoDoubleClose
    BY DEF TcpInv
<1> QED BY <1>1, TcpInvariant, PTL

\* As long as the context of Shutdown does not end before the read loop, an open
\* connection is tcp.conn and has a monitor or is about to get one, or getConn
\* waits for it, or it is one that dial gave up after a failed handshake, which
\* the code leaves open (tcp.go:98-100, 131-142, 146-157, 199, 232).
THEOREM ConnectionsHaveOwner == TcpSpec => []ConnectionsOwned
<1>1. TcpInv => ConnectionsOwned
    <2> SUFFICES ASSUME TcpInv, NEW d \in Dials, sock[d] = "open", ~expired, d \notin stray,
                        ~Awaited(d)
                 PROVE  conn = d /\ (dpc[d] = "monitor" \/ mpc[d] # "none")
        BY DEF ConnectionsOwned, Awaited
    <2>1. conn = d /\ conn # nil
        BY TcpAssumption DEF TcpInv, Reachable
    <2> QED BY <2>1 DEF TcpInv, MonitorAlive
<1> QED BY <1>1, TcpInvariant, PTL

=============================================================================
