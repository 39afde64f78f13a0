--------------------------------- MODULE RPC ---------------------------------
(***************************************************************************)
(* One GeeRPC connection (src/GeeRPC/client.go, server.go): a Client whose  *)
(* callers run Call concurrently, its receive goroutine, and the server's  *)
(* serveCodec loop with one handleRequest goroutine, and the goroutine it  *)
(* starts for svc.call, per request.                                       *)
(*                                                                         *)
(* client.mu and the sending mutexes make each critical section one step.  *)
(* The connection is two streams of messages.  The client writes a         *)
(* request's header and body with one cc.Write under client.sending, and a *)
(* server reply is one cc.Write under serveCodec's sending.  A header is   *)
(* decoded only from a header: the codec reads the next message, and a     *)
(* body read as a header fails (the gob codec the code names is not in the *)
(* repository).  Arguments and replies are abstracted to the caller the    *)
(* request came from (`from`), which lets a reply be traced to its request.*)
(***************************************************************************)
EXTENDS Naturals, Sequences, FiniteSets, Functions, TLC

CONSTANTS
    Callers,        \* goroutines calling client.Call
    Methods,        \* "Service.Method" names the callers use
    Known,          \* the names findService resolves
    MaxSeq,         \* bound on the calls registered (client.seq)
    Deadline,       \* the callers whose ctx carries a deadline
    HandleTimeout,  \* TRUE: opt.HandleTimeout # 0
    ReadAhead,      \* TRUE: requests can reach the server before it has
                    \* decoded the options
    Nobody          \* no goroutine: a free mutex, a call not found

Seqs == 1 .. MaxSeq + 1

\* findService (server.go 212-233): the method names a registered service
\* and one of its methods.
FindService(method) == method \in Known

\* What svc.call returns.
CallResults == {"ok", "err"}

VARIABLES
    seq, closing, shutdown,  \* Client fields
    pending,    \* client.pending: seq -> the call (its call.Seq and its caller)
    sending,    \* client.sending: the caller holding it, or Nobody
    cpc,        \* cpc[c]: where caller c is in Call
    cseq,       \* cseq[c]: call.Seq of c's current call, naming that *Call
    cm,         \* cm[c]: the method c's current call names
    cres,       \* cres[c]: what c's last Call returned
    done,       \* done[i]: how often the call of call.Seq i was sent on Done
    callOut,    \* callOut[i]: its call.Error / call.Reply, and their origin
    rpc,        \* the receive goroutine: "read", "body", "term", "dead"
    rhdr,       \* the header it read last
    rcall,      \* the call removeCall found for it, or Nobody
    up, down,   \* client-to-server and server-to-client streams
    srv,        \* ServeConn: "opt"; serveCodec: "read", "wait" (wg.Wait), "closed"
    hs,         \* hs[s]: handleRequest of the request with seq s
    gs,         \* gs[s]: the goroutine running svc.call for it
    hres,       \* hres[s]: what svc.call returned
    hfrom,      \* hfrom[s]: the caller the request came from
    answers     \* answers[s]: responses the server wrote for seq s

clientVars == <<seq, pending, closing, shutdown, sending, cpc, cseq, cm, cres, done, callOut>>
recvVars == <<rpc, rhdr, rcall>>
serverVars == <<srv, hs, gs, hres, hfrom, answers>>
vars == <<clientVars, recvVars, up, down, serverVars>>

Opt == [t : {"opt"}]
Header == [t : {"header"}, seq : Seqs, method : Methods, from : Callers]
Body == [t : {"body"}, seq : Seqs, from : Callers]
Kinds == {"reply", "error", "timeout", "invalid"}
Response == [seq : Seqs, kind : Kinds, from : Callers]
\* A *Call as client.pending holds it.
CallRef == [id : Seqs, by : Callers]
NoCall == [id |-> 0, by |-> Nobody]

NoHeader == [seq |-> 1, kind |-> "reply", from |-> CHOOSE c \in Callers : TRUE]

Init ==
    /\ seq = 1
    /\ pending = [s \in {} |-> NoCall]
    /\ closing = FALSE /\ shutdown = FALSE
    /\ sending = Nobody
    /\ cpc = [c \in Callers |-> "idle"]
    /\ cseq = [c \in Callers |-> 0]
    /\ cm = [c \in Callers |-> CHOOSE m \in Methods : TRUE]
    /\ cres = [c \in Callers |-> "none"]
    /\ done = [s \in Seqs |-> 0]
    /\ callOut = [s \in Seqs |-> [kind |-> "none", from |-> Nobody]]
    /\ rpc = "read" /\ rhdr = NoHeader /\ rcall = NoCall
    /\ up = <<[t |-> "opt"]>> /\ down = <<>>
    /\ srv = "opt"
    /\ hs = [s \in Seqs |-> "idle"]
    /\ gs = [s \in Seqs |-> "idle"]
    /\ hres = [s \in Seqs |-> "ok"]
    /\ hfrom = [s \in Seqs |-> CHOOSE c \in Callers : TRUE]
    /\ answers = [s \in Seqs |-> 0]

\* removeCall (lines 86-92) as the map it leaves.
Without(s) == Restrict(pending, DOMAIN pending \ {s})

\* call.Error, call.Reply = out; call.done(), for the calls with ids in I.
Complete(I, out) ==
    /\ done' = [i \in Seqs |-> IF i \in I THEN done[i] + 1 ELSE done[i]]
    /\ callOut' = [i \in Seqs |-> IF i \in I THEN out ELSE callOut[i]]

\* The server writes response kind for request header h under sending.
Respond(s, kind, from) ==
    /\ down' = Append(down, [seq |-> s, kind |-> kind, from |-> from])
    /\ answers' = [answers EXCEPT ![s] = @ + 1]

-----------------------------------------------------------------------------
(* Client                                                                  *)

\* Mutant: client.seq is incremented before the call is stored under it.
RegisterCallShifted(c, m) ==
    /\ cpc[c] = "idle" /\ sending = Nobody
    /\ seq <= MaxSeq
    /\ IF closing \/ shutdown
       THEN /\ cres' = [cres EXCEPT ![c] = "shutdown"]
            /\ UNCHANGED <<seq, pending, sending, cpc, cseq, cm>>
       ELSE /\ pending' = pending @@ (seq + 1 :> [id |-> seq, by |-> c])
            /\ cseq' = [cseq EXCEPT ![c] = seq]
            /\ seq' = seq + 1
            /\ sending' = c
            /\ cpc' = [cpc EXCEPT ![c] = "write"]
            /\ cm' = [cm EXCEPT ![c] = m]
            /\ UNCHANGED cres
    /\ UNCHANGED <<closing, shutdown, done, callOut, recvVars, up, down, serverVars>>

\* Mutant: call.Seq is read after client.seq is incremented.
RegisterSeqAfterIncrement(c, m) ==
    /\ cpc[c] = "idle" /\ sending = Nobody
    /\ seq <= MaxSeq
    /\ IF closing \/ shutdown
       THEN /\ cres' = [cres EXCEPT ![c] = "shutdown"]
            /\ UNCHANGED <<seq, pending, sending, cpc, cseq, cm>>
       ELSE /\ pending' = pending @@ (seq :> [id |-> seq + 1, by |-> c])
            /\ cseq' = [cseq EXCEPT ![c] = seq + 1]
            /\ seq' = seq + 1
            /\ sending' = c
            /\ cpc' = [cpc EXCEPT ![c] = "write"]
            /\ cm' = [cm EXCEPT ![c] = m]
            /\ UNCHANGED cres
    /\ UNCHANGED <<closing, shutdown, done, callOut, recvVars, up, down, serverVars>>

\* registerCall (lines 72-82) under client.mu, as send (lines 207-217)
\* calls it holding client.sending.  A closed client fails the call at
\* once with ErrShutDown; Call then returns that error.
Register(c, m) ==
    /\ cpc[c] = "idle" /\ sending = Nobody
    /\ seq <= MaxSeq
    /\ IF closing \/ shutdown
       THEN /\ cres' = [cres EXCEPT ![c] = "shutdown"]
            /\ UNCHANGED <<seq, pending, sending, cpc, cseq, cm>>
       ELSE /\ pending' = pending @@ (seq :> [id |-> seq, by |-> c])
            /\ cseq' = [cseq EXCEPT ![c] = seq]
            /\ seq' = seq + 1
            /\ sending' = c
            /\ cpc' = [cpc EXCEPT ![c] = "write"]
            /\ cm' = [cm EXCEPT ![c] = m]
            /\ UNCHANGED cres
    /\ UNCHANGED <<closing, shutdown, done, callOut, recvVars, up, down, serverVars>>

\* send, lines 220-231: write header and body; a write on the closed
\* connection fails, and the call is removed and completed with the error.
Write(c) ==
    LET s == cseq[c] IN
    /\ cpc[c] = "write"
    /\ IF closing
       THEN /\ pending' = Without(s)
            /\ Complete({pending[x].id : x \in DOMAIN pending \cap {s}},
                        [kind |-> "error", from |-> Nobody])
            /\ UNCHANGED up
       ELSE /\ up' = up \o <<[t |-> "header", seq |-> s, method |-> cm[c], from |-> c],
                             [t |-> "body", seq |-> s, from |-> c]>>
            /\ UNCHANGED <<pending, done, callOut>>
    /\ sending' = Nobody
    /\ cpc' = [cpc EXCEPT ![c] = "wait"]
    /\ UNCHANGED <<seq, closing, shutdown, cseq, cm, cres, recvVars, down, serverVars>>

\* Call, lines 265-266: the call arrives on call.Done.
Return(c) ==
    /\ cpc[c] = "wait"
    /\ done[cseq[c]] > 0
    /\ cres' = [cres EXCEPT ![c] = callOut[cseq[c]].kind]
    /\ cpc' = [cpc EXCEPT ![c] = "idle"]
    /\ UNCHANGED <<seq, pending, closing, shutdown, sending, cseq, cm, done, callOut,
                   recvVars, up, down, serverVars>>

\* Call, lines 262-264: ctx expires first (select picks either when both
\* are ready); the call is removed and Call returns the context error.
CtxDone(c) ==
    /\ c \in Deadline
    /\ cpc[c] = "wait"
    /\ pending' = Without(cseq[c])
    /\ cres' = [cres EXCEPT ![c] = "ctx"]
    /\ cpc' = [cpc EXCEPT ![c] = "idle"]
    /\ UNCHANGED <<seq, closing, shutdown, sending, cseq, cm, done, callOut,
                   recvVars, up, down, serverVars>>

\* Close, lines 52-62: the first call marks the client closing and closes
\* the connection; a later one only returns ErrShutDown.
Close ==
    /\ ~closing
    /\ closing' = TRUE
    /\ UNCHANGED <<seq, pending, shutdown, sending, cpc, cseq, cm, cres, done, callOut,
                   recvVars, up, down, serverVars>>

\* Mutant: the call is looked up in client.pending but not deleted.
RecvHeaderKeepsCall ==
    /\ rpc = "read" /\ ~closing /\ down # <<>>
    /\ rhdr' = Head(down)
    /\ down' = Tail(down)
    /\ rcall' = IF Head(down).seq \in DOMAIN pending THEN pending[Head(down).seq] ELSE NoCall
    /\ rpc' = "body"
    /\ UNCHANGED <<seq, pending, closing, shutdown, sending, cpc, cseq, cm, cres, done, callOut,
                   up, serverVars>>

\* receive, lines 113-118: read a header, then removeCall(h.Seq).
RecvHeader ==
    /\ rpc = "read" /\ ~closing /\ down # <<>>
    /\ rhdr' = Head(down)
    /\ down' = Tail(down)
    /\ rcall' = IF Head(down).seq \in DOMAIN pending THEN pending[Head(down).seq] ELSE NoCall
    /\ pending' = Without(Head(down).seq)
    /\ rpc' = "body"
    /\ UNCHANGED <<seq, closing, shutdown, sending, cpc, cseq, cm, cres, done, callOut,
                   up, serverVars>>

\* receive, line 114: ReadHeader fails on a closed connection, or at the
\* end of the stream once the server has closed it; the loop ends.
RecvFail ==
    /\ rpc = "read"
    /\ closing \/ (down = <<>> /\ srv = "closed")
    /\ rpc' = "term"
    /\ UNCHANGED <<clientVars, rhdr, rcall, up, down, serverVars>>

\* Mutant: the server-error branch sets call.Error but never calls done.
RecvBodyNoDoneOnError ==
    /\ rpc = "body"
    /\ IF rcall = NoCall \/ rhdr.kind # "reply"
       THEN UNCHANGED <<done, callOut>>
       ELSE Complete({rcall.id}, [kind |-> IF ~closing THEN "reply" ELSE "error", from |-> rhdr.from])
    /\ rpc' = IF closing THEN "term" ELSE "read"
    /\ rhdr' = NoHeader /\ rcall' = NoCall
    /\ UNCHANGED <<seq, pending, closing, shutdown, sending, cpc, cseq, cm, cres,
                   up, down, serverVars>>

\* receive, lines 119-135: no call (discard the body), a server error, or
\* a reply read into call.Reply; a body read on a connection closed in the
\* meantime fails, the call gets the read error and the loop ends.
RecvBody ==
    /\ rpc = "body"
    /\ IF rcall = NoCall
       THEN UNCHANGED <<done, callOut>>
       ELSE Complete({rcall.id},
                     [kind |-> IF rhdr.kind = "reply" /\ ~closing THEN "reply" ELSE "error",
                      from |-> rhdr.from])
    /\ rpc' = IF closing THEN "term" ELSE "read"
    /\ rhdr' = NoHeader /\ rcall' = NoCall
    /\ UNCHANGED <<seq, pending, closing, shutdown, sending, cpc, cseq, cm, cres,
                   up, down, serverVars>>

\* terminateCalls, lines 96-108, under client.sending then client.mu:
\* shut down and complete every pending call with the error.  The calls
\* stay in client.pending.
Terminate ==
    /\ rpc = "term" /\ sending = Nobody
    /\ shutdown' = TRUE
    /\ Complete({pending[s].id : s \in DOMAIN pending}, [kind |-> "shutdown", from |-> Nobody])
    /\ rpc' = "dead"
    /\ UNCHANGED <<seq, pending, closing, sending, cpc, cseq, cm, cres, rhdr, rcall,
                   up, down, serverVars>>

-----------------------------------------------------------------------------
(* Server                                                                  *)

\* ServeConn, lines 59-85: json.NewDecoder(conn).Decode(&opt) reads the
\* options NewClient wrote first (client.go 147-152).  The magic number
\* and the codec type are valid: parseOptions sets the one and NewClient
\* has already checked the other against the same map.  The json.Decoder
\* buffers what it reads from conn, so it can take k > 0 of the requests
\* the client has already written as well; the gob codec f(conn) then
\* starts after them, without the type definitions of the stream, and
\* its first ReadHeader fails, which ends serveCodec's loop.
ServeConn ==
    /\ srv = "opt" /\ up # <<>>
    /\ \E k \in 0 .. (IF ReadAhead THEN Len(up) - 1 ELSE 0) :
         /\ up' = SubSeq(up, k + 2, Len(up))
         /\ srv' = IF k = 0 THEN "read" ELSE "wait"
    /\ UNCHANGED <<clientVars, recvVars, down, hs, gs, hres, hfrom, answers>>

\* serveCodec, lines 91-103, with readRequest (126-155): a request for a
\* known method is read with its body and handed to a new handleRequest.
ReadRequest ==
    LET h == Head(up) IN
    /\ srv = "read" /\ up # <<>>
    /\ h.t = "header" /\ FindService(h.method)
    /\ up' = Tail(Tail(up))
    /\ hs' = [hs EXCEPT ![h.seq] = "select"]
    /\ gs' = [gs EXCEPT ![h.seq] = "calling"]
    /\ hfrom' = [hfrom EXCEPT ![h.seq] = h.from]
    /\ UNCHANGED <<clientVars, recvVars, down, srv, hres, answers>>

\* Lines 136-139 and 97-99: findService fails, readRequest returns before
\* ReadBody, and the error is sent; the loop continues with the body still
\* in the stream.
InvalidRequest ==
    LET h == Head(up) IN
    /\ srv = "read" /\ up # <<>>
    /\ h.t = "header" /\ ~FindService(h.method)
    /\ up' = Tail(up)
    /\ Respond(h.seq, "invalid", h.from)
    /\ UNCHANGED <<clientVars, recvVars, srv, hs, gs, hres, hfrom>>

\* Lines 92-95: ReadHeader fails at the end of the stream of a connection
\* the client closed; the loop ends.
ServeEOF ==
    /\ srv = "read" /\ up = <<>> /\ closing
    /\ srv' = "wait"
    /\ UNCHANGED <<clientVars, recvVars, up, down, hs, gs, hres, hfrom, answers>>

\* Lines 92-95: the next message is a body left in the stream; decoding it
\* as a header fails and the loop ends.
ServeDesync ==
    /\ srv = "read" /\ up # <<>> /\ Head(up).t = "body"
    /\ up' = Tail(up)
    /\ srv' = "wait"
    /\ UNCHANGED <<clientVars, recvVars, down, hs, gs, hres, hfrom, answers>>

\* Lines 104-105 and 60-62: wg.Wait for every handleRequest, then close.
ServerClose ==
    /\ srv = "wait"
    /\ \A s \in Seqs : hs[s] \in {"idle", "done"}
    /\ srv' = "closed"
    /\ UNCHANGED <<clientVars, recvVars, up, down, hs, gs, hres, hfrom, answers>>

\* Mutant: `called` is buffered, so the goroutine goes on to send its
\* response whether or not the handler still waits for it.
ServiceReturnBuffered(s, r) ==
    /\ gs[s] = "calling"
    /\ gs' = [gs EXCEPT ![s] = "send"]
    /\ hres' = [hres EXCEPT ![s] = r]
    /\ UNCHANGED <<clientVars, recvVars, up, down, srv, hs, hfrom, answers>>

\* Line 172: svc.call returns.
ServiceReturn(s, r) ==
    /\ gs[s] = "calling"
    /\ gs' = [gs EXCEPT ![s] = "called"]
    /\ hres' = [hres EXCEPT ![s] = r]
    /\ UNCHANGED <<clientVars, recvVars, up, down, srv, hs, hfrom, answers>>

\* Lines 173 and 195 (or 185): the unbuffered send on `called` meets the
\* handler's receive.
Called(s) ==
    /\ gs[s] = "called" /\ hs[s] = "select"
    /\ gs' = [gs EXCEPT ![s] = "send"]
    /\ hs' = [hs EXCEPT ![s] = "waitSent"]
    /\ UNCHANGED <<clientVars, recvVars, up, down, srv, hres, hfrom, answers>>

\* Lines 174-180: sendResponse with the error or the reply.
SendResult(s) ==
    /\ gs[s] = "send"
    /\ Respond(s, IF hres[s] = "ok" THEN "reply" ELSE "error", hfrom[s])
    /\ gs' = [gs EXCEPT ![s] = "sent"]
    /\ UNCHANGED <<clientVars, recvVars, up, srv, hs, hres, hfrom>>

\* Lines 177, 181 and 196 (or 186): `sent` meets the handler, which
\* returns and calls wg.Done.
Sent(s) ==
    /\ gs[s] = "sent" /\ hs[s] = "waitSent"
    /\ gs' = [gs EXCEPT ![s] = "done"]
    /\ hs' = [hs EXCEPT ![s] = "done"]
    /\ UNCHANGED <<clientVars, recvVars, up, down, srv, hres, hfrom, answers>>

\* Lines 192-194: time.After fires first; the timeout error is sent and
\* the handler returns.  The goroutine stays blocked on `called`.
Timeout(s) ==
    /\ HandleTimeout
    /\ hs[s] = "select"
    /\ Respond(s, "timeout", hfrom[s])
    /\ hs' = [hs EXCEPT ![s] = "done"]
    /\ UNCHANGED <<clientVars, recvVars, up, srv, gs, hres, hfrom>>

-----------------------------------------------------------------------------

Next ==
    \/ \E c \in Callers :
        \/ \E m \in Methods : Register(c, m)
        \/ Write(c) \/ Return(c) \/ CtxDone(c)
    \/ Close \/ RecvHeader \/ RecvFail \/ RecvBody \/ Terminate
    \/ ServeConn \/ ReadRequest \/ InvalidRequest \/ ServeEOF \/ ServeDesync \/ ServerClose
    \/ \E s \in Seqs :
        \/ \E r \in CallResults : ServiceReturn(s, r)
        \/ Called(s) \/ SendResult(s) \/ Sent(s) \/ Timeout(s)

\* Every goroutine that can run runs; svc.call returns; a deadline that is
\* set expires (CtxDone is enabled only for callers in Deadline).  Callers are never forced to call, nor users to Close.
Fairness ==
    /\ \A c \in Callers : WF_vars(Write(c)) /\ WF_vars(Return(c)) /\ WF_vars(CtxDone(c))
    /\ WF_vars(RecvHeader) /\ WF_vars(RecvFail) /\ WF_vars(RecvBody) /\ WF_vars(Terminate)
    /\ WF_vars(ServeConn) /\ WF_vars(ReadRequest) /\ WF_vars(InvalidRequest)
    /\ WF_vars(ServeEOF) /\ WF_vars(ServeDesync)
    /\ WF_vars(ServerClose)
    /\ \A s \in Seqs :
        /\ WF_vars(\E r \in CallResults : ServiceReturn(s, r))
        /\ WF_vars(Called(s)) /\ WF_vars(SendResult(s)) /\ WF_vars(Sent(s))
        /\ WF_vars(Timeout(s))

Spec == Init /\ [][Next]_vars /\ Fairness

-----------------------------------------------------------------------------

TypeOK ==
    /\ seq \in Seqs
    /\ DOMAIN pending \subseteq 1 .. seq - 1
    /\ \A s \in DOMAIN pending : pending[s] \in CallRef
    /\ closing \in BOOLEAN /\ shutdown \in BOOLEAN
    /\ sending \in Callers \cup {Nobody}
    /\ cpc \in [Callers -> {"idle", "write", "wait"}]
    /\ cseq \in [Callers -> 0 .. MaxSeq]
    /\ cres \in [Callers -> {"none", "reply", "error", "shutdown", "ctx"}]
    /\ done \in [Seqs -> Nat]
    /\ rpc \in {"read", "body", "term", "dead"}
    /\ rhdr \in Response /\ rcall \in CallRef \cup {NoCall}
    /\ up \in Seq(Opt \cup Header \cup Body) /\ down \in Seq(Response)
    /\ srv \in {"opt", "read", "wait", "closed"}
    /\ hs \in [Seqs -> {"idle", "select", "waitSent", "done"}]
    /\ gs \in [Seqs -> {"idle", "calling", "called", "send", "sent", "done"}]

\* call.done() sends on a channel of capacity 1 that the caller reads
\* once (Call, line 260): a call is completed at most once, whichever of
\* receive, the failed write of send and terminateCalls gets to it, and
\* whatever a timed-out Call removed.
DoneAtMostOnce == \A s \in Seqs : done[s] <= 1

\* Calls are matched to replies by sequence number: a Call that returns the
\* server's reply or error returns the answer to its own request.
ReplyGoesToCaller ==
    [][\A c \in Callers :
         Return(c) /\ callOut[cseq[c]].kind \in {"reply", "error"} /\ callOut[cseq[c]].from # Nobody
            => callOut[cseq[c]].from = c]_vars

\* handleRequest with a timeout: whichever of the timer and svc.call wins
\* the select, the server writes one response per request.
OneResponsePerRequest == \A s \in Seqs : answers[s] <= 1

\* Every Call returns, also a Call whose ctx has no deadline: the server
\* answers every request it reads, and a request it never answers is
\* failed when the connection ends.
CallReturns == \A c \in Callers : cpc[c] # "idle" ~> cpc[c] = "idle"

\* The receive loop discards the body of a call that is no longer pending
\* (line 121: a call canceled by its caller): it writes into call.Reply
\* only while the Call that owns it still waits.
NoReplyAfterReturn ==
    [][RecvBody /\ rcall # NoCall /\ rhdr.kind = "reply" /\ ~closing
         => cpc[rcall.by] = "wait" /\ cseq[rcall.by] = rcall.id]_vars

\* serveCodec answers an invalid request with an error and continues
\* (lines 97-99): the server reads requests until the client closes the
\* connection.
ServesUntilClosed == srv \in {"wait", "closed"} => closing

=============================================================================
