----------------------------- MODULE CQLClient ------------------------------
(***************************************************************************)
(* CQLClient.Query (server/db/cql_client.go): all goroutines share one     *)
(* connection, one query at a time under c.mu.  An I/O error closes the    *)
(* connection; a timeout is reported at once, any other failure (a CQL     *)
(* ERROR frame included) reconnects and executes the query a second time.  *)
(*                                                                         *)
(* Every frame carries stream number 1, so a reply does not say which      *)
(* query it answers: wire holds the requests the server has yet to answer  *)
(* and the replies the client has yet to read, each named by the goroutine *)
(* that asked, in the order of the TCP connection.                         *)
(***************************************************************************)
EXTENDS Integers, Sequences

CONSTANTS Callers,
          MaxDials,     \* attempts of one reconnect, 5 in the code
          MaxFaults,    \* bound on the timeouts, lost connections and failed dials
          Nobody

ASSUME CQLAssumption ==
    /\ MaxDials \in Nat \ {0} /\ MaxFaults \in Nat
    /\ Nobody \notin Callers

VARIABLES conn,     \* "nil", "open", or "closed" (closed but not nil)
          wire,     \* [asked, replied]: queries at the server, replies under way
          mu,       \* the holder of c.mu, or Nobody
          q,        \* per goroutine: its call of Query
          faults    \* faults of the network so far

vars == <<conn, wire, mu, q, faults>>

Unasked == [pc |-> "idle", tries |-> 0, dials |-> 0, answer |-> Nobody]
NoWire == [asked |-> <<>>, replied |-> <<>>]

Init ==
    /\ conn = "open" /\ wire = NoWire       \* NewCQLClient has connected
    /\ mu = Nobody
    /\ q = [t \in Callers |-> Unasked]
    /\ faults = 0

Fault == faults < MaxFaults /\ faults' = faults + 1

(* Mutant of CloseConn: the old socket's bytes are read later.             *)
BugCloseConn == conn' = "nil" /\ UNCHANGED wire

(* The socket is closed and c.conn set to nil; what was under way is lost. *)
CloseConn == conn' = "nil" /\ wire' = NoWire

(* Query: take the mutex.                                                  *)
Lock(t) ==
    /\ q[t].pc = "idle" /\ mu = Nobody
    /\ mu' = t
    /\ q' = [q EXCEPT ![t].pc = "execute"]
    /\ UNCHANGED <<conn, wire, faults>>

(* Mutant of Failed: a second try without a new connection.                *)
BugFailed(t) == q' = [q EXCEPT ![t].pc = "execute", ![t].tries = 1]

(* execute has failed without a timeout: after the first try Query         *)
(* reconnects, after the second it returns the error.                      *)
Failed(t) ==
    q' = [q EXCEPT ![t].pc = IF q[t].tries = 0 THEN "reconnect" ELSE "error",
                   ![t].tries = 1]

(* execute writes the request frame.                                       *)
Send(t) ==
    /\ q[t].pc = "execute" /\ conn = "open"
    /\ wire' = [wire EXCEPT !.asked = Append(@, t)]
    /\ q' = [q EXCEPT ![t].pc = "await"]
    /\ UNCHANGED <<conn, mu, faults>>

(* There is no connection, or a write finds it closed.                     *)
SendFails(t) ==
    /\ q[t].pc = "execute"
    /\ IF conn = "open" THEN Fault ELSE UNCHANGED faults
    /\ CloseConn
    /\ Failed(t)
    /\ UNCHANGED mu

(* A RESULT frame: Query returns its rows.                                 *)
Receive(t) ==
    /\ q[t].pc = "await" /\ wire.replied # <<>>
    /\ wire' = [wire EXCEPT !.replied = Tail(@)]
    /\ q' = [q EXCEPT ![t].pc = "rows", ![t].answer = Head(wire.replied)]
    /\ UNCHANGED <<conn, mu, faults>>

(* An ERROR frame, or an unexpected opcode: the connection stays open.     *)
ReceiveError(t) ==
    /\ q[t].pc = "await" /\ wire.replied # <<>>
    /\ Fault
    /\ wire' = [wire EXCEPT !.replied = Tail(@)]
    /\ Failed(t)
    /\ UNCHANGED <<conn, mu>>

(* Mutant of Timeout: the connection is kept.                              *)
BugTimeout(t) ==
    /\ q[t].pc = "await"
    /\ Fault
    /\ q' = [q EXCEPT ![t].pc = "error"]
    /\ UNCHANGED <<conn, wire, mu>>

(* The deadline passes in the write, or while the answer is still under    *)
(* way.  A first try ends in Query's own branch for timeouts; neither try  *)
(* is repeated.                                                            *)
Timeout(t) ==
    /\ q[t].pc = "await" \/ (q[t].pc = "execute" /\ conn = "open")
    /\ Fault
    /\ CloseConn
    /\ q' = [q EXCEPT ![t].pc = "error"]
    /\ UNCHANGED mu

(* The peer closes the connection, or a frame length is corrupt.           *)
ReadFails(t) ==
    /\ q[t].pc = "await"
    /\ Fault
    /\ CloseConn
    /\ Failed(t)
    /\ UNCHANGED mu

(* reconnect: each attempt first drops the old connection.  A dial or a    *)
(* STARTUP that fails is tried again up to MaxDials times.                 *)
DialFails(t) ==
    /\ q[t].pc = "reconnect"
    /\ Fault
    /\ CloseConn
    /\ q' = [q EXCEPT ![t].dials = @ + 1,
                      ![t].pc = IF q[t].dials + 1 = MaxDials THEN "error" ELSE "reconnect"]
    /\ UNCHANGED mu

Dial(t) ==
    /\ q[t].pc = "reconnect"
    /\ conn' = "open" /\ wire' = NoWire
    /\ q' = [q EXCEPT ![t].pc = "execute"]
    /\ UNCHANGED <<mu, faults>>

(* Query returns and the deferred Unlock runs.                             *)
Returned(t) ==
    /\ q[t].pc \in {"rows", "error"}
    /\ mu' = Nobody
    /\ q' = [q EXCEPT ![t] = Unasked]
    /\ UNCHANGED <<conn, wire, faults>>

(* The server answers its queries in order, as late as it likes.           *)
ServerAnswers ==
    /\ wire.asked # <<>>
    /\ wire' = [asked |-> Tail(wire.asked),
                replied |-> Append(wire.replied, Head(wire.asked))]
    /\ UNCHANGED <<conn, mu, q, faults>>

(* Close leaves c.conn set.                                                *)
Close ==
    /\ mu = Nobody /\ conn = "open"
    /\ conn' = "closed" /\ wire' = NoWire
    /\ UNCHANGED <<mu, q, faults>>

QueryStep(t) ==
    \/ Send(t) \/ SendFails(t)
    \/ Receive(t) \/ ReceiveError(t) \/ Timeout(t) \/ ReadFails(t)
    \/ Dial(t) \/ DialFails(t)
    \/ Returned(t)

Next ==
    \/ \E t \in Callers : Lock(t) \/ QueryStep(t)
    \/ ServerAnswers \/ Close

Spec == Init /\ [][Next]_vars

(* sync.Mutex is starvation-free; a query that waits for its answer ends   *)
(* by the answer or by the deadline.                                       *)
FairSpec ==
    /\ Spec
    /\ \A t \in Callers : SF_vars(Lock(t)) /\ WF_vars(QueryStep(t))
    /\ WF_vars(ServerAnswers)
-----------------------------------------------------------------------------
TypeOK ==
    /\ conn \in {"nil", "open", "closed"}
    /\ wire \in [asked : Seq(Callers), replied : Seq(Callers)]
    /\ conn # "open" => wire = NoWire
    /\ mu \in Callers \cup {Nobody}
    /\ q \in [Callers -> [pc : {"idle", "execute", "await", "reconnect", "rows", "error"},
                          tries : 0..1, dials : 0..MaxDials, answer : Callers \cup {Nobody}]]
    /\ faults \in 0..MaxFaults

(* Query returns the rows of its own statement, never the late answer to   *)
(* a query that had timed out or failed before it.                         *)
OwnAnswer == \A t \in Callers : q[t].pc = "rows" => q[t].answer = t

(* One statement at a time is on the connection, and nothing is left on it *)
(* between two queries.                                                    *)
WireIsClean ==
    /\ Len(wire.asked) + Len(wire.replied) <= 1
    /\ mu = Nobody => wire = NoWire

(* Every call of Query returns, however the network fails.                 *)
EveryQueryReturns == \A t \in Callers : q[t].pc # "idle" ~> q[t].pc = "idle"
=============================================================================
