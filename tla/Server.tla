------------------------------- MODULE Server -------------------------------
(***************************************************************************)
(* The connections of clients to brokers: the accept loop, the handler of  *)
(* each connection with its deadlines, shutdown, and the frames between    *)
(* client and handler (core/server.go, core/request.go,                    *)
(* core/proto/proto.go).  What a request does to the broker is left to the *)
(* module that extends this one.                                           *)
(*                                                                         *)
(* A connection has a deadline for reads, 30 seconds ahead when the        *)
(* handler starts and after every answer that is not an error, and one for *)
(* writes, set only by the goroutine that waits for the shutdown, which    *)
(* puts both into the past.  A read or write whose deadline has passed     *)
(* fails at once.  A client has one request at a time on a connection and  *)
(* waits for its answer without a deadline; a frame is a request or an     *)
(* answer, and one that was cut off is lost.                               *)
(***************************************************************************)
EXTENDS Integers, Sequences, FiniteSets

CONSTANTS
    Brokers,
    Links,       \* <<client, broker>>: the connections that clients make
    Fallible,    \* brokers that may be stopped or crash
    MaxFaults    \* bound: shutdowns by a signal and crashes

ASSUME ServerAssumption ==
    Fallible \subseteq Brokers /\ MaxFaults \in Nat

VARIABLES
    phase,   \* broker -> "up", "stopping" (signal received), "draining" (listener
             \* closed, waiting for the handlers) or "down"
    link,    \* the state of each connection
    faults   \* shutdowns and crashes so far

serverVars == <<phase, link, faults>>

----------------------------------------------------------------------------
\* A frame is a record whose type says what it asks or answers.
Frame(type) == [type |-> type]

None == Frame("none")

\* conn: the client's end, "none", "open" or "dead" (closed by the server);
\* at: the handler, "none", "queued" (not accepted yet), "read", "work"
\* or "extend";  req: a request not read yet;  job: the one the handler works
\* on;  ans: an answer not read yet;  late, shut: the deadline for reads, for
\* writes, has passed.
NoLink == [conn |-> "none", at |-> "none", req |-> None, job |-> None, ans |-> None,
           late |-> FALSE, shut |-> FALSE]

BrokerOf(l) == l[2]

ServerInit ==
    /\ phase = [b \in Brokers |-> "up"]
    /\ link = [l \in Links |-> NoLink]
    /\ faults = 0

At(l, state) == link[l].at = state

\* The connection is closed: the client finds out when it next reads.
Closed(k) == [NoLink EXCEPT !.conn = IF k.conn = "open" THEN "dead" ELSE k.conn, !.ans = k.ans]

----------------------------------------------------------------------------
(* The client's end.                                                       *)

\* The listener takes connections before they are accepted.
Listening(b) == phase[b] \in {"up", "stopping"}

Dials(l) == link[l].conn = "none" /\ At(l, "none") /\ Listening(BrokerOf(l))

Reaches(l) == link[l].conn = "open" \/ Dials(l)

\* The kept connection is dead, or there is none and no one listens.
CannotReach(l) ==
    \/ link[l].conn = "dead"
    \/ link[l].conn = "none" /\ ~Listening(BrokerOf(l))

Dialled(l) == IF link[l].conn = "open" THEN link[l]
              ELSE [NoLink EXCEPT !.conn = "open", !.at = "queued"]

Dial(l) ==
    /\ Dials(l)
    /\ link' = [link EXCEPT ![l] = Dialled(l)]
    /\ UNCHANGED <<phase, faults>>

\* WriteRequest and Flush, over the connection that is there or a new one.
WriteRequest(l, r) ==
    /\ Reaches(l)
    /\ link' = [link EXCEPT ![l] = [Dialled(l) EXCEPT !.req = r]]
    /\ UNCHANGED <<phase, faults>>

\* ReadResponse: the answer, or an error when the connection was closed.
ReadResponse(l, a) ==
    /\ link[l].ans = Frame(a)
    /\ link' = [link EXCEPT ![l].ans = None]
    /\ UNCHANGED <<phase, faults>>

ReadResponseFails(l) == link[l].conn = "dead" /\ link[l].ans = None

----------------------------------------------------------------------------
(* The accept loop and the handlers.                                       *)

\* A connection is accepted and counted; its handler sets the read deadline
\* and starts the goroutine that waits for the shutdown.
Accept(l) ==
    /\ Listening(BrokerOf(l)) /\ At(l, "queued")
    /\ link' = [link EXCEPT ![l].at = "read", ![l].late = FALSE]
    /\ UNCHANGED <<phase, faults>>

ReadFrame(l) ==
    /\ At(l, "read") /\ ~link[l].late
    /\ link[l].req # None
    /\ link' = [link EXCEPT ![l].at = "work", ![l].job = link[l].req, ![l].req = None]
    /\ UNCHANGED <<phase, faults>>

\* Mutant of ReadFrameFails: the loop goes on after an error.
ReadFrameFails_Continues(l) ==
    /\ At(l, "read")
    /\ link[l].late \/ link[l].conn # "open"
    /\ UNCHANGED serverVars

\* The deadline has passed, or the client has closed its end.
ReadFrameFails(l) ==
    /\ At(l, "read")
    /\ link[l].late \/ link[l].conn # "open"
    /\ link' = [link EXCEPT ![l] = Closed(@)]
    /\ UNCHANGED <<phase, faults>>

\* WriteFrame; its callers take no notice of an error.
WriteFrame(k, a) == IF k.shut \/ k.conn # "open" THEN k.ans ELSE Frame(a)

\* The broker has done what was asked, and a is the answer.  After an error the
\* loop continues without a new deadline.
Answer(l, a) ==
    /\ At(l, "work")
    /\ link' = [link EXCEPT ![l].job = None,
                            ![l].ans = WriteFrame(link[l], a),
                            ![l].at = IF a = "error" THEN "read" ELSE "extend"]
    /\ UNCHANGED <<phase, faults>>

\* The read deadline is put 30 seconds ahead, also during a shutdown.
Extend(l) ==
    /\ At(l, "extend")
    /\ link' = [link EXCEPT ![l].at = "read", ![l].late = FALSE]
    /\ UNCHANGED <<phase, faults>>

Handling == {"read", "work", "extend"}

\* Thirty seconds have passed.  When they pass elsewhere in the loop it makes
\* no difference before the next read.
DeadlinePasses(l) ==
    /\ At(l, "read") /\ ~link[l].late
    /\ link' = [link EXCEPT ![l].late = TRUE]
    /\ UNCHANGED <<phase, faults>>

----------------------------------------------------------------------------
(* Shutdown, crash and start.                                              *)

\* The signal.
Stop(b) ==
    /\ phase[b] = "up" /\ b \in Fallible /\ faults < MaxFaults
    /\ phase' = [phase EXCEPT ![b] = "stopping"]
    /\ faults' = faults + 1
    /\ UNCHANGED link

\* Mutant of Kick: only the read deadline is moved.
Kick_ReadsOnly(l) ==
    /\ phase[BrokerOf(l)] \in {"stopping", "draining"}
    /\ link[l].at \in Handling /\ ~link[l].shut /\ ~link[l].late
    /\ link' = [link EXCEPT ![l].late = TRUE]
    /\ UNCHANGED <<phase, faults>>

\* The goroutine of the connection that waits for the shutdown.
Kick(l) ==
    /\ phase[BrokerOf(l)] \in {"stopping", "draining"}
    /\ link[l].at \in Handling /\ ~link[l].shut
    /\ link' = [link EXCEPT ![l].late = TRUE, ![l].shut = TRUE]
    /\ UNCHANGED <<phase, faults>>

\* Mutant of CloseListener: connections that were not accepted stay open.
CloseListener_KeepsQueued(b) ==
    /\ phase[b] = "stopping"
    /\ phase' = [phase EXCEPT ![b] = "draining"]
    /\ UNCHANGED <<link, faults>>

\* The listener is closed, with the connections it has not accepted, and
\* Accept returns an error.
CloseListener(b) ==
    /\ phase[b] = "stopping"
    /\ phase' = [phase EXCEPT ![b] = "draining"]
    /\ link' = [l \in Links |->
                   IF BrokerOf(l) = b /\ At(l, "queued") THEN Closed(link[l]) ELSE link[l]]
    /\ UNCHANGED faults

\* wg.Wait returns when every handler has, and with it the process.
Exit(b) ==
    /\ phase[b] = "draining"
    /\ \A l \in Links : BrokerOf(l) = b => At(l, "none")
    /\ phase' = [phase EXCEPT ![b] = "down"]
    /\ link' = [l \in Links |-> IF BrokerOf(l) = b THEN Closed(link[l]) ELSE link[l]]
    /\ UNCHANGED faults

\* A panic in a handler, an error of Accept, or a kill.
Crash(b) ==
    /\ phase[b] # "down" /\ b \in Fallible /\ faults < MaxFaults
    /\ phase' = [phase EXCEPT ![b] = "down"]
    /\ link' = [l \in Links |-> IF BrokerOf(l) = b THEN Closed(link[l]) ELSE link[l]]
    /\ faults' = faults + 1

Start(b) ==
    /\ phase[b] = "down"
    /\ phase' = [phase EXCEPT ![b] = "up"]
    /\ UNCHANGED <<link, faults>>

HandlerStep(l) == ReadFrame(l) \/ ReadFrameFails(l) \/ Extend(l)
=============================================================================
