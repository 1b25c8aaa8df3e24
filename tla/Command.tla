------------------------------ MODULE Command ------------------------------
(***************************************************************************)
(* One container that runs `events-mgmt server` or `events-mgmt producer`  *)
(* (run in server_cmd.go and producer_cmd.go).  The main thread builds the *)
(* component that gives its name to the command, starts the HTTP servers   *)
(* one after another, waits for a signal and closes everything in the same *)
(* order.  Each HTTP server has a goroutine that listens and serves        *)
(* (helpers.Serve), of which only the log hears once Build has returned.   *)
(*                                                                         *)
(* Unix sockets live in a volume of the pod, so their files outlive the    *)
(* container.  Kubernetes starts it again when it ends, and stops it when  *)
(* the liveness probe, that goes to the `api` server, doesn't answer.      *)
(***************************************************************************)
EXTENDS Integers, Sequences

CONSTANTS
  Servers,      \* the names of the HTTP servers, in the order they are started
  Unix,         \* those that listen on Unix sockets
  Secure,       \* those with a certificate and a key
  Probed,       \* those that the liveness probe checks
  MaxRequests,  \* bound: requests in progress in a server
  MaxFaults     \* bound: signals, crashes and failures

Names == {Servers[i] : i \in DOMAIN Servers}

ASSUME CommandAssumption ==
  /\ Servers \in Seq({"api", "health", "metrics"}) /\ Servers # <<>>
  /\ \A i, j \in DOMAIN Servers : Servers[i] = Servers[j] => i = j
  /\ Unix \subseteq Names /\ Secure \subseteq Names /\ Probed \subseteq Names
  /\ MaxRequests \in Nat /\ MaxFaults \in Nat

VARIABLES
  step,      \* what the main thread is doing
  at,        \* the server that it is doing it to, as an index of Servers
  thread,    \* the state of the goroutine of each server
  err,       \* the servers whose goroutine has assigned an error to `err` of Build
  stopping,  \* the servers whose Shutdown method has been called
  file,      \* the servers whose socket file exists
  tracked,   \* requests in progress in each server that Shutdown waits for
  http2,     \* requests in progress in the hijacked connection of each server
  broken,    \* the servers that the environment has made fail in this life
  faults     \* disturbances so far

mainVars == <<step, at>>
serverVars == <<thread, err, stopping, file, broken>>
requestVars == <<tracked, http2>>
vars == <<mainVars, serverVars, requestVars, faults>>

NotConnected == -1

\* The servers with `err = helpers.Serve(...)` in the goroutine, where `err` is the
\* result of Build.  In the metrics server the variable is local.
SharesError == {"api", "health"}

Init ==
  /\ step = "down" /\ at = 1
  /\ thread = [s \in Names |-> "none"]
  /\ err = {} /\ stopping = {} /\ file = {} /\ broken = {}
  /\ tracked = [s \in Names |-> 0]
  /\ http2 = [s \in Names |-> NotConnected]
  /\ faults = 0

Fault == faults < MaxFaults /\ faults' = faults + 1

----------------------------------------------------------------------------
(* The main thread.                                                        *)

Goto(next, i) == step' = next /\ at' = i

\* Mistake: one server too many.
AdvanceTooFar(again, done) ==
  IF at <= Len(Servers) THEN Goto(again, at + 1) ELSE Goto(done, 1)

\* After doing something to a server: do it to the next one, if there is any.
Advance(again, done) ==
  IF at < Len(Servers) THEN Goto(again, at + 1) ELSE Goto(done, 1)

\* The process is gone.  Socket files that haven't been deleted stay.
Die ==
  /\ Goto("down", 1)
  /\ thread' = [s \in Names |-> "none"]
  /\ err' = {} /\ stopping' = {} /\ broken' = {}
  /\ tracked' = [s \in Names |-> 0]
  /\ http2' = [s \in Names |-> NotConnected]
  /\ UNCHANGED file

Start ==
  /\ step = "down"
  /\ Goto("component", 1)
  /\ UNCHANGED <<serverVars, requestVars, faults>>

\* The configuration is checked, and the event service or the producer is built.
BuildComponent ==
  /\ step = "component"
  /\ Goto("starting", 1)
  /\ UNCHANGED <<serverVars, requestVars, faults>>

BuildComponentFails == step = "component" /\ Fault /\ Die

\* Build of a server starts its goroutine...
StartServer ==
  /\ step = "starting"
  /\ Goto("returning", at)
  /\ thread' = [thread EXCEPT ![Servers[at]] = "new"]
  /\ UNCHANGED <<err, stopping, file, broken, requestVars, faults>>

\* ...and returns, with whatever error the goroutine has assigned so far.  That is
\* a data race, but what is read half written isn't nil either.
BuildReturns ==
  /\ step = "returning"
  /\ Servers[at] \notin err
  /\ Advance("starting", "waiting")
  /\ UNCHANGED <<serverVars, requestVars, faults>>

BuildFails ==
  /\ step = "returning"
  /\ Servers[at] \in err
  /\ Die
  /\ UNCHANGED faults

\* A signal before the call to Notify kills the process, and it has no effect
\* when the process is already closing its components.
Signal ==
  /\ Fault
  /\ \/ /\ step \in {"component", "starting", "returning"}
        /\ Die
     \/ /\ step = "waiting"
        /\ Goto("closing component", 1)
        /\ UNCHANGED <<serverVars, requestVars>>

\* The liveness probe has failed for too long: another reason for a signal.
ProbeFails ==
  /\ step = "waiting"
  /\ \E s \in Probed : thread[s] = "failed"
  /\ Goto("closing component", 1)
  /\ UNCHANGED <<serverVars, requestVars, faults>>

\* The component is closed; if that fails it makes no difference.
CloseComponent ==
  /\ step = "closing component"
  /\ Goto("closing", 1)
  /\ UNCHANGED <<serverVars, requestVars, faults>>

\* Shutdown closes the listener, if the server has it already, which deletes the
\* socket file.
Shutdown ==
  LET s == Servers[at] IN
    /\ step = "closing"
    /\ Goto("draining", at)
    /\ stopping' = stopping \cup {s}
    /\ thread' = [thread EXCEPT ![s] = IF @ = "serving" THEN "finished" ELSE @]
    /\ file' = IF thread[s] = "serving" THEN file \ {s} ELSE file
    /\ UNCHANGED <<err, broken, requestVars, faults>>

\* Mistake: wait for the goroutine, even if it has failed.
ShutdownReturnsAfterThread ==
  /\ step = "draining"
  /\ tracked[Servers[at]] = 0
  /\ thread[Servers[at]] = "finished"
  /\ IF at = Len(Servers)
     THEN Die
     ELSE Goto("closing", at + 1) /\ UNCHANGED <<serverVars, requestVars>>
  /\ UNCHANGED faults

\* Shutdown returns when there are no requests left in connections that are still
\* under the control of the server.  After the last server the process ends.
ShutdownReturns ==
  /\ step = "draining"
  /\ tracked[Servers[at]] = 0
  /\ IF at = Len(Servers)
     THEN Die
     ELSE Goto("closing", at + 1) /\ UNCHANGED <<serverVars, requestVars>>
  /\ UNCHANGED faults

\* SIGKILL, lack of memory, a panic...
Crash == step # "down" /\ Fault /\ Die

----------------------------------------------------------------------------
(* The goroutine of a server: helpers.Serve.                               *)

SetThread(s, state) ==
  /\ thread' = [thread EXCEPT ![s] = state]
  /\ UNCHANGED <<err, broken, faults>>

\* helpers.Serve returns an error, that is written to the log and assigned.
ServeReturnsError(s) ==
  /\ thread' = [thread EXCEPT ![s] = "failed"]
  /\ err' = IF s \in SharesError THEN err \cup {s} ELSE err
  /\ UNCHANGED <<mainVars, stopping, requestVars>>

EnvironmentFails(s) == Fault /\ broken' = broken \cup {s} /\ ServeReturnsError(s)

\* Mistake: the file isn't deleted.
KeepStale(s) ==
  /\ thread[s] = "new"
  /\ SetThread(s, "ready")
  /\ UNCHANGED <<mainVars, stopping, file, requestVars>>

\* Delete the file that a previous container may have left.
RemoveStale(s) ==
  /\ thread[s] = "new"
  /\ SetThread(s, "ready")
  /\ file' = file \ {s}
  /\ UNCHANGED <<mainVars, stopping, requestVars>>

RemoveStaleFails(s) ==
  /\ thread[s] = "new" /\ s \in Unix
  /\ EnvironmentFails(s)
  /\ UNCHANGED file

Listen(s) ==
  /\ thread[s] = "ready"
  /\ s \notin file
  /\ SetThread(s, "listening")
  /\ file' = IF s \in Unix THEN file \cup {s} ELSE file
  /\ UNCHANGED <<mainVars, stopping, requestVars>>

\* The address is in use, because of the socket file or of somebody else.
ListenFails(s) ==
  /\ thread[s] = "ready"
  /\ \/ s \in file /\ ServeReturnsError(s) /\ UNCHANGED <<broken, faults>>
     \/ EnvironmentFails(s)
  /\ UNCHANGED file

\* Mistake: serve even if Shutdown has been called.
ServeAnyway(s) ==
  /\ thread[s] = "listening"
  /\ SetThread(s, "serving")
  /\ UNCHANGED <<mainVars, stopping, file, requestVars>>

\* Serve or ServeTLS starts accepting connections...
Serve(s) ==
  /\ thread[s] = "listening"
  /\ s \notin stopping
  /\ SetThread(s, "serving")
  /\ UNCHANGED <<mainVars, stopping, file, requestVars>>

\* ...unless Shutdown has been called before, and then closes the listener.
ServeRefuses(s) ==
  /\ thread[s] = "listening"
  /\ s \in stopping
  /\ SetThread(s, "finished")
  /\ file' = file \ {s}
  /\ UNCHANGED <<mainVars, stopping, requestVars>>

\* The certificate can't be loaded, and the listener isn't closed; or accepting a
\* connection fails, and it is.
ServeFails(s) ==
  /\ \/ thread[s] = "listening" /\ s \in Secure /\ UNCHANGED file
     \/ thread[s] = "serving" /\ file' = file \ {s}
  /\ EnvironmentFails(s)

----------------------------------------------------------------------------
(* The clients.                                                            *)

\* A request in a connection of its own, or the first one of a connection that is
\* hijacked because it talks HTTP/2 without TLS.
Connect(s) ==
  /\ thread[s] = "serving"
  /\ \/ /\ tracked[s] < MaxRequests
        /\ tracked' = [tracked EXCEPT ![s] = @ + 1]
        /\ UNCHANGED http2
     \/ /\ http2[s] = NotConnected /\ s \notin Secure
        /\ http2' = [http2 EXCEPT ![s] = 1]
        /\ UNCHANGED tracked
  /\ UNCHANGED <<mainVars, serverVars, faults>>

\* Another request in the hijacked connection.
Request(s) ==
  /\ http2[s] \in 0 .. (MaxRequests - 1)
  /\ http2' = [http2 EXCEPT ![s] = @ + 1]
  /\ UNCHANGED <<mainVars, serverVars, tracked, faults>>

Respond(s) ==
  /\ tracked[s] > 0
  /\ tracked' = [tracked EXCEPT ![s] = @ - 1]
  /\ UNCHANGED <<mainVars, serverVars, http2, faults>>

RespondHijacked(s) ==
  /\ http2[s] > 0
  /\ http2' = [http2 EXCEPT ![s] = @ - 1]
  /\ UNCHANGED <<mainVars, serverVars, tracked, faults>>

\* The client closes the hijacked connection.
Disconnect(s) ==
  /\ http2[s] # NotConnected
  /\ http2' = [http2 EXCEPT ![s] = NotConnected]
  /\ UNCHANGED <<mainVars, serverVars, tracked, faults>>

----------------------------------------------------------------------------

Main ==
  \/ BuildComponent \/ StartServer \/ BuildReturns \/ BuildFails
  \/ CloseComponent \/ Shutdown \/ ShutdownReturns

Goroutine(s) == RemoveStale(s) \/ Listen(s) \/ ListenFails(s) \/ Serve(s) \/ ServeRefuses(s)

Client(s) ==
  Connect(s) \/ Request(s) \/ Respond(s) \/ RespondHijacked(s) \/ Disconnect(s)

Next ==
  \/ Start \/ Main
  \/ BuildComponentFails \/ Signal \/ ProbeFails \/ Crash
  \/ \E s \in Names : Goroutine(s) \/ RemoveStaleFails(s) \/ ServeFails(s) \/ Client(s)

Spec == Init /\ [][Next]_vars

\* Kubernetes starts the container and checks its probe, and the Go scheduler runs
\* every goroutine.  The requests to the health and metrics servers end, but those
\* to the `api` server are streams that end only when the client wants.
FairSpec ==
  /\ Spec
  /\ WF_vars(Start) /\ WF_vars(Main) /\ WF_vars(ProbeFails)
  /\ \A s \in Names : WF_vars(Goroutine(s))
  /\ \A s \in Names \ {"api"} : WF_vars(Respond(s))
=============================================================================
