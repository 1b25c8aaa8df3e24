------------------------- MODULE CommandProperties -------------------------
(***************************************************************************)
(* What the commands promise to those who deploy them.                     *)
(***************************************************************************)
EXTENDS Command

\* Every variable has its type, nothing of a process is left when it is gone, and
\* the goroutines that exist are those of the servers that have been started.
TypeOK ==
  /\ step \in {"down", "component", "starting", "returning", "waiting",
               "closing component", "closing", "draining"}
  /\ at \in DOMAIN Servers
  /\ thread \in [Names -> {"none", "new", "ready", "listening", "serving", "finished", "failed"}]
  /\ err \subseteq SharesError \cap Names
  /\ stopping \subseteq Names /\ broken \subseteq Names
  /\ file \subseteq Unix
  /\ tracked \in [Names -> 0 .. MaxRequests]
  /\ http2 \in [Names -> Nat \cup {NotConnected}]
  /\ faults \in 0 .. MaxFaults
  /\ \A i \in DOMAIN Servers :
       thread[Servers[i]] = "none" <=>
         \/ step \in {"down", "component"}
         \/ step = "starting" /\ i >= at
         \/ step = "returning" /\ i > at

\* However the previous containers ended, the socket files that they left never
\* stop a server: only the environment makes one fail (the comment of
\* helpers.Serve says why it deletes the file).
OnlyEnvironmentFails == \A s \in Names : thread[s] = "failed" => s \in broken

\* Close of the server has returned.
Closed(s) ==
  /\ step \in {"closing", "draining"}
  /\ \E i \in DOMAIN Servers : i < at /\ Servers[i] = s

\* When Close returns the server neither accepts connections nor processes those
\* requests that it knows about, even if its goroutine was so slow that it begins
\* to listen after that.
ClosedIsDrained == \A s \in Names : Closed(s) => thread[s] # "serving" /\ tracked[s] = 0

\* The parts of the inductive invariant behind the two previous properties: nothing
\* creates the file of a server whose goroutine has just deleted it; the servers
\* that Close has reached are stopping; and those that are stopping don't serve.
ReadyWithoutFile == \A s \in Names : thread[s] = "ready" => s \notin file

ReachedByClose(i) ==
  \/ step \in {"closing", "draining"} /\ i < at
  \/ step = "draining" /\ i = at

ReachedAreStopping == \A i \in DOMAIN Servers : ReachedByClose(i) => Servers[i] \in stopping

StoppingDoNotServe == \A s \in stopping : thread[s] # "serving"

CommandInv ==
  /\ TypeOK
  /\ OnlyEnvironmentFails /\ ReadyWithoutFile
  /\ ClosedIsDrained /\ ReachedAreStopping /\ StoppingDoNotServe

\* The comment of the Close methods: "Close stops the server and releases all the
\* resources it is using", so it has no requests.
CloseStopsServer == \A s \in Names : Closed(s) => tracked[s] = 0 /\ http2[s] <= 0

\* The process can't end yet because a client is still receiving events through a
\* connection that Shutdown waits for.
WaitingForClients == step = "draining" /\ Servers[at] = "api" /\ tracked["api"] > 0

\* A process that begins to close its components ends, no matter which servers
\* failed, or haven't started listening yet, or have clients connected, with the
\* exception of the requests for events that Shutdown waits for.
StopsUnlessStreaming ==
  step = "closing component" ~> step = "down" \/ WaitingForClients

\* Whatever happens, the server that the probe checks comes back sooner or later:
\* no error goes unnoticed, be it before or after Build returns, and nothing that
\* remains from previous containers prevents the restart.
ComesBack == \A s \in Probed : []<>(thread[s] = "serving" \/ WaitingForClients)
=============================================================================
