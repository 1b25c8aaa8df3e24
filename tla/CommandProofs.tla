--------------------------- MODULE CommandProofs ---------------------------
(***************************************************************************)
(* Proofs of the safety properties of the commands, for any list of        *)
(* servers and any number of requests and disturbances.                    *)
(***************************************************************************)
EXTENDS CommandProperties, TLAPS

\* What the provers need to know about the list of servers.
LEMMA ServerFacts ==
  /\ Len(Servers) \in Nat \ {0}
  /\ DOMAIN Servers = 1 .. Len(Servers)
  /\ 1 \in DOMAIN Servers
  /\ \A i \in DOMAIN Servers : Servers[i] \in Names
  /\ \A s \in Names : \E i \in DOMAIN Servers : Servers[i] = s
  /\ \A i, j \in DOMAIN Servers : Servers[i] = Servers[j] => i = j
BY CommandAssumption DEF Names

\* The initial states have the invariant.
LEMMA CommandInit == Init => CommandInv
<1> SUFFICES ASSUME Init PROVE CommandInv
  OBVIOUS
<1>1. TypeOK
  BY ServerFacts, CommandAssumption DEF Init, TypeOK, NotConnected
<1>2. OnlyEnvironmentFails /\ ReadyWithoutFile /\ StoppingDoNotServe
  BY DEF Init, OnlyEnvironmentFails, ReadyWithoutFile, StoppingDoNotServe
<1>3. ClosedIsDrained /\ ReachedAreStopping
  BY DEF Init, ClosedIsDrained, Closed, ReachedAreStopping, ReachedByClose
<1> QED
  BY <1>1, <1>2, <1>3 DEF CommandInv

\* The end of the process leaves nothing of it.
LEMMA DieKeepsInv ==
  ASSUME CommandInv, Die, faults' \in 0 .. MaxFaults
  PROVE  CommandInv'
<1>1. TypeOK'
  <2>1. \A i \in DOMAIN Servers : thread'[Servers[i]] = "none"
    BY ServerFacts DEF Die
  <2>2. at' \in DOMAIN Servers /\ step' = "down" /\ file' \subseteq Unix
    BY ServerFacts DEF CommandInv, TypeOK, Die, Goto
  <2>3. tracked' \in [Names -> 0 .. MaxRequests] /\ http2' \in [Names -> Nat \cup {NotConnected}]
    BY CommandAssumption DEF Die
  <2> QED
    BY <2>1, <2>2, <2>3 DEF TypeOK, Die
<1>2. (OnlyEnvironmentFails /\ ReadyWithoutFile /\ StoppingDoNotServe)'
  BY DEF Die, OnlyEnvironmentFails, ReadyWithoutFile, StoppingDoNotServe
<1>3. (ClosedIsDrained /\ ReachedAreStopping)'
  BY DEF Die, Goto, ClosedIsDrained, Closed, ReachedAreStopping, ReachedByClose
<1> QED
  BY <1>1, <1>2, <1>3 DEF CommandInv

\* A disturbance stays within the budget.
LEMMA FaultBounded == ASSUME TypeOK, Fault PROVE faults' \in 0 .. MaxFaults
<1>1. faults \in 0 .. MaxFaults /\ MaxFaults \in Nat
  BY CommandAssumption DEF TypeOK
<1> QED
  BY <1>1 DEF Fault

\* What the type invariant says about the main thread and the goroutines.
LEMMA AtFacts ==
  ASSUME TypeOK
  PROVE  /\ at \in Nat /\ 1 <= at /\ at <= Len(Servers)
         /\ faults \in 0 .. MaxFaults
         /\ \A i \in 1 .. Len(Servers) : thread[Servers[i]] = "none" <=>
              \/ step \in {"down", "component"}
              \/ step = "starting" /\ i >= at
              \/ step = "returning" /\ i > at
<1>1. at \in 1 .. Len(Servers) /\ Len(Servers) \in Nat
  BY ServerFacts DEF TypeOK
<1>2. faults \in 0 .. MaxFaults
  BY DEF TypeOK
<1>3. \A i \in DOMAIN Servers : thread[Servers[i]] = "none" <=>
              \/ step \in {"down", "component"}
              \/ step = "starting" /\ i >= at
              \/ step = "returning" /\ i > at
  BY DEF TypeOK
<1> QED
  BY <1>1, <1>2, <1>3, ServerFacts

\* The main thread goes on to something that has nothing to do with the servers.
Continue ==
  \/ Start \/ BuildComponent \/ BuildReturns \/ ProbeFails \/ CloseComponent
  \/ Signal /\ step = "waiting"
  \/ ShutdownReturns /\ at # Len(Servers)

\* From where it goes, and to where.
Move(n) ==
  \/ step = "down" /\ step' = "component" /\ at' = 1
  \/ step = "component" /\ step' = "starting" /\ at' = 1
  \/ step = "returning" /\ at < n /\ step' = "starting" /\ at' = at + 1
  \/ step = "returning" /\ at = n /\ step' = "waiting" /\ at' = 1
  \/ step = "waiting" /\ step' = "closing component" /\ at' = 1
  \/ step = "closing component" /\ step' = "closing" /\ at' = 1
  \/ /\ step = "draining" /\ tracked[Servers[at]] = 0 /\ at < n
     /\ step' = "closing" /\ at' = at + 1

\* The arithmetic of the moves.
LEMMA MoveFacts ==
  ASSUME NEW n \in Nat \ {0}, at \in 1 .. n, Move(n)
  PROVE  /\ step' \in {"component", "starting", "waiting", "closing component", "closing"}
         /\ at' \in 1 .. n
         /\ step' = "closing" /\ at' # 1 =>
              step = "draining" /\ tracked[Servers[at]] = 0 /\ at' = at + 1
         /\ \A i \in 1 .. n :
              (\/ step' = "component"
               \/ step' = "starting" /\ i >= at') <=>
              (\/ step \in {"down", "component"}
               \/ step = "starting" /\ i >= at
               \/ step = "returning" /\ i > at)
<1>0. at \in Nat /\ at >= 1 /\ at <= n
  OBVIOUS
<1>1. step' \in {"component", "starting", "waiting", "closing component", "closing"}
  BY DEF Move
<1>2. at' \in 1 .. n
  <2>1. at' = 1 \/ (at' = at + 1 /\ at < n)
    BY DEF Move
  <2> QED
    BY <2>1, <1>0
<1>3. step' = "closing" /\ at' # 1 =>
        step = "draining" /\ tracked[Servers[at]] = 0 /\ at' = at + 1
  BY DEF Move
<1>4. ASSUME NEW i \in 1 .. n
      PROVE  (\/ step' = "component"
              \/ step' = "starting" /\ i >= at') <=>
             (\/ step \in {"down", "component"}
              \/ step = "starting" /\ i >= at
              \/ step = "returning" /\ i > at)
  <2>1. i \in Nat /\ i >= 1 /\ (i >= at + 1 <=> i > at) /\ (i > at => at < n)
    BY <1>0
  <2>2. CASE step = "down" \/ step = "component"
    BY <2>1, <2>2 DEF Move
  <2>3. CASE step = "returning"
    BY <2>1, <2>3, <1>0 DEF Move
  <2>4. CASE step \notin {"down", "component", "returning"}
    BY <2>4 DEF Move
  <2> QED
    BY <2>2, <2>3, <2>4
<1> QED
  BY <1>1, <1>2, <1>3, <1>4

LEMMA ContinueMoves ==
  ASSUME TypeOK, Continue
  PROVE  /\ UNCHANGED <<thread, err, stopping, file, broken, tracked, http2>>
         /\ faults' \in 0 .. MaxFaults
         /\ Move(Len(Servers))
<1>1. at \in Nat /\ at <= Len(Servers) /\ Len(Servers) \in Nat /\ faults \in 0 .. MaxFaults
  BY AtFacts, ServerFacts
<1>2. CASE Start
  BY <1>1, <1>2 DEF Start, Goto, Move, serverVars, requestVars
<1>3. CASE BuildComponent
  BY <1>1, <1>3 DEF BuildComponent, Goto, Move, serverVars, requestVars
<1>4. CASE BuildReturns
  BY <1>1, <1>4 DEF BuildReturns, Advance, Goto, Move, serverVars, requestVars
<1>5. CASE ProbeFails
  BY <1>1, <1>5 DEF ProbeFails, Goto, Move, serverVars, requestVars
<1>6. CASE CloseComponent
  BY <1>1, <1>6 DEF CloseComponent, Goto, Move, serverVars, requestVars
<1>7. CASE Signal /\ step = "waiting"
  <2>1. Fault /\ Goto("closing component", 1) /\ UNCHANGED <<serverVars, requestVars>>
    BY <1>7 DEF Signal
  <2> QED
    BY <1>7, <2>1, FaultBounded DEF Goto, Move, serverVars, requestVars
<1>8. CASE ShutdownReturns /\ at # Len(Servers)
  BY <1>1, <1>8 DEF ShutdownReturns, Goto, Move, serverVars, requestVars
<1> QED
  BY <1>2, <1>3, <1>4, <1>5, <1>6, <1>7, <1>8 DEF Continue

\* The steps of the main thread that only move it.
LEMMA MovesKeepInv == ASSUME CommandInv, Continue PROVE CommandInv'
<1>0. PICK n \in Nat \ {0} : n = Len(Servers)
  BY ServerFacts
<1> TypeOK
  BY DEF CommandInv
<1>1. /\ UNCHANGED <<thread, err, stopping, file, broken, tracked, http2>>
      /\ faults' \in 0 .. MaxFaults /\ Move(n)
  BY ContinueMoves, <1>0
<1>2. n \in Nat \ {0} /\ at \in 1 .. n /\ DOMAIN Servers = 1 .. n
  BY <1>0, AtFacts, ServerFacts
<1>3. /\ step' \in {"component", "starting", "waiting", "closing component", "closing"}
      /\ at' \in 1 .. n
  BY <1>1, <1>2, MoveFacts
<1>4. ASSUME NEW i \in 1 .. n
      PROVE  thread[Servers[i]] = "none" <=>
               \/ step' = "component"
               \/ step' = "starting" /\ i >= at'
  <2>1. thread[Servers[i]] = "none" <=>
          \/ step \in {"down", "component"}
          \/ step = "starting" /\ i >= at
          \/ step = "returning" /\ i > at
    BY <1>0, AtFacts, <1>4
  <2> QED
    BY <2>1, <1>1, <1>2, <1>4, MoveFacts
<1>5. TypeOK'
  BY <1>1, <1>2, <1>3, <1>4 DEF TypeOK
<1>6. (OnlyEnvironmentFails /\ ReadyWithoutFile /\ StoppingDoNotServe)'
  BY <1>1 DEF CommandInv, OnlyEnvironmentFails, ReadyWithoutFile, StoppingDoNotServe
<1>7. ASSUME NEW i \in 1 .. n, ReachedByClose(i)'
      PROVE  /\ ReachedByClose(i)
             /\ i < at \/ tracked[Servers[i]] = 0
  <2>1. step' = "closing" /\ i < at'
    BY <1>3, <1>7 DEF ReachedByClose
  <2>2. step = "draining" /\ tracked[Servers[at]] = 0 /\ at' = at + 1
    BY <2>1, <1>1, <1>2, <1>7, MoveFacts
  <2> QED
    BY <2>1, <2>2, <1>2, <1>7 DEF ReachedByClose
<1>8. ReachedAreStopping'
  BY <1>1, <1>2, <1>7 DEF CommandInv, ReachedAreStopping
<1>9. ClosedIsDrained'
  <2> SUFFICES ASSUME NEW s \in Names, Closed(s)'
               PROVE  thread[s] # "serving" /\ tracked[s] = 0
    BY <1>1 DEF ClosedIsDrained
  <2>1. PICK i \in 1 .. n : Servers[i] = s /\ ReachedByClose(i)'
    BY <1>2 DEF Closed, ReachedByClose
  <2>2. ReachedByClose(i) /\ (i < at \/ tracked[s] = 0)
    BY <2>1, <1>7
  <2>3. thread[s] # "serving"
    BY <2>1, <2>2, <1>2 DEF CommandInv, ReachedAreStopping, StoppingDoNotServe
  <2>4. i < at => Closed(s)
    BY <2>1, <2>2, <1>2 DEF Closed, ReachedByClose
  <2> QED
    BY <2>2, <2>3, <2>4 DEF CommandInv, ClosedIsDrained
<1> QED
  BY <1>5, <1>6, <1>8, <1>9 DEF CommandInv

\* The steps that end the process.
End ==
  \/ BuildComponentFails \/ BuildFails \/ Crash
  \/ Signal /\ step # "waiting"
  \/ ShutdownReturns /\ at = Len(Servers)

LEMMA EndKeepsInv == ASSUME CommandInv, End PROVE CommandInv'
<1>1. Die
  BY DEF End, BuildComponentFails, BuildFails, Crash, Signal, ShutdownReturns
<1>2. UNCHANGED faults \/ Fault
  BY DEF End, BuildComponentFails, BuildFails, Crash, Signal, ShutdownReturns
<1>3. TypeOK
  BY DEF CommandInv
<1>4. faults' \in 0 .. MaxFaults
  BY <1>2, <1>3, AtFacts, FaultBounded
<1> QED
  BY <1>1, <1>4, DieKeepsInv

LEMMA StartServerKeepsInv == ASSUME CommandInv, StartServer PROVE CommandInv'
<1> TypeOK
  BY DEF CommandInv
<1>0. PICK n \in Nat \ {0} : n = Len(Servers)
  BY ServerFacts
<1>1. at \in 1 .. n /\ DOMAIN Servers = 1 .. n /\ at \in Nat
  BY <1>0, AtFacts, ServerFacts
<1>2. PICK s \in Names : s = Servers[at]
  BY <1>1, ServerFacts
<1>3. /\ step = "starting" /\ step' = "returning" /\ at' = at
      /\ thread' = [thread EXCEPT ![s] = "new"]
      /\ UNCHANGED <<err, stopping, file, broken, tracked, http2, faults>>
  BY <1>2 DEF StartServer, Goto, requestVars
<1>4. thread \in [Names -> {"none", "new", "ready", "listening", "serving", "finished", "failed"}]
  BY DEF TypeOK
<1>5. ASSUME NEW i \in 1 .. n
      PROVE  thread'[Servers[i]] = "none" <=> i > at
  <2>1. Servers[i] \in Names /\ (Servers[i] = s => i = at)
    BY <1>1, <1>2, ServerFacts
  <2>2. thread[Servers[i]] = "none" <=> i >= at
    BY <1>0, <1>3, AtFacts
  <2>3. CASE i = at
    BY <2>1, <2>3, <1>1, <1>2, <1>3, <1>4
  <2>4. CASE i # at
    <3>1. thread'[Servers[i]] = thread[Servers[i]]
      BY <2>1, <2>4, <1>3, <1>4
    <3> QED
      BY <3>1, <2>2, <2>4, <1>1
  <2> QED
    BY <2>3, <2>4
<1>6. TypeOK'
  <2>1. thread' \in [Names -> {"none", "new", "ready", "listening", "serving", "finished", "failed"}]
    BY <1>3, <1>4
  <2> QED
    BY <2>1, <1>1, <1>3, <1>5 DEF TypeOK
<1>7. \A r \in Names : thread'[r] \in {"failed", "ready", "serving"} => thread[r] = thread'[r]
  BY <1>3, <1>4
<1>8. (OnlyEnvironmentFails /\ ReadyWithoutFile /\ StoppingDoNotServe)'
  <2>1. stopping \subseteq Names
    BY DEF TypeOK
  <2> QED
    BY <2>1, <1>3, <1>7 DEF CommandInv, OnlyEnvironmentFails, ReadyWithoutFile, StoppingDoNotServe
<1>9. (ClosedIsDrained /\ ReachedAreStopping)'
  BY <1>3 DEF ClosedIsDrained, Closed, ReachedAreStopping, ReachedByClose
<1> QED
  BY <1>6, <1>8, <1>9 DEF CommandInv

LEMMA ShutdownKeepsInv == ASSUME CommandInv, Shutdown PROVE CommandInv'
<1> TypeOK
  BY DEF CommandInv
<1>0. PICK n \in Nat \ {0} : n = Len(Servers)
  BY ServerFacts
<1>1. at \in 1 .. n /\ DOMAIN Servers = 1 .. n /\ at \in Nat
  BY <1>0, AtFacts, ServerFacts
<1>2. PICK s \in Names : s = Servers[at]
  BY <1>1, ServerFacts
<1>3. /\ step = "closing" /\ step' = "draining" /\ at' = at
      /\ stopping' = stopping \cup {s}
      /\ thread' = [thread EXCEPT ![s] = IF thread[s] = "serving" THEN "finished" ELSE thread[s]]
      /\ file' \subseteq file
      /\ UNCHANGED <<err, broken, tracked, http2, faults>>
  BY <1>2 DEF Shutdown, Goto, requestVars
<1>4. /\ thread \in [Names -> {"none", "new", "ready", "listening", "serving", "finished", "failed"}]
      /\ stopping \subseteq Names /\ file \subseteq Unix
  BY DEF TypeOK
<1>5. thread' \in [Names -> {"none", "new", "ready", "listening", "serving", "finished", "failed"}]
  BY <1>3, <1>4
<1>6. \A r \in Names :
        /\ thread'[r] = "none" <=> thread[r] = "none"
        /\ thread'[r] \in {"failed", "ready", "serving"} => thread[r] = thread'[r]
        /\ r = s => thread'[r] # "serving"
  BY <1>3, <1>4
<1>7. TypeOK'
  <2>1. ASSUME NEW i \in 1 .. n
        PROVE  thread'[Servers[i]] # "none"
    BY <1>0, <1>1, <1>3, <1>6, AtFacts, ServerFacts
  <2> QED
    BY <2>1, <1>1, <1>3, <1>4, <1>5 DEF TypeOK
<1>8. (OnlyEnvironmentFails /\ ReadyWithoutFile)'
  BY <1>3, <1>6 DEF CommandInv, OnlyEnvironmentFails, ReadyWithoutFile
<1>9. StoppingDoNotServe'
  BY <1>3, <1>4, <1>6 DEF CommandInv, StoppingDoNotServe
<1>10. ReachedAreStopping'
  <2> SUFFICES ASSUME NEW i \in 1 .. n, ReachedByClose(i)'
               PROVE  Servers[i] \in stopping'
    BY <1>1 DEF ReachedAreStopping
  <2>1. CASE i = at
    BY <2>1, <1>2, <1>3
  <2>2. CASE i < at
    BY <2>2, <1>1, <1>3 DEF CommandInv, ReachedAreStopping, ReachedByClose
  <2> QED
    BY <2>1, <2>2, <1>3 DEF ReachedByClose
<1>11. ClosedIsDrained'
  <2> SUFFICES ASSUME NEW r \in Names, Closed(r)'
               PROVE  thread'[r] # "serving" /\ tracked[r] = 0
    BY <1>3 DEF ClosedIsDrained
  <2>1. Closed(r)
    BY <1>3 DEF Closed
  <2> QED
    BY <2>1, <1>6 DEF CommandInv, ClosedIsDrained
<1> QED
  BY <1>7, <1>8, <1>9, <1>10, <1>11 DEF CommandInv

\* What all the steps of the goroutine of server s have in common.
ThreadStep(s) ==
  /\ UNCHANGED <<step, at, stopping, tracked, http2>>
  /\ thread[s] \in {"new", "ready", "listening", "serving"}
  /\ \E state \in {"ready", "listening", "serving", "finished", "failed"} :
       /\ thread' = [thread EXCEPT ![s] = state]
       /\ state = "failed" => s \in broken'
       /\ state = "ready" => s \notin file'
       /\ state = "serving" => s \notin stopping
  /\ err' \subseteq err \cup (SharesError \cap {s})
  /\ broken \subseteq broken' /\ broken' \subseteq broken \cup {s}
  /\ file' \subseteq file \cup ({s} \cap Unix)
  /\ faults' \in 0 .. MaxFaults

LEMMA ThreadSteps ==
  ASSUME CommandInv, NEW s \in Names,
         Goroutine(s) \/ RemoveStaleFails(s) \/ ServeFails(s)
  PROVE  ThreadStep(s)
<1> TypeOK /\ ReadyWithoutFile
  BY DEF CommandInv
<1>0. faults \in 0 .. MaxFaults
  BY AtFacts
<1>1. CASE RemoveStale(s)
  BY <1>0, <1>1 DEF RemoveStale, SetThread, ThreadStep, mainVars, requestVars
<1>2. CASE Listen(s)
  BY <1>0, <1>2 DEF Listen, SetThread, ThreadStep, mainVars, requestVars
<1>3. CASE Serve(s)
  BY <1>0, <1>3 DEF Serve, SetThread, ThreadStep, mainVars, requestVars
<1>4. CASE ServeRefuses(s)
  BY <1>0, <1>4 DEF ServeRefuses, SetThread, ThreadStep, mainVars, requestVars
<1>5. ASSUME EnvironmentFails(s),
             thread[s] \in {"new", "ready", "listening", "serving"}, file' \subseteq file
      PROVE  ThreadStep(s)
  <2>1. faults' \in 0 .. MaxFaults
    BY <1>5, FaultBounded DEF EnvironmentFails
  <2>2. /\ thread' = [thread EXCEPT ![s] = "failed"]
        /\ err' \subseteq err \cup (SharesError \cap {s})
        /\ broken' = broken \cup {s}
        /\ UNCHANGED <<step, at, stopping, tracked, http2>>
    BY <1>5 DEF EnvironmentFails, ServeReturnsError, mainVars, requestVars
  <2> QED
    BY <1>5, <2>1, <2>2 DEF ThreadStep
<1>6. CASE ListenFails(s)
  <2>1. thread[s] = "ready" /\ s \notin file /\ UNCHANGED file
    BY <1>6 DEF ListenFails, ReadyWithoutFile
  <2>2. EnvironmentFails(s)
    BY <1>6, <2>1 DEF ListenFails
  <2> QED
    BY <2>1, <2>2, <1>5
<1>7. CASE RemoveStaleFails(s)
  BY <1>5, <1>7 DEF RemoveStaleFails
<1>8. CASE ServeFails(s)
  BY <1>5, <1>8 DEF ServeFails
<1> QED
  BY <1>1, <1>2, <1>3, <1>4, <1>6, <1>7, <1>8 DEF Goroutine

LEMMA ThreadKeepsInv ==
  ASSUME CommandInv, NEW s \in Names, ThreadStep(s)
  PROVE  CommandInv'
<1> TypeOK
  BY DEF CommandInv
<1>1. /\ thread \in [Names -> {"none", "new", "ready", "listening", "serving", "finished", "failed"}]
      /\ stopping \subseteq Names /\ file \subseteq Unix /\ broken \subseteq Names
      /\ err \subseteq SharesError \cap Names
  BY DEF TypeOK
<1>2. PICK state \in {"ready", "listening", "serving", "finished", "failed"} :
        /\ thread' = [thread EXCEPT ![s] = state]
        /\ state = "failed" => s \in broken'
        /\ state = "ready" => s \notin file'
        /\ state = "serving" => s \notin stopping
  BY DEF ThreadStep
<1>3. /\ thread' \in [Names -> {"none", "new", "ready", "listening", "serving", "finished", "failed"}]
      /\ \A r \in Names :
           /\ thread'[r] = "none" <=> thread[r] = "none"
           /\ r # s => thread'[r] = thread[r]
      /\ thread'[s] = state
  BY <1>1, <1>2 DEF ThreadStep
<1>4. TypeOK'
  <2>1. /\ err' \subseteq SharesError \cap Names
        /\ broken' \subseteq Names /\ file' \subseteq Unix
    BY <1>1 DEF ThreadStep
  <2>2. \A i \in DOMAIN Servers : thread'[Servers[i]] = "none" <=> thread[Servers[i]] = "none"
    BY <1>3, ServerFacts
  <2> QED
    BY <1>3, <2>1, <2>2 DEF TypeOK, ThreadStep
<1>5. OnlyEnvironmentFails'
  BY <1>2, <1>3 DEF CommandInv, OnlyEnvironmentFails, ThreadStep
<1>6. ReadyWithoutFile'
  BY <1>2, <1>3 DEF CommandInv, ReadyWithoutFile, ThreadStep
<1>7. StoppingDoNotServe'
  BY <1>1, <1>2, <1>3 DEF CommandInv, StoppingDoNotServe, ThreadStep
<1>8. ReachedAreStopping'
  BY DEF CommandInv, ReachedAreStopping, ReachedByClose, ThreadStep
<1>9. ClosedIsDrained'
  <2> SUFFICES ASSUME NEW r \in Names, Closed(r)'
               PROVE  thread'[r] # "serving" /\ tracked[r] = 0
    BY DEF ClosedIsDrained, ThreadStep
  <2>1. Closed(r)
    BY DEF Closed, ThreadStep
  <2>2. r \in stopping
    BY <2>1 DEF Closed, CommandInv, ReachedAreStopping, ReachedByClose
  <2> QED
    BY <2>1, <2>2, <1>1, <1>7 DEF CommandInv, ClosedIsDrained, StoppingDoNotServe, ThreadStep
<1> QED
  BY <1>4, <1>5, <1>6, <1>7, <1>8, <1>9 DEF CommandInv

\* Clients begin requests only in servers that serve.
LEMMA ClientKeepsInv ==
  ASSUME CommandInv, NEW s \in Names, Client(s)
  PROVE  CommandInv'
<1> TypeOK
  BY DEF CommandInv
<1>1. UNCHANGED <<step, at, thread, err, stopping, file, broken, faults>>
  BY DEF Client, Connect, Request, Respond, RespondHijacked, Disconnect, mainVars, serverVars
<1>2. /\ tracked \in [Names -> 0 .. MaxRequests]
      /\ http2 \in [Names -> Nat \cup {NotConnected}] /\ MaxRequests \in Nat
  BY CommandAssumption DEF TypeOK
<1>3. http2' \in [Names -> Nat \cup {NotConnected}]
  <2>1. UNCHANGED http2 \/ \E k \in Nat \cup {NotConnected} : http2' = [http2 EXCEPT ![s] = k]
    <3>1. http2[s] \in Nat => http2[s] + 1 \in Nat /\ (http2[s] > 0 => http2[s] - 1 \in Nat)
      OBVIOUS
    <3>2. http2[s] \in Nat \cup {NotConnected} /\ NotConnected = -1
      BY <1>2 DEF NotConnected
    <3>3. CASE Connect(s)
      BY <3>3 DEF Connect
    <3>4. CASE Request(s)
      <4>1. http2[s] \in Nat
        BY <3>4, <1>2 DEF Request
      <4> QED
        BY <4>1, <3>1, <3>4 DEF Request
    <3>5. CASE Respond(s)
      BY <3>5 DEF Respond
    <3>6. CASE RespondHijacked(s)
      <4>1. http2[s] \in Nat /\ http2[s] > 0
        BY <3>6, <3>2 DEF RespondHijacked
      <4> QED
        BY <4>1, <3>1, <3>6 DEF RespondHijacked
    <3>7. CASE Disconnect(s)
      BY <3>7 DEF Disconnect
    <3> QED
      BY <3>3, <3>4, <3>5, <3>6, <3>7 DEF Client
  <2> QED
    BY <1>2, <2>1
<1>4. /\ tracked' \in [Names -> 0 .. MaxRequests]
      /\ \A r \in Names : tracked[r] = 0 /\ thread[r] # "serving" => tracked'[r] = 0
  <2>1. CASE UNCHANGED tracked
    BY <2>1, <1>2
  <2>2. CASE Connect(s) /\ tracked' # tracked
    BY <2>2, <1>2 DEF Connect
  <2>3. CASE Respond(s)
    BY <2>3, <1>2 DEF Respond
  <2> QED
    BY <2>1, <2>2, <2>3 DEF Client, Request, RespondHijacked, Disconnect
<1>5. TypeOK'
  BY <1>1, <1>3, <1>4 DEF TypeOK
<1>6. (OnlyEnvironmentFails /\ ReadyWithoutFile /\ StoppingDoNotServe)'
  BY <1>1 DEF CommandInv, OnlyEnvironmentFails, ReadyWithoutFile, StoppingDoNotServe
<1>7. ReachedAreStopping'
  BY <1>1 DEF CommandInv, ReachedAreStopping, ReachedByClose
<1>8. ClosedIsDrained'
  BY <1>1, <1>4 DEF CommandInv, ClosedIsDrained, Closed
<1> QED
  BY <1>5, <1>6, <1>7, <1>8 DEF CommandInv

LEMMA CommandNext == ASSUME CommandInv, [Next]_vars PROVE CommandInv'
<1>1. CASE Continue
  BY <1>1, MovesKeepInv
<1>2. CASE End
  BY <1>2, EndKeepsInv
<1>3. CASE StartServer
  BY <1>3, StartServerKeepsInv
<1>4. CASE Shutdown
  BY <1>4, ShutdownKeepsInv
<1>5. CASE \E s \in Names : Goroutine(s) \/ RemoveStaleFails(s) \/ ServeFails(s)
  BY <1>5, ThreadSteps, ThreadKeepsInv
<1>6. CASE \E s \in Names : Client(s)
  BY <1>6, ClientKeepsInv
<1>7. CASE UNCHANGED vars
  BY <1>7 DEF vars, mainVars, serverVars, requestVars, CommandInv, TypeOK, OnlyEnvironmentFails,
              ReadyWithoutFile, StoppingDoNotServe, ReachedAreStopping, ReachedByClose,
              ClosedIsDrained, Closed
<1>8. Main \/ Start \/ BuildComponentFails \/ Signal \/ ProbeFails \/ Crash =>
        Continue \/ End \/ StartServer \/ Shutdown
  BY DEF Main, Continue, End
<1> QED
  BY <1>1, <1>2, <1>3, <1>4, <1>5, <1>6, <1>7, <1>8 DEF Next

\* The inductive invariant holds always, and with it the types of the main thread,
\* the goroutines and the requests, in the code of run and of the Build methods: a
\* goroutine exists exactly if its server has been started in this life of the
\* container.
THEOREM CommandCorrect == Spec => []CommandInv
BY CommandInit, CommandNext, PTL DEF Spec

\* helpers.Serve deletes the socket file that earlier containers may have left, in
\* whatever order they crashed, stopped and started: a server fails only if the
\* file system or the network did.
THEOREM RestartIsSafe == Spec => []OnlyEnvironmentFails
<1>1. CommandInv => OnlyEnvironmentFails
  BY DEF CommandInv
<1> QED
  BY <1>1, CommandCorrect, PTL

\* When Close of a server has returned, the server doesn't serve, although its
\* goroutine may not have begun to listen when Close was called, and the requests
\* that Shutdown knows about have ended.
THEOREM CloseDrains == Spec => []ClosedIsDrained
<1>1. CommandInv => ClosedIsDrained
  BY DEF CommandInv
<1> QED
  BY <1>1, CommandCorrect, PTL
=============================================================================
