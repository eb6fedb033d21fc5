------------------------- MODULE ObjectLifetimeProofs -------------------------
(***************************************************************************)
(* Proofs that objects outlive their users. About PythonBinding, for any   *)
(* number of Python and native threads and any choice of methods: its      *)
(* state is well-typed, and a callback that a thread is about to call is   *)
(* referenced unless it was replaced meanwhile. About HatLifecycle, for    *)
(* any product and any number of generations of an object: its state is    *)
(* well-typed, no thread runs on an object that is gone, and a GPIO line   *)
(* belongs to one object at a time.                                        *)
(***************************************************************************)
EXTENDS PythonBinding, HatLifecycle, SequenceTheorems, TLAPS

(* A thread that is in no method is idle; a method that keeps the GIL, and  *)
(* a callback, has it until it ends.                                        *)
InMethod ==
    \A t \in PyThreads :
        /\ py[t] = "idle" <=> call[t] = "none"
        /\ call[t] \in Releases \cup Keeps \cup {"none"}
        /\ py[t] = "send" => Sends(call[t])
        /\ logging[t] # "no" => py[t] = "send" /\ call[t] = "feed"
HasGil ==
    /\ \A t \in PyThreads : call[t] \notin Releases \cup {"none"} => gil = t
    /\ \A x \in Threads : logging[x] = "callback" => gil = x

(* A native thread that logs runs.                                          *)
LoggersRun ==
    \A h \in Workers : logging[h] # "no" => worker[h] \in {"register", "serve", "remove"}

(* The native threads of a caster outlive running_ only while somebody is   *)
(* in stop() to join them.                                                  *)
StoppedIsJoined ==
    kind = "caster" /\ ~running =>
        NoWorkers \/ \E t \in PyThreads : Stops(call[t]) /\ py[t] \in {"shutdown", "join"}

(* The deallocation is alone with the object and without its callback; when *)
(* it is about to give up the reference, every native thread has ended.     *)
DeallocAlone ==
    \A t \in PyThreads : call[t] = "dealloc" =>
        /\ ~logger /\ \A u \in PyThreads \ {t} : py[u] = "idle"
        /\ py[t] \in {"shutdown", "join", "return"} => ~running
        /\ py[t] = "return" => NoWorkers

LoggerReferenced == logger => referenced

ThreadsInv ==
    /\ InMethod /\ HasGil /\ LoggersRun /\ StoppedIsJoined /\ DeallocAlone

Inv == TypeOK /\ ThreadsInv /\ LoggerReferenced /\ CallbackReferenced

-----------------------------------------------------------------------------
(* The methods                                                              *)

(* No method has the name that stands for none.                             *)
LEMMA NoneIsNoMethod ==
    ASSUME kind \in Kinds, NEW m \in Releases \cup Keeps
    PROVE  m # "none"
<1>1. kind \in {"hat", "caster", "client", "server"}
  BY KindsAssumption
<1> QED
  BY <1>1 DEF Releases, Keeps, HatWaits, HatReads, HatCorrections, HatControls, HatTimeMarks,
              CasterReleases, CasterKeeps, ClientReleases, ClientKeeps, ServerReleases, ServerKeeps,
              LogSettings

(* feed() gives up the GIL in every object that has it.                     *)
LEMMA FeedReleases ==
    ASSUME kind \in Kinds, "feed" \in Releases \cup Keeps
    PROVE  "feed" \in Releases
<1>1. kind \in {"hat", "caster", "client", "server"}
  BY KindsAssumption
<1> QED
  BY <1>1 DEF Releases, Keeps, HatWaits, HatReads, HatCorrections, HatControls, HatTimeMarks,
              CasterReleases, CasterKeeps, ClientReleases, ClientKeeps, ServerReleases, ServerKeeps,
              LogSettings

(* An object remains what it is, and with it what its methods do.           *)
LEMMA KindStays ==
    ASSUME [Next]_vars
    PROVE  kind' = kind /\ Releases' = Releases /\ Keeps' = Keeps
<1>1. kind' = kind
  BY DEF Next, Native, Handler, LogStep, Call, Dealloc, Enter, Listen, SetLogCallback, UseObject, Send,
         Sent, StopRunning, ShutDown, JoinThreads, Awaited, Return, Spawn, Request, Ends, ChangeClients,
         ChangeSources, Relay, Relayed, Report, CheckCallback, CallCallback, EnsureGil, EndCallback, vars
<1> QED
  BY <1>1 DEF Releases, Keeps

-----------------------------------------------------------------------------
(* The steps                                                                *)

(* Every step keeps the types.                                              *)
LEMMA TypeOKStep ==
    ASSUME TypeOK, [Next]_vars
    PROVE  TypeOK'
<1> USE DEF TypeOK, Threads
<1>1. ASSUME NEW t \in PyThreads, NEW m \in Calls, Call(t, m)
      PROVE  TypeOK'
  BY <1>1 DEF Call, objectVars, workerVars, Enter
<1>2. ASSUME NEW t \in PyThreads, Dealloc(t)
      PROVE  TypeOK'
  BY <1>2 DEF Dealloc, workerVars, Enter
<1>3. ASSUME NEW t \in PyThreads, Listen(t)
      PROVE  TypeOK'
  BY <1>3 DEF Listen
<1>4. ASSUME NEW t \in PyThreads, SetLogCallback(t)
      PROVE  TypeOK'
  BY <1>4 DEF SetLogCallback
<1>5. ASSUME NEW t \in PyThreads, UseObject(t)
      PROVE  TypeOK'
  BY <1>5 DEF UseObject, objectVars, workerVars
<1>6. ASSUME NEW t \in PyThreads, Send(t)
      PROVE  TypeOK'
  BY <1>6 DEF Send, workerVars
<1>7. ASSUME NEW t \in PyThreads, Sent(t)
      PROVE  TypeOK'
  BY <1>7 DEF Sent
<1>8. ASSUME NEW t \in PyThreads, StopRunning(t)
      PROVE  TypeOK'
  BY <1>8 DEF StopRunning, workerVars
<1>9. ASSUME NEW t \in PyThreads, ShutDown(t)
      PROVE  TypeOK'
  BY <1>9 DEF ShutDown, objectVars, workerVars
<1>10. ASSUME NEW t \in PyThreads, JoinThreads(t)
       PROVE  TypeOK'
  BY <1>10 DEF JoinThreads, objectVars, workerVars
<1>11. ASSUME NEW t \in PyThreads, Awaited(t)
       PROVE  TypeOK'
  BY <1>11 DEF Awaited, objectVars, workerVars
<1>12. ASSUME NEW t \in PyThreads, Return(t)
       PROVE  TypeOK'
  BY <1>12 DEF Return, workerVars
<1>13. ASSUME NEW h \in Workers, Spawn(h)
       PROVE  TypeOK'
  BY <1>13 DEF Spawn, objectVars
<1>14. ASSUME NEW h \in Workers, Request(h)
       PROVE  TypeOK'
  BY <1>14 DEF Request, objectVars
<1>15. ASSUME NEW h \in Workers, Ends(h)
       PROVE  TypeOK'
  BY <1>15 DEF Ends, objectVars
<1>16. ASSUME NEW h \in Workers, ChangeClients(h)
       PROVE  TypeOK'
  BY <1>16 DEF ChangeClients
<1>17. ASSUME NEW h \in Workers, ChangeSources(h)
       PROVE  TypeOK'
  BY <1>17 DEF ChangeSources, objectVars
<1>18. ASSUME NEW h \in Workers, Relay(h)
       PROVE  TypeOK'
  BY <1>18 DEF Relay
<1>19. ASSUME NEW h \in Workers, Relayed(h)
       PROVE  TypeOK'
  BY <1>19 DEF Relayed
<1>20. ASSUME NEW h \in Workers, Report(h)
       PROVE  TypeOK'
  BY <1>20 DEF Report, objectVars
<1>21. ASSUME NEW x \in Threads, CheckCallback(x)
       PROVE  TypeOK'
  BY <1>21 DEF CheckCallback, Logged
<1>22. ASSUME NEW x \in Threads, CallCallback(x)
       PROVE  TypeOK'
  BY <1>22 DEF CallCallback, objectVars
<1>23. ASSUME NEW x \in Threads, EnsureGil(x)
       PROVE  TypeOK'
  BY <1>23 DEF EnsureGil, objectVars
<1>24. ASSUME NEW x \in Threads, EndCallback(x)
       PROVE  TypeOK'
  BY <1>24 DEF EndCallback, Logged
<1>25. CASE UNCHANGED vars
  BY <1>25 DEF vars, objectVars, workerVars
<1> QED
  BY <1>1, <1>2, <1>3, <1>4, <1>5, <1>6, <1>7, <1>8, <1>9, <1>10, <1>11, <1>12, <1>13,
     <1>14, <1>15, <1>16, <1>17, <1>18, <1>19, <1>20, <1>21, <1>22, <1>23, <1>24, <1>25
  DEF Next, Native, Handler, LogStep, Threads

(* A method begins and ends with its thread.                                *)
LEMMA InMethodStep ==
    ASSUME TypeOK, InMethod, [Next]_vars
    PROVE  InMethod'
<1> USE NoneIsNoMethod, NamesAssumption, KindStays
    DEF TypeOK, Threads, InMethod, Sends
<1>1. ASSUME NEW t \in PyThreads, NEW m \in Calls, Call(t, m)
      PROVE  InMethod'
  BY <1>1 DEF Call, objectVars, workerVars, Enter
<1>2. ASSUME NEW t \in PyThreads, Dealloc(t)
      PROVE  InMethod'
  BY <1>2 DEF Dealloc, workerVars, Enter
<1>3. ASSUME NEW t \in PyThreads, Listen(t)
      PROVE  InMethod'
  BY <1>3 DEF Listen
<1>4. ASSUME NEW t \in PyThreads, SetLogCallback(t)
      PROVE  InMethod'
  BY <1>4 DEF SetLogCallback
<1>5. ASSUME NEW t \in PyThreads, UseObject(t)
      PROVE  InMethod'
  BY <1>5 DEF UseObject, objectVars, workerVars
<1>6. ASSUME NEW t \in PyThreads, Send(t)
      PROVE  InMethod'
  BY <1>6 DEF Send, workerVars
<1>7. ASSUME NEW t \in PyThreads, Sent(t)
      PROVE  InMethod'
  BY <1>7 DEF Sent
<1>8. ASSUME NEW t \in PyThreads, StopRunning(t)
      PROVE  InMethod'
  BY <1>8 DEF StopRunning, workerVars
<1>9. ASSUME NEW t \in PyThreads, ShutDown(t)
      PROVE  InMethod'
  BY <1>9 DEF ShutDown, objectVars, workerVars
<1>10. ASSUME NEW t \in PyThreads, JoinThreads(t)
       PROVE  InMethod'
  BY <1>10 DEF JoinThreads, objectVars, workerVars
<1>11. ASSUME NEW t \in PyThreads, Awaited(t)
       PROVE  InMethod'
  BY <1>11 DEF Awaited, objectVars, workerVars
<1>12. ASSUME NEW t \in PyThreads, Return(t)
       PROVE  InMethod'
  BY <1>12 DEF Return, workerVars
<1>13. ASSUME NEW h \in Workers, Spawn(h)
       PROVE  InMethod'
  BY <1>13 DEF Spawn, objectVars
<1>14. ASSUME NEW h \in Workers, Request(h)
       PROVE  InMethod'
  BY <1>14 DEF Request, objectVars
<1>15. ASSUME NEW h \in Workers, Ends(h)
       PROVE  InMethod'
  BY <1>15 DEF Ends, objectVars
<1>16. ASSUME NEW h \in Workers, ChangeClients(h)
       PROVE  InMethod'
  BY <1>16 DEF ChangeClients
<1>17. ASSUME NEW h \in Workers, ChangeSources(h)
       PROVE  InMethod'
  BY <1>17 DEF ChangeSources, objectVars
<1>18. ASSUME NEW h \in Workers, Relay(h)
       PROVE  InMethod'
  BY <1>18 DEF Relay
<1>19. ASSUME NEW h \in Workers, Relayed(h)
       PROVE  InMethod'
  BY <1>19 DEF Relayed
<1>20. ASSUME NEW h \in Workers, Report(h)
       PROVE  InMethod'
  BY <1>20 DEF Report, objectVars
<1>21. ASSUME NEW x \in Threads, CheckCallback(x)
       PROVE  InMethod'
  BY <1>21 DEF CheckCallback, Logged
<1>22. ASSUME NEW x \in Threads, CallCallback(x)
       PROVE  InMethod'
  BY <1>22 DEF CallCallback, objectVars
<1>23. ASSUME NEW x \in Threads, EnsureGil(x)
       PROVE  InMethod'
  BY <1>23 DEF EnsureGil, objectVars
<1>24. ASSUME NEW x \in Threads, EndCallback(x)
       PROVE  InMethod'
  BY <1>24 DEF EndCallback, Logged
<1>25. CASE UNCHANGED vars
  BY <1>25 DEF vars, objectVars, workerVars
<1> QED
  BY <1>1, <1>2, <1>3, <1>4, <1>5, <1>6, <1>7, <1>8, <1>9, <1>10, <1>11, <1>12, <1>13,
     <1>14, <1>15, <1>16, <1>17, <1>18, <1>19, <1>20, <1>21, <1>22, <1>23, <1>24, <1>25
  DEF Next, Native, Handler, LogStep, Threads

(* Nobody takes the GIL from a method or a callback that has it.            *)
LEMMA HasGilStep ==
    ASSUME TypeOK, InMethod, HasGil, [Next]_vars
    PROVE  HasGil'
<1> USE NamesAssumption, KindStays, FeedReleases
    DEF TypeOK, Threads, InMethod, HasGil
<1>1. ASSUME NEW t \in PyThreads, NEW m \in Calls, Call(t, m)
      PROVE  HasGil'
  BY <1>1 DEF Call, objectVars, workerVars, Enter, AllowsThreads
<1>2. ASSUME NEW t \in PyThreads, Dealloc(t)
      PROVE  HasGil'
  BY <1>2 DEF Dealloc, workerVars, Enter, AllowsThreads
<1>3. ASSUME NEW t \in PyThreads, Listen(t)
      PROVE  HasGil'
  BY <1>3 DEF Listen
<1>4. ASSUME NEW t \in PyThreads, SetLogCallback(t)
      PROVE  HasGil'
  BY <1>4 DEF SetLogCallback
<1>5. ASSUME NEW t \in PyThreads, UseObject(t)
      PROVE  HasGil'
  BY <1>5 DEF UseObject, objectVars, workerVars
<1>6. ASSUME NEW t \in PyThreads, Send(t)
      PROVE  HasGil'
  BY <1>6 DEF Send, workerVars
<1>7. ASSUME NEW t \in PyThreads, Sent(t)
      PROVE  HasGil'
  BY <1>7 DEF Sent
<1>8. ASSUME NEW t \in PyThreads, StopRunning(t)
      PROVE  HasGil'
  BY <1>8 DEF StopRunning, workerVars
<1>9. ASSUME NEW t \in PyThreads, ShutDown(t)
      PROVE  HasGil'
  BY <1>9 DEF ShutDown, objectVars, workerVars
<1>10. ASSUME NEW t \in PyThreads, JoinThreads(t)
       PROVE  HasGil'
  BY <1>10 DEF JoinThreads, objectVars, workerVars
<1>11. ASSUME NEW t \in PyThreads, Awaited(t)
       PROVE  HasGil'
  BY <1>11 DEF Awaited, objectVars, workerVars
<1>12. ASSUME NEW t \in PyThreads, Return(t)
       PROVE  HasGil'
  BY <1>12 DEF Return, workerVars
<1>13. ASSUME NEW h \in Workers, Spawn(h)
       PROVE  HasGil'
  BY <1>13 DEF Spawn, objectVars
<1>14. ASSUME NEW h \in Workers, Request(h)
       PROVE  HasGil'
  BY <1>14 DEF Request, objectVars
<1>15. ASSUME NEW h \in Workers, Ends(h)
       PROVE  HasGil'
  BY <1>15 DEF Ends, objectVars
<1>16. ASSUME NEW h \in Workers, ChangeClients(h)
       PROVE  HasGil'
  BY <1>16 DEF ChangeClients
<1>17. ASSUME NEW h \in Workers, ChangeSources(h)
       PROVE  HasGil'
  BY <1>17 DEF ChangeSources, objectVars
<1>18. ASSUME NEW h \in Workers, Relay(h)
       PROVE  HasGil'
  BY <1>18 DEF Relay
<1>19. ASSUME NEW h \in Workers, Relayed(h)
       PROVE  HasGil'
  BY <1>19 DEF Relayed
<1>20. ASSUME NEW h \in Workers, Report(h)
       PROVE  HasGil'
  BY <1>20 DEF Report, objectVars
<1>21. ASSUME NEW x \in Threads, CheckCallback(x)
       PROVE  HasGil'
  BY <1>21 DEF CheckCallback, Logged
<1>22. ASSUME NEW x \in Threads, CallCallback(x)
       PROVE  HasGil'
  BY <1>22 DEF CallCallback, objectVars
<1>23. ASSUME NEW x \in Threads, EnsureGil(x)
       PROVE  HasGil'
  BY <1>23 DEF EnsureGil, objectVars
<1>24. ASSUME NEW x \in Threads, EndCallback(x)
       PROVE  HasGil'
  BY <1>24 DEF EndCallback, Logged
<1>25. CASE UNCHANGED vars
  BY <1>25 DEF vars, objectVars, workerVars
<1> QED
  BY <1>1, <1>2, <1>3, <1>4, <1>5, <1>6, <1>7, <1>8, <1>9, <1>10, <1>11, <1>12, <1>13,
     <1>14, <1>15, <1>16, <1>17, <1>18, <1>19, <1>20, <1>21, <1>22, <1>23, <1>24, <1>25
  DEF Next, Native, Handler, LogStep, Threads

(* A native thread ends only between two messages.                          *)
LEMMA LoggersRunStep ==
    ASSUME TypeOK, LoggersRun, [Next]_vars
    PROVE  LoggersRun'
<1> USE NamesAssumption
    DEF TypeOK, Threads, LoggersRun
<1>1. ASSUME NEW t \in PyThreads, NEW m \in Calls, Call(t, m)
      PROVE  LoggersRun'
  BY <1>1 DEF Call, objectVars, workerVars, Enter
<1>2. ASSUME NEW t \in PyThreads, Dealloc(t)
      PROVE  LoggersRun'
  BY <1>2 DEF Dealloc, workerVars, Enter
<1>3. ASSUME NEW t \in PyThreads, Listen(t)
      PROVE  LoggersRun'
  BY <1>3 DEF Listen
<1>4. ASSUME NEW t \in PyThreads, SetLogCallback(t)
      PROVE  LoggersRun'
  BY <1>4 DEF SetLogCallback
<1>5. ASSUME NEW t \in PyThreads, UseObject(t)
      PROVE  LoggersRun'
  BY <1>5 DEF UseObject, objectVars, workerVars
<1>6. ASSUME NEW t \in PyThreads, Send(t)
      PROVE  LoggersRun'
  BY <1>6 DEF Send, workerVars
<1>7. ASSUME NEW t \in PyThreads, Sent(t)
      PROVE  LoggersRun'
  BY <1>7 DEF Sent
<1>8. ASSUME NEW t \in PyThreads, StopRunning(t)
      PROVE  LoggersRun'
  BY <1>8 DEF StopRunning, workerVars
<1>9. ASSUME NEW t \in PyThreads, ShutDown(t)
      PROVE  LoggersRun'
  BY <1>9 DEF ShutDown, objectVars, workerVars
<1>10. ASSUME NEW t \in PyThreads, JoinThreads(t)
       PROVE  LoggersRun'
  BY <1>10 DEF JoinThreads, objectVars, workerVars
<1>11. ASSUME NEW t \in PyThreads, Awaited(t)
       PROVE  LoggersRun'
  BY <1>11 DEF Awaited, objectVars, workerVars
<1>12. ASSUME NEW t \in PyThreads, Return(t)
       PROVE  LoggersRun'
  BY <1>12 DEF Return, workerVars
<1>13. ASSUME NEW h \in Workers, Spawn(h)
       PROVE  LoggersRun'
  BY <1>13 DEF Spawn, objectVars
<1>14. ASSUME NEW h \in Workers, Request(h)
       PROVE  LoggersRun'
  BY <1>14 DEF Request, objectVars
<1>15. ASSUME NEW h \in Workers, Ends(h)
       PROVE  LoggersRun'
  BY <1>15 DEF Ends, objectVars
<1>16. ASSUME NEW h \in Workers, ChangeClients(h)
       PROVE  LoggersRun'
  BY <1>16 DEF ChangeClients
<1>17. ASSUME NEW h \in Workers, ChangeSources(h)
       PROVE  LoggersRun'
  BY <1>17 DEF ChangeSources, objectVars
<1>18. ASSUME NEW h \in Workers, Relay(h)
       PROVE  LoggersRun'
  BY <1>18 DEF Relay
<1>19. ASSUME NEW h \in Workers, Relayed(h)
       PROVE  LoggersRun'
  BY <1>19 DEF Relayed
<1>20. ASSUME NEW h \in Workers, Report(h)
       PROVE  LoggersRun'
  BY <1>20 DEF Report, objectVars
<1>21. ASSUME NEW x \in Threads, CheckCallback(x)
       PROVE  LoggersRun'
  BY <1>21 DEF CheckCallback, Logged
<1>22. ASSUME NEW x \in Threads, CallCallback(x)
       PROVE  LoggersRun'
  BY <1>22 DEF CallCallback, objectVars
<1>23. ASSUME NEW x \in Threads, EnsureGil(x)
       PROVE  LoggersRun'
  BY <1>23 DEF EnsureGil, objectVars
<1>24. ASSUME NEW x \in Threads, EndCallback(x)
       PROVE  LoggersRun'
  BY <1>24 DEF EndCallback, Logged
<1>25. CASE UNCHANGED vars
  BY <1>25 DEF vars, objectVars, workerVars
<1> QED
  BY <1>1, <1>2, <1>3, <1>4, <1>5, <1>6, <1>7, <1>8, <1>9, <1>10, <1>11, <1>12, <1>13,
     <1>14, <1>15, <1>16, <1>17, <1>18, <1>19, <1>20, <1>21, <1>22, <1>23, <1>24, <1>25
  DEF Next, Native, Handler, LogStep, Threads

(* A caster that stops has its handlers joined by whoever stopped it.       *)
LEMMA StoppedIsJoinedStep ==
    ASSUME TypeOK, InMethod, StoppedIsJoined, [Next]_vars
    PROVE  StoppedIsJoined'
<1> USE DEF TypeOK, Threads, InMethod, StoppedIsJoined, Starts, Stops, NoWorkers, HatWaits
<1>1. ASSUME NEW t \in PyThreads, NEW m \in Calls, Call(t, m)
      PROVE  StoppedIsJoined'
  BY <1>1 DEF Call, objectVars, workerVars, Enter
<1>2. ASSUME NEW t \in PyThreads, Dealloc(t)
      PROVE  StoppedIsJoined'
  BY <1>2 DEF Dealloc, workerVars, Enter
<1>3. ASSUME NEW t \in PyThreads, Listen(t)
      PROVE  StoppedIsJoined'
  BY <1>3 DEF Listen
<1>4. ASSUME NEW t \in PyThreads, SetLogCallback(t)
      PROVE  StoppedIsJoined'
  BY <1>4 DEF SetLogCallback
<1>5. ASSUME NEW t \in PyThreads, UseObject(t)
      PROVE  StoppedIsJoined'
  BY <1>5 DEF UseObject, objectVars, workerVars
<1>6. ASSUME NEW t \in PyThreads, Send(t)
      PROVE  StoppedIsJoined'
  BY <1>6 DEF Send, workerVars
<1>7. ASSUME NEW t \in PyThreads, Sent(t)
      PROVE  StoppedIsJoined'
  BY <1>7 DEF Sent
<1>8. ASSUME NEW t \in PyThreads, StopRunning(t)
      PROVE  StoppedIsJoined'
  BY <1>8 DEF StopRunning, workerVars
<1>9. ASSUME NEW t \in PyThreads, ShutDown(t)
      PROVE  StoppedIsJoined'
  BY <1>9 DEF ShutDown, objectVars, workerVars
<1>10. ASSUME NEW t \in PyThreads, JoinThreads(t)
       PROVE  StoppedIsJoined'
  BY <1>10 DEF JoinThreads, objectVars, workerVars
<1>11. ASSUME NEW t \in PyThreads, Awaited(t)
       PROVE  StoppedIsJoined'
  BY <1>11 DEF Awaited, objectVars, workerVars
<1>12. ASSUME NEW t \in PyThreads, Return(t)
       PROVE  StoppedIsJoined'
  BY <1>12 DEF Return, workerVars
<1>13. ASSUME NEW h \in Workers, Spawn(h)
       PROVE  StoppedIsJoined'
  BY <1>13 DEF Spawn, objectVars
<1>14. ASSUME NEW h \in Workers, Request(h)
       PROVE  StoppedIsJoined'
  BY <1>14 DEF Request, objectVars
<1>15. ASSUME NEW h \in Workers, Ends(h)
       PROVE  StoppedIsJoined'
  BY <1>15 DEF Ends, objectVars
<1>16. ASSUME NEW h \in Workers, ChangeClients(h)
       PROVE  StoppedIsJoined'
  BY <1>16 DEF ChangeClients
<1>17. ASSUME NEW h \in Workers, ChangeSources(h)
       PROVE  StoppedIsJoined'
  BY <1>17 DEF ChangeSources, objectVars
<1>18. ASSUME NEW h \in Workers, Relay(h)
       PROVE  StoppedIsJoined'
  BY <1>18 DEF Relay
<1>19. ASSUME NEW h \in Workers, Relayed(h)
       PROVE  StoppedIsJoined'
  BY <1>19 DEF Relayed
<1>20. ASSUME NEW h \in Workers, Report(h)
       PROVE  StoppedIsJoined'
  BY <1>20 DEF Report, objectVars
<1>21. ASSUME NEW x \in Threads, CheckCallback(x)
       PROVE  StoppedIsJoined'
  BY <1>21 DEF CheckCallback, Logged
<1>22. ASSUME NEW x \in Threads, CallCallback(x)
       PROVE  StoppedIsJoined'
  BY <1>22 DEF CallCallback, objectVars
<1>23. ASSUME NEW x \in Threads, EnsureGil(x)
       PROVE  StoppedIsJoined'
  BY <1>23 DEF EnsureGil, objectVars
<1>24. ASSUME NEW x \in Threads, EndCallback(x)
       PROVE  StoppedIsJoined'
  BY <1>24 DEF EndCallback, Logged
<1>25. CASE UNCHANGED vars
  BY <1>25 DEF vars, objectVars, workerVars
<1> QED
  BY <1>1, <1>2, <1>3, <1>4, <1>5, <1>6, <1>7, <1>8, <1>9, <1>10, <1>11, <1>12, <1>13,
     <1>14, <1>15, <1>16, <1>17, <1>18, <1>19, <1>20, <1>21, <1>22, <1>23, <1>24, <1>25
  DEF Next, Native, Handler, LogStep, Threads

(* Nothing is started or set any more once the object is deallocated.       *)
LEMMA DeallocAloneStep ==
    ASSUME TypeOK, InMethod, StoppedIsJoined, DeallocAlone, [Next]_vars
    PROVE  DeallocAlone'
<1> USE NoneIsNoMethod
    DEF TypeOK, Threads, InMethod, StoppedIsJoined, DeallocAlone, Starts, Stops, Sends, NoWorkers
<1>1. ASSUME NEW t \in PyThreads, NEW m \in Calls, Call(t, m)
      PROVE  DeallocAlone'
  BY <1>1 DEF Call, objectVars, workerVars, Enter
<1>2. ASSUME NEW t \in PyThreads, Dealloc(t)
      PROVE  DeallocAlone'
  BY <1>2 DEF Dealloc, workerVars, Enter
<1>3. ASSUME NEW t \in PyThreads, Listen(t)
      PROVE  DeallocAlone'
  BY <1>3 DEF Listen
<1>4. ASSUME NEW t \in PyThreads, SetLogCallback(t)
      PROVE  DeallocAlone'
  BY <1>4 DEF SetLogCallback
<1>5. ASSUME NEW t \in PyThreads, UseObject(t)
      PROVE  DeallocAlone'
  BY <1>5 DEF UseObject, objectVars, workerVars
<1>6. ASSUME NEW t \in PyThreads, Send(t)
      PROVE  DeallocAlone'
  BY <1>6 DEF Send, workerVars
<1>7. ASSUME NEW t \in PyThreads, Sent(t)
      PROVE  DeallocAlone'
  BY <1>7 DEF Sent
<1>8. ASSUME NEW t \in PyThreads, StopRunning(t)
      PROVE  DeallocAlone'
  BY <1>8 DEF StopRunning, workerVars
<1>9. ASSUME NEW t \in PyThreads, ShutDown(t)
      PROVE  DeallocAlone'
  BY <1>9 DEF ShutDown, objectVars, workerVars
<1>10. ASSUME NEW t \in PyThreads, JoinThreads(t)
       PROVE  DeallocAlone'
  BY <1>10 DEF JoinThreads, objectVars, workerVars
<1>11. ASSUME NEW t \in PyThreads, Awaited(t)
       PROVE  DeallocAlone'
  BY <1>11 DEF Awaited, objectVars, workerVars, HatWaits
<1>12. ASSUME NEW t \in PyThreads, Return(t)
       PROVE  DeallocAlone'
  BY <1>12 DEF Return, workerVars
<1>13. ASSUME NEW h \in Workers, Spawn(h)
       PROVE  DeallocAlone'
  BY <1>13 DEF Spawn, objectVars
<1>14. ASSUME NEW h \in Workers, Request(h)
       PROVE  DeallocAlone'
  BY <1>14 DEF Request, objectVars
<1>15. ASSUME NEW h \in Workers, Ends(h)
       PROVE  DeallocAlone'
  BY <1>15 DEF Ends, objectVars
<1>16. ASSUME NEW h \in Workers, ChangeClients(h)
       PROVE  DeallocAlone'
  BY <1>16 DEF ChangeClients
<1>17. ASSUME NEW h \in Workers, ChangeSources(h)
       PROVE  DeallocAlone'
  BY <1>17 DEF ChangeSources, objectVars
<1>18. ASSUME NEW h \in Workers, Relay(h)
       PROVE  DeallocAlone'
  BY <1>18 DEF Relay
<1>19. ASSUME NEW h \in Workers, Relayed(h)
       PROVE  DeallocAlone'
  BY <1>19 DEF Relayed
<1>20. ASSUME NEW h \in Workers, Report(h)
       PROVE  DeallocAlone'
  BY <1>20 DEF Report, objectVars
<1>21. ASSUME NEW x \in Threads, CheckCallback(x)
       PROVE  DeallocAlone'
  BY <1>21 DEF CheckCallback, Logged
<1>22. ASSUME NEW x \in Threads, CallCallback(x)
       PROVE  DeallocAlone'
  BY <1>22 DEF CallCallback, objectVars
<1>23. ASSUME NEW x \in Threads, EnsureGil(x)
       PROVE  DeallocAlone'
  BY <1>23 DEF EnsureGil, objectVars
<1>24. ASSUME NEW x \in Threads, EndCallback(x)
       PROVE  DeallocAlone'
  BY <1>24 DEF EndCallback, Logged
<1>25. CASE UNCHANGED vars
  BY <1>25 DEF vars, objectVars, workerVars
<1> QED
  BY <1>1, <1>2, <1>3, <1>4, <1>5, <1>6, <1>7, <1>8, <1>9, <1>10, <1>11, <1>12, <1>13,
     <1>14, <1>15, <1>16, <1>17, <1>18, <1>19, <1>20, <1>21, <1>22, <1>23, <1>24, <1>25
  DEF Next, Native, Handler, LogStep, Threads

(* The callback is given up only after the deallocation has cleared it.     *)
LEMMA LoggerReferencedStep ==
    ASSUME TypeOK, DeallocAlone, LoggerReferenced, [Next]_vars
    PROVE  LoggerReferenced'
<1> USE DEF TypeOK, Threads, DeallocAlone, LoggerReferenced
<1>1. ASSUME NEW t \in PyThreads, NEW m \in Calls, Call(t, m)
      PROVE  LoggerReferenced'
  BY <1>1 DEF Call, objectVars, workerVars, Enter
<1>2. ASSUME NEW t \in PyThreads, Dealloc(t)
      PROVE  LoggerReferenced'
  BY <1>2 DEF Dealloc, workerVars, Enter
<1>3. ASSUME NEW t \in PyThreads, Listen(t)
      PROVE  LoggerReferenced'
  BY <1>3 DEF Listen
<1>4. ASSUME NEW t \in PyThreads, SetLogCallback(t)
      PROVE  LoggerReferenced'
  BY <1>4 DEF SetLogCallback
<1>5. ASSUME NEW t \in PyThreads, UseObject(t)
      PROVE  LoggerReferenced'
  BY <1>5 DEF UseObject, objectVars, workerVars
<1>6. ASSUME NEW t \in PyThreads, Send(t)
      PROVE  LoggerReferenced'
  BY <1>6 DEF Send, workerVars
<1>7. ASSUME NEW t \in PyThreads, Sent(t)
      PROVE  LoggerReferenced'
  BY <1>7 DEF Sent
<1>8. ASSUME NEW t \in PyThreads, StopRunning(t)
      PROVE  LoggerReferenced'
  BY <1>8 DEF StopRunning, workerVars
<1>9. ASSUME NEW t \in PyThreads, ShutDown(t)
      PROVE  LoggerReferenced'
  BY <1>9 DEF ShutDown, objectVars, workerVars
<1>10. ASSUME NEW t \in PyThreads, JoinThreads(t)
       PROVE  LoggerReferenced'
  BY <1>10 DEF JoinThreads, objectVars, workerVars
<1>11. ASSUME NEW t \in PyThreads, Awaited(t)
       PROVE  LoggerReferenced'
  BY <1>11 DEF Awaited, objectVars, workerVars
<1>12. ASSUME NEW t \in PyThreads, Return(t)
       PROVE  LoggerReferenced'
  BY <1>12 DEF Return, workerVars
<1>13. ASSUME NEW h \in Workers, Spawn(h)
       PROVE  LoggerReferenced'
  BY <1>13 DEF Spawn, objectVars
<1>14. ASSUME NEW h \in Workers, Request(h)
       PROVE  LoggerReferenced'
  BY <1>14 DEF Request, objectVars
<1>15. ASSUME NEW h \in Workers, Ends(h)
       PROVE  LoggerReferenced'
  BY <1>15 DEF Ends, objectVars
<1>16. ASSUME NEW h \in Workers, ChangeClients(h)
       PROVE  LoggerReferenced'
  BY <1>16 DEF ChangeClients
<1>17. ASSUME NEW h \in Workers, ChangeSources(h)
       PROVE  LoggerReferenced'
  BY <1>17 DEF ChangeSources, objectVars
<1>18. ASSUME NEW h \in Workers, Relay(h)
       PROVE  LoggerReferenced'
  BY <1>18 DEF Relay
<1>19. ASSUME NEW h \in Workers, Relayed(h)
       PROVE  LoggerReferenced'
  BY <1>19 DEF Relayed
<1>20. ASSUME NEW h \in Workers, Report(h)
       PROVE  LoggerReferenced'
  BY <1>20 DEF Report, objectVars
<1>21. ASSUME NEW x \in Threads, CheckCallback(x)
       PROVE  LoggerReferenced'
  BY <1>21 DEF CheckCallback, Logged
<1>22. ASSUME NEW x \in Threads, CallCallback(x)
       PROVE  LoggerReferenced'
  BY <1>22 DEF CallCallback, objectVars
<1>23. ASSUME NEW x \in Threads, EnsureGil(x)
       PROVE  LoggerReferenced'
  BY <1>23 DEF EnsureGil, objectVars
<1>24. ASSUME NEW x \in Threads, EndCallback(x)
       PROVE  LoggerReferenced'
  BY <1>24 DEF EndCallback, Logged
<1>25. CASE UNCHANGED vars
  BY <1>25 DEF vars, objectVars, workerVars
<1> QED
  BY <1>1, <1>2, <1>3, <1>4, <1>5, <1>6, <1>7, <1>8, <1>9, <1>10, <1>11, <1>12, <1>13,
     <1>14, <1>15, <1>16, <1>17, <1>18, <1>19, <1>20, <1>21, <1>22, <1>23, <1>24, <1>25
  DEF Next, Native, Handler, LogStep, Threads

(* ... and after everybody who is about to call it has ended.               *)
LEMMA CallbackReferencedStep ==
    ASSUME TypeOK, InMethod, LoggersRun, DeallocAlone, LoggerReferenced,
           CallbackReferenced, [Next]_vars
    PROVE  CallbackReferenced'
<1> USE DEF TypeOK, InMethod, LoggersRun, DeallocAlone, LoggerReferenced,
            CallbackReferenced, NoWorkers, Threads
<1>1. ASSUME NEW t \in PyThreads, NEW m \in Calls, Call(t, m)
      PROVE  CallbackReferenced'
  BY <1>1 DEF Call, objectVars, workerVars, Enter
<1>2. ASSUME NEW t \in PyThreads, Dealloc(t)
      PROVE  CallbackReferenced'
  BY <1>2 DEF Dealloc, workerVars, Enter
<1>3. ASSUME NEW t \in PyThreads, Listen(t)
      PROVE  CallbackReferenced'
  BY <1>3 DEF Listen
<1>4. ASSUME NEW t \in PyThreads, SetLogCallback(t)
      PROVE  CallbackReferenced'
  BY <1>4 DEF SetLogCallback
<1>5. ASSUME NEW t \in PyThreads, UseObject(t)
      PROVE  CallbackReferenced'
  BY <1>5 DEF UseObject, objectVars, workerVars
<1>6. ASSUME NEW t \in PyThreads, Send(t)
      PROVE  CallbackReferenced'
  BY <1>6 DEF Send, workerVars
<1>7. ASSUME NEW t \in PyThreads, Sent(t)
      PROVE  CallbackReferenced'
  BY <1>7 DEF Sent
<1>8. ASSUME NEW t \in PyThreads, StopRunning(t)
      PROVE  CallbackReferenced'
  BY <1>8 DEF StopRunning, workerVars
<1>9. ASSUME NEW t \in PyThreads, ShutDown(t)
      PROVE  CallbackReferenced'
  BY <1>9 DEF ShutDown, objectVars, workerVars
<1>10. ASSUME NEW t \in PyThreads, JoinThreads(t)
       PROVE  CallbackReferenced'
  BY <1>10 DEF JoinThreads, objectVars, workerVars
<1>11. ASSUME NEW t \in PyThreads, Awaited(t)
       PROVE  CallbackReferenced'
  BY <1>11 DEF Awaited, objectVars, workerVars
<1>12. ASSUME NEW t \in PyThreads, Return(t)
       PROVE  CallbackReferenced'
  BY <1>12 DEF Return, workerVars
<1>13. ASSUME NEW h \in Workers, Spawn(h)
       PROVE  CallbackReferenced'
  BY <1>13 DEF Spawn, objectVars
<1>14. ASSUME NEW h \in Workers, Request(h)
       PROVE  CallbackReferenced'
  BY <1>14 DEF Request, objectVars
<1>15. ASSUME NEW h \in Workers, Ends(h)
       PROVE  CallbackReferenced'
  BY <1>15 DEF Ends, objectVars
<1>16. ASSUME NEW h \in Workers, ChangeClients(h)
       PROVE  CallbackReferenced'
  BY <1>16 DEF ChangeClients
<1>17. ASSUME NEW h \in Workers, ChangeSources(h)
       PROVE  CallbackReferenced'
  BY <1>17 DEF ChangeSources, objectVars
<1>18. ASSUME NEW h \in Workers, Relay(h)
       PROVE  CallbackReferenced'
  BY <1>18 DEF Relay
<1>19. ASSUME NEW h \in Workers, Relayed(h)
       PROVE  CallbackReferenced'
  BY <1>19 DEF Relayed
<1>20. ASSUME NEW h \in Workers, Report(h)
       PROVE  CallbackReferenced'
  BY <1>20 DEF Report, objectVars
<1>21. ASSUME NEW x \in Threads, CheckCallback(x)
       PROVE  CallbackReferenced'
  BY <1>21 DEF CheckCallback, Logged
<1>22. ASSUME NEW x \in Threads, CallCallback(x)
       PROVE  CallbackReferenced'
  BY <1>22 DEF CallCallback, objectVars
<1>23. ASSUME NEW x \in Threads, EnsureGil(x)
       PROVE  CallbackReferenced'
  BY <1>23 DEF EnsureGil, objectVars
<1>24. ASSUME NEW x \in Threads, EndCallback(x)
       PROVE  CallbackReferenced'
  BY <1>24 DEF EndCallback, Logged
<1>25. CASE UNCHANGED vars
  BY <1>25 DEF vars, objectVars, workerVars
<1> QED
  BY <1>1, <1>2, <1>3, <1>4, <1>5, <1>6, <1>7, <1>8, <1>9, <1>10, <1>11, <1>12, <1>13,
     <1>14, <1>15, <1>16, <1>17, <1>18, <1>19, <1>20, <1>21, <1>22, <1>23, <1>24, <1>25
  DEF Next, Native, Handler, LogStep, Threads

-----------------------------------------------------------------------------
(* The inductive invariant *)

(* Nothing is called and no callback is set at first.                       *)
LEMMA InitInv == Init => Inv
<1> SUFFICES ASSUME Init PROVE Inv
  OBVIOUS
<1>1. TypeOK
  BY DEF Init, TypeOK, Threads
<1>2. InMethod /\ HasGil /\ LoggersRun
  BY DEF Init, InMethod, HasGil, LoggersRun, Threads
<1>3. StoppedIsJoined /\ DeallocAlone
  BY DEF Init, StoppedIsJoined, DeallocAlone, NoWorkers
<1>4. LoggerReferenced /\ CallbackReferenced
  BY DEF Init, LoggerReferenced, CallbackReferenced, Threads
<1> QED
  BY <1>1, <1>2, <1>3, <1>4 DEF Inv, ThreadsInv

(* Every step keeps the invariant of the binding.                           *)
LEMMA NextInv == Inv /\ [Next]_vars => Inv'
BY TypeOKStep, InMethodStep, HasGilStep, LoggersRunStep, StoppedIsJoinedStep,
   DeallocAloneStep, LoggerReferencedStep, CallbackReferencedStep
DEF Inv, ThreadsInv

(* The binding's state is well-typed for every number of threads and every  *)
(* choice of methods.                                                       *)
THEOREM BindingTypeCorrect == Spec => []TypeOK
<1>1. Inv => TypeOK
  BY DEF Inv
<1> QED
  BY <1>1, InitInv, NextInv, PTL DEF Spec

(* A thread that has decided to call the Python callback finds it           *)
(* referenced, however long it waits for the GIL, and whatever the program  *)
(* calls in the meantime, the deallocation included, but for                *)
(* set_log_callback(): the binding drops the old callback whoever is about  *)
(* to call it (NtripCaster_set_log_callback, jp_gnss_module.c).             *)
THEOREM CallbackOutlivesItsCallers == Spec => []CallbackReferenced
<1>1. Inv => CallbackReferenced
  BY DEF Inv
<1> QED
  BY <1>1, InitInv, NextInv, PTL DEF Spec

-----------------------------------------------------------------------------
(* The HAT: sequences of steps                                              *)

(* A sequence holds a step; holds steps of these kinds only; holds a step   *)
(* at most once.                                                            *)
Has(s, k, c) == \E i \in 1..Len(s) : s[i][1] = k /\ s[i][2] = c
Only(s, K) == \A i \in 1..Len(s) : s[i][1] \in K
Once(s, k, c) ==
    \A i, j \in 1..Len(s) : s[i][1] = k /\ s[i][2] = c /\ s[j][1] = k /\ s[j][2] = c => i = j

(* Every <<l, d>> comes after some <<k, c>>; after every <<k, c>>.          *)
Precedes(s, k, c, l, d) ==
    \A i \in 1..Len(s) : s[i][1] = l /\ s[i][2] = d => \E j \in 1..(i - 1) : s[j][1] = k /\ s[j][2] = c
Before(s, k, c, l, d) ==
    \A i, j \in 1..Len(s) : s[i][1] = k /\ s[i][2] = c /\ s[j][1] = l /\ s[j][2] = d => i < j

(* The steps that are left once the object a step replaced is deleted.      *)
AtDelete == todo # <<>> /\ Next1[1] = "delete"
Ahead == IF AtDelete THEN Tail(todo) ELSE todo
Destroying == Has(Ahead, "gone", "hat")

UbloxParts == {"ublox", "run", "parser", "registry"}
UbloxFixed == {"commDriver", "store", "notifiers"}
Threaded == {"run", "txReady", "timepulse", "forwarder"}
Lines == {"txReady", "timepulse", "timeMarkTrigger"}
Building == {"make", "thread", "validate", "startup", "createVirtualTty"}
Ending == {"reset", "free", "ask", "join", "gone"}
Freed == {"commDriver", "store", "notifiers", "rtcm3Store"}

Steps ==
    ({"make", "reset"} \X Made) \cup ({"thread"} \X {"hat", "txReady", "timepulse", "forwarder"}) \cup
    ({"free"} \X Freed) \cup ({"join"} \X {"hat", "forwarder"}) \cup ({"ask", "gone"} \X {"hat"}) \cup
    ({"validate"} \X {"config"}) \cup ({"startup"} \X {"ublox"}) \cup ({"createVirtualTty"} \X {"forwarder"})
AnyStep == Steps \cup ({"delete"} \X (Made \X Generations))

(* What every call and every rest of a call has in common: it builds or it  *)
(* ends, only a destructor frees, a line is made at most once, and the      *)
(* TX ready line after everything that may fail.                            *)
Plan(s) ==
    /\ s \in Seq(Steps)
    /\ Only(s, Building) \/ Only(s, Ending)
    /\ \A d \in Freed : Has(s, "free", d) => Has(s, "gone", "hat")
    /\ \A c \in Lines : Once(s, "make", c)
    /\ Has(s, "make", "txReady") => Has(s, "thread", "hat")
    /\ Before(s, "make", "txReady", "thread", "hat")
    /\ Before(s, "validate", "config", "make", "txReady")
    /\ Before(s, "startup", "ublox", "make", "txReady")
    /\ Has(s, "thread", "hat") => ~Has(s, "createVirtualTty", "forwarder")

-----------------------------------------------------------------------------
(* The HAT: the inductive invariant                                         *)

Shaped == todo \in Seq(AnyStep) /\ (AtDelete => Member \in Made \X Generations) /\ Plan(Ahead)

(* Nothing is called before the constructor and after the destructor.       *)
Stages ==
    /\ state # "exists" => todo = <<>>
    /\ state = "none" => live = {} /\ threads = {} /\ ptr = [c \in Members |-> 0]
    /\ state # "none" => \A c \in Fixed : ptr[c] = 1

(* The object about to be deleted exists and nobody points to it. A line is *)
(* never replaced.                                                          *)
Dying ==
    AtDelete => /\ Member \in live /\ Member[1] \in Made /\ Member # Object(Member[1])
                /\ Member[1] \in Lines => ptr[Member[1]] = 0

(* Every other object is the one its member points to.                      *)
Owned ==
    /\ \A o \in live : o[1] \in Made => o = Object(o[1]) \/ (AtDelete /\ o = Member)
    /\ \A c \in Made : ptr[c] # 0 => Object(c) \in live

(* A thread of an object runs only while the object exists.                 *)
ThreadsOwned ==
    \A th \in threads : th = Ublox \/ (th \in live /\ th[1] \in Threaded /\ (th[1] = "run" => product = "RTK"))

FixedLive == state = "exists" /\ ~Destroying => \A c \in Fixed : <<c, 1>> \in live

(* What the threads of an object need beside it is freed after the object   *)
(* was reset.                                                               *)
Needs(c) ==
    CASE c = "run" -> IF product = "RTK" THEN {"rtcm3Store"} ELSE {}
      [] c = "forwarder" -> {"store", "notifiers"}
      [] OTHER -> {"notifiers"}

FreedAfterThread ==
    \A c \in Threaded : \A d \in Needs(c) :
        \/ \A o \in live : o[1] # c
        \/ <<d, 1>> \in live /\ (ptr[c] = 0 \/ Precedes(Ahead, "reset", c, "free", d))

(* While the ublox thread runs its objects exist, and none goes before the  *)
(* thread was joined.                                                       *)
UbloxSafe ==
    Ublox \in threads =>
        /\ \A c \in UbloxParts : ptr[c] # 0 /\ Precedes(Ahead, "join", "hat", "reset", c)
        /\ \A d \in UbloxFixed : <<d, 1>> \in live /\ Precedes(Ahead, "join", "hat", "free", d)

(* A thread starts after its objects are made.                              *)
MadeBeforeStarted ==
    /\ \A c \in UbloxParts : ptr[c] # 0 \/ Precedes(Ahead, "make", c, "thread", "hat")
    /\ \A c \in Threaded \ {"run"} : ptr[c] # 0 \/ Precedes(Ahead, "make", c, "thread", c)

(* A line is made only where there is none: the TX ready line because       *)
(* nothing fails after it and a started HAT is not started again, the       *)
(* others because their flags say so.                                       *)
LinesFree == \A c \in Lines : Has(Ahead, "make", c) => ptr[c] = 0

TxReadyOnce ==
    state = "exists" /\ ~Destroying /\ ~started /\ ptr["txReady"] # 0 =>
        /\ Has(Ahead, "thread", "hat")
        /\ ~Has(Ahead, "validate", "config") /\ ~Has(Ahead, "startup", "ublox")

DevicesOnce ==
    \A c \in {"timepulse", "timeMarkTrigger"} :
        /\ Has(Ahead, "make", c) => c \in enabled
        /\ state = "exists" /\ ~Destroying /\ c \notin enabled /\ ptr[c] # 0 => Has(Ahead, "reset", c)

LifeInv ==
    /\ LifecycleTypeOK /\ Shaped /\ Stages /\ Dying /\ Owned /\ ThreadsOwned /\ FixedLive
    /\ FreedAfterThread /\ UbloxSafe /\ MadeBeforeStarted /\ LinesFree /\ TxReadyOnce /\ DevicesOnce

-----------------------------------------------------------------------------
(* The HAT: what a step off the front, or one put there, does to a sequence *)

(* The tail of a sequence, index by index.                                  *)
LEMMA TailProperties ==
    ASSUME NEW S, NEW s \in Seq(S), s # <<>>
    PROVE  /\ Tail(s) \in Seq(S) /\ Len(s) \in Nat \ {0} /\ Len(Tail(s)) = Len(s) - 1
           /\ \A i \in 1..Len(Tail(s)) : i + 1 \in 1..Len(s) /\ Tail(s)[i] = s[i + 1]
           /\ Head(s) = s[1]
BY HeadTailProperties, EmptySeq

(* What the tail has, and what only the head had.                           *)
LEMMA HasTail ==
    ASSUME NEW S, NEW s \in Seq(S), s # <<>>, NEW k, NEW c
    PROVE  /\ Has(Tail(s), k, c) => Has(s, k, c)
           /\ Has(s, k, c) /\ ~(Head(s)[1] = k /\ Head(s)[2] = c) => Has(Tail(s), k, c)
           /\ Once(s, k, c) /\ Head(s)[1] = k /\ Head(s)[2] = c => ~Has(Tail(s), k, c)
           /\ Head(s)[1] = k /\ Head(s)[2] = c => Has(s, k, c)
           /\ Once(s, k, c) => Once(Tail(s), k, c)
<1> USE TailProperties
<1>1. Has(Tail(s), k, c) => Has(s, k, c)
  BY DEF Has
<1>2. ASSUME Has(s, k, c), ~(Head(s)[1] = k /\ Head(s)[2] = c)
      PROVE  Has(Tail(s), k, c)
  <2>1. PICK i \in 1..Len(s) : s[i][1] = k /\ s[i][2] = c
    BY <1>2 DEF Has
  <2>2. i # 1
    BY <1>2, <2>1
  <2>3. i - 1 \in 1..Len(Tail(s)) /\ (i - 1) + 1 = i
    BY <2>2
  <2>4. Tail(s)[i - 1] = s[i]
    BY <2>3
  <2> QED
    BY <2>1, <2>3, <2>4 DEF Has
<1>3. ASSUME Once(s, k, c), Head(s)[1] = k, Head(s)[2] = c, Has(Tail(s), k, c)
      PROVE  FALSE
  <2>1. PICK i \in 1..Len(Tail(s)) : Tail(s)[i][1] = k /\ Tail(s)[i][2] = c
    BY <1>3 DEF Has
  <2> QED
    BY <1>3, <2>1 DEF Once
<1>4. Head(s)[1] = k /\ Head(s)[2] = c => Has(s, k, c)
  BY DEF Has
<1>5. ASSUME Once(s, k, c) PROVE Once(Tail(s), k, c)
  <2> SUFFICES ASSUME NEW i \in 1..Len(Tail(s)), NEW j \in 1..Len(Tail(s)),
                      Tail(s)[i][1] = k, Tail(s)[i][2] = c, Tail(s)[j][1] = k, Tail(s)[j][2] = c
               PROVE  i = j
    BY DEF Once
  <2>1. i + 1 = j + 1
    BY <1>5 DEF Once
  <2> QED
    BY <2>1
<1> QED
  BY <1>1, <1>2, <1>3, <1>4, <1>5

(* What must come first is not the head, unless it was done.                *)
LEMMA PrecedesTail ==
    ASSUME NEW S, NEW s \in Seq(S), s # <<>>, NEW k, NEW c, NEW l, NEW d, Precedes(s, k, c, l, d)
    PROVE  /\ ~(Head(s)[1] = l /\ Head(s)[2] = d)
           /\ ~(Head(s)[1] = k /\ Head(s)[2] = c) => Precedes(Tail(s), k, c, l, d)
<1> USE TailProperties
<1>1. ~(Head(s)[1] = l /\ Head(s)[2] = d)
  BY DEF Precedes
<1>2. ASSUME ~(Head(s)[1] = k /\ Head(s)[2] = c) PROVE Precedes(Tail(s), k, c, l, d)
  <2> SUFFICES ASSUME NEW i \in 1..Len(Tail(s)), Tail(s)[i][1] = l, Tail(s)[i][2] = d
               PROVE  \E j \in 1..(i - 1) : Tail(s)[j][1] = k /\ Tail(s)[j][2] = c
    BY DEF Precedes
  <2>1. PICK j \in 1..((i + 1) - 1) : s[j][1] = k /\ s[j][2] = c
    BY DEF Precedes
  <2>2. j # 1
    BY <1>2, <2>1
  <2>3. j - 1 \in 1..(i - 1) /\ j - 1 \in 1..Len(Tail(s)) /\ (j - 1) + 1 = j
    BY <2>2
  <2> QED
    BY <2>1, <2>3
<1> QED
  BY <1>1, <1>2

(* Order among the steps that are left, and what a head leaves behind it.   *)
LEMMA BeforeTail ==
    ASSUME NEW S, NEW s \in Seq(S), s # <<>>, NEW k, NEW c, NEW l, NEW d, Before(s, k, c, l, d)
    PROVE  /\ Before(Tail(s), k, c, l, d)
           /\ Head(s)[1] = l /\ Head(s)[2] = d => ~Has(s, k, c)
<1> USE TailProperties
<1>1. Before(Tail(s), k, c, l, d)
  <2> SUFFICES ASSUME NEW i \in 1..Len(Tail(s)), NEW j \in 1..Len(Tail(s)),
                      Tail(s)[i][1] = k, Tail(s)[i][2] = c, Tail(s)[j][1] = l, Tail(s)[j][2] = d
               PROVE  i < j
    BY DEF Before
  <2>1. i + 1 < j + 1
    BY DEF Before
  <2> QED
    BY <2>1
<1>2. ASSUME Head(s)[1] = l, Head(s)[2] = d, Has(s, k, c) PROVE FALSE
  <2>1. PICK i \in 1..Len(s) : s[i][1] = k /\ s[i][2] = c
    BY <1>2 DEF Has
  <2>2. i < 1
    BY <1>2, <2>1 DEF Before
  <2> QED
    BY <2>2
<1> QED
  BY <1>1, <1>2

(* Nothing has to precede what is not there.                                *)
LEMMA PrecedesNone ==
    ASSUME NEW s, NEW k, NEW c, NEW l, NEW d, ~Has(s, l, d)
    PROVE  Precedes(s, k, c, l, d)
BY DEF Has, Precedes

(* A sequence of some kinds of steps has none of another kind.              *)
LEMMA OnlyExclude ==
    ASSUME NEW s, NEW K, Only(s, K), NEW k, k \notin K, NEW c
    PROVE  ~Has(s, k, c)
BY DEF Has, Only

(* A step put in front is the head.                                         *)
LEMMA ConsProperties ==
    ASSUME NEW S, NEW t \in Seq(S), NEW x \in S
    PROVE  /\ <<x>> \o t \in Seq(S) /\ <<x>> \o t # <<>>
           /\ Head(<<x>> \o t) = x /\ Tail(<<x>> \o t) = t
<1>1. <<x>> \in Seq(S) /\ Len(<<x>>) = 1
  OBVIOUS
<1> DEFINE u == <<x>> \o t
<1>2. /\ u \in Seq(S) /\ Len(u) = 1 + Len(t)
      /\ \A i \in 1..(1 + Len(t)) : u[i] = IF i <= 1 THEN <<x>>[i] ELSE t[i - 1]
  BY <1>1, ConcatProperties
<1>3. Len(t) \in Nat
  BY LenProperties
<1> HIDE DEF u
<1>4. u # <<>> /\ u[1] = x
  BY <1>2, <1>3, EmptySeq
<1>5. /\ Tail(u) \in Seq(S) /\ Len(Tail(u)) = Len(t) /\ Head(u) = u[1]
      /\ \A i \in 1..Len(t) : Tail(u)[i] = u[i + 1]
  BY <1>2, <1>3, <1>4, TailProperties
<1>6. \A i \in 1..Len(t) : Tail(u)[i] = t[i]
  <2> SUFFICES ASSUME NEW i \in 1..Len(t) PROVE Tail(u)[i] = t[i]
    OBVIOUS
  <2>1. i + 1 \in 1..(1 + Len(t)) /\ ~(i + 1 <= 1) /\ (i + 1) - 1 = i
    BY <1>3
  <2> QED
    BY <2>1, <1>2, <1>5
<1>7. Tail(u) = t
  BY <1>5, <1>6, SeqEqual
<1> QED
  BY <1>2, <1>4, <1>5, <1>7 DEF u

(* A concatenation has what its parts have.                                 *)
LEMMA HasConcat ==
    ASSUME NEW S, NEW s \in Seq(S), NEW t \in Seq(S), NEW k, NEW c
    PROVE  Has(s \o t, k, c) <=> Has(s, k, c) \/ Has(t, k, c)
<1>0. Len(s) \in Nat /\ Len(t) \in Nat
  BY LenProperties
<1> USE ConcatProperties, <1>0
<1>1. Has(s, k, c) => Has(s \o t, k, c)
  BY DEF Has
<1>2. ASSUME Has(t, k, c) PROVE Has(s \o t, k, c)
  <2>1. PICK i \in 1..Len(t) : t[i][1] = k /\ t[i][2] = c
    BY <1>2 DEF Has
  <2>2. Len(s) + i \in 1..Len(s) + Len(t) /\ ~(Len(s) + i <= Len(s)) /\ (Len(s) + i) - Len(s) = i
    OBVIOUS
  <2>3. (s \o t)[Len(s) + i] = t[i]
    BY <2>2
  <2> QED
    BY <2>1, <2>2, <2>3 DEF Has
<1>3. ASSUME Has(s \o t, k, c) PROVE Has(s, k, c) \/ Has(t, k, c)
  <2>1. PICK i \in 1..(Len(s) + Len(t)) : (s \o t)[i][1] = k /\ (s \o t)[i][2] = c
    BY <1>3 DEF Has
  <2>2. CASE i <= Len(s)
    BY <2>1, <2>2 DEF Has
  <2>3. CASE ~(i <= Len(s))
    BY <2>1, <2>3 DEF Has
  <2> QED
    BY <2>2, <2>3
<1> QED
  BY <1>1, <1>2, <1>3

(* ... is of the kinds its parts are of.                                    *)
LEMMA OnlyConcat ==
    ASSUME NEW S, NEW s \in Seq(S), NEW t \in Seq(S), NEW K, Only(s, K), Only(t, K)
    PROVE  Only(s \o t, K)
<1>0. Len(s) \in Nat /\ Len(t) \in Nat
  BY LenProperties
<1> SUFFICES ASSUME NEW i \in 1..(Len(s) + Len(t)) PROVE (s \o t)[i][1] \in K
  BY ConcatProperties DEF Only
<1>1. CASE i <= Len(s)
  BY <1>0, <1>1, ConcatProperties DEF Only
<1>2. CASE ~(i <= Len(s))
  BY <1>0, <1>2, ConcatProperties DEF Only
<1> QED
  BY <1>1, <1>2

(* ... keeps an order that its first part has or provides for.              *)
LEMMA PrecedesConcat ==
    ASSUME NEW S, NEW s \in Seq(S), NEW t \in Seq(S), NEW k, NEW c, NEW l, NEW d,
           Precedes(s, k, c, l, d), Has(s, k, c) \/ Precedes(t, k, c, l, d)
    PROVE  Precedes(s \o t, k, c, l, d)
<1>0. Len(s) \in Nat /\ Len(t) \in Nat
  BY LenProperties
<1>a. Len(s \o t) = Len(s) + Len(t)
  BY ConcatProperties
<1> SUFFICES ASSUME NEW i \in 1..(Len(s) + Len(t)), (s \o t)[i][1] = l, (s \o t)[i][2] = d
             PROVE  \E j \in 1..(i - 1) : (s \o t)[j][1] = k /\ (s \o t)[j][2] = c
  BY <1>a DEF Precedes
<1> USE ConcatProperties, <1>0
<1>1. CASE i <= Len(s)
  <2>1. s[i][1] = l /\ s[i][2] = d
    BY <1>1
  <2>2. PICK j \in 1..(i - 1) : s[j][1] = k /\ s[j][2] = c
    BY <1>1, <2>1 DEF Precedes
  <2>3. (s \o t)[j] = s[j]
    BY <1>1
  <2> QED
    BY <2>2, <2>3
<1>2. CASE ~(i <= Len(s)) /\ Has(s, k, c)
  <2>1. PICK j \in 1..Len(s) : s[j][1] = k /\ s[j][2] = c
    BY <1>2 DEF Has
  <2>2. (s \o t)[j] = s[j] /\ j \in 1..(i - 1)
    BY <1>2
  <2> QED
    BY <2>1, <2>2
<1>3. CASE ~(i <= Len(s)) /\ Precedes(t, k, c, l, d)
  <2>1. t[i - Len(s)][1] = l /\ t[i - Len(s)][2] = d /\ i - Len(s) \in 1..Len(t)
    BY <1>3
  <2>2. PICK j \in 1..((i - Len(s)) - 1) : t[j][1] = k /\ t[j][2] = c
    BY <1>3, <2>1 DEF Precedes
  <2>3. PICK m : m = Len(s) + j
    OBVIOUS
  <2>4. m \in 1..(i - 1) /\ m \in 1..(Len(s) + Len(t)) /\ ~(m <= Len(s)) /\ m - Len(s) = j
    BY <2>3
  <2>5. (s \o t)[m] = t[j]
    BY <2>4
  <2> QED
    BY <2>2, <2>4, <2>5
<1> QED
  BY <1>1, <1>2, <1>3

(* What is left of a plan is a plan.                                        *)
LEMMA PlanTail ==
    ASSUME NEW s, Plan(s), s # <<>>, Head(s)[1] # "gone"
    PROVE  Plan(Tail(s))
<1>1. s \in Seq(Steps)
  BY DEF Plan
<1> USE <1>1
<1>2. Tail(s) \in Seq(Steps)
  BY TailProperties
<1>3. \A K : Only(s, K) => Only(Tail(s), K)
  BY TailProperties DEF Only
<1>4. \A d \in Freed : Has(Tail(s), "free", d) => Has(Tail(s), "gone", "hat")
  BY HasTail DEF Plan
<1>5. \A c \in Lines : Once(Tail(s), "make", c)
  BY HasTail DEF Plan
<1>6. Has(Tail(s), "make", "txReady") => Has(Tail(s), "thread", "hat")
  <2>1. Has(Tail(s), "make", "txReady") => Has(s, "make", "txReady") /\ Has(s, "thread", "hat")
    BY HasTail DEF Plan
  <2>2. Has(s, "make", "txReady") => ~(Head(s)[1] = "thread" /\ Head(s)[2] = "hat")
    BY BeforeTail DEF Plan
  <2> QED
    BY <2>1, <2>2, HasTail
<1>7. /\ Before(Tail(s), "make", "txReady", "thread", "hat")
      /\ Before(Tail(s), "validate", "config", "make", "txReady")
      /\ Before(Tail(s), "startup", "ublox", "make", "txReady")
  BY BeforeTail DEF Plan
<1>8. Has(Tail(s), "thread", "hat") => ~Has(Tail(s), "createVirtualTty", "forwarder")
  BY HasTail DEF Plan
<1> QED
  BY <1>2, <1>3, <1>4, <1>5, <1>6, <1>7, <1>8 DEF Plan

(* Between two calls nothing is left to do.                                  *)
LEMMA PlanEmpty == Plan(<<>>) /\ \A k, c : ~Has(<<>>, k, c)
BY DEF Plan, Has, Only, Once, Before

-----------------------------------------------------------------------------
(* What a call consists of *)

StartFirst == IF product = "RTK" THEN <<<<"make", "rtk">>>> ELSE <<>>
StartUblox ==
    <<<<"validate", "config">>, <<"make", "registry">>, <<"make", "parser">>, <<"make", "startup">>,
      <<"make", "run">>, <<"make", "ublox">>, <<"startup", "ublox">>>>
StartTxReady == IF product = "TIME" THEN <<>> ELSE <<<<"make", "txReady">>, <<"thread", "txReady">>>>
StartLast == <<<<"thread", "hat">>>>

StartMakes == StartFirst \o StartUblox
StartLines == StartMakes \o StartTxReady

(* start() in parts: what it makes before the lines, the lines, the thread. *)
LEMMA StartPieces ==
    /\ StartFirst \in Seq(Steps) /\ StartUblox \in Seq(Steps)
    /\ StartTxReady \in Seq(Steps) /\ StartLast \in Seq(Steps)
    /\ StartMakes \in Seq(Steps) /\ StartLines \in Seq(Steps)
<1>1. StartFirst \in Seq(Steps)
  BY DEF StartFirst, Steps, Made
<1>2. StartUblox \in Seq(Steps)
  BY DEF StartUblox, Steps, Made
<1>3. StartTxReady \in Seq(Steps)
  <2>1. <<"make", "txReady">> \in Steps /\ <<"thread", "txReady">> \in Steps
    BY DEF Steps, Made
  <2> QED
    BY <2>1 DEF StartTxReady
<1>4. StartLast \in Seq(Steps)
  BY DEF StartLast, Steps
<1>5. StartMakes \in Seq(Steps)
  BY <1>1, <1>2, ConcatProperties DEF StartMakes
<1>6. StartLines \in Seq(Steps)
  BY <1>5, <1>3, ConcatProperties DEF StartLines
<1> QED
  BY <1>1, <1>2, <1>3, <1>4, <1>5, <1>6

(* The parts make up start().                                               *)
LEMMA StartIs == Start = StartLines \o StartLast
BY DEF Start, StartFirst, StartUblox, StartTxReady, StartLast, StartMakes, StartLines

(* The steps that the parts of start() have.                                *)
LEMMA StartType ==
    /\ Start \in Seq(Steps)
    /\ \A k, c : Has(StartMakes, k, c) <=> Has(StartFirst, k, c) \/ Has(StartUblox, k, c)
    /\ \A k, c : Has(StartLines, k, c) <=> Has(StartMakes, k, c) \/ Has(StartTxReady, k, c)
    /\ \A k, c : Has(Start, k, c) <=> Has(StartLines, k, c) \/ Has(StartLast, k, c)
<1>1. StartLines \o StartLast \in Seq(Steps)
  BY StartPieces, ConcatProperties
<1>2. \A k, c : Has(StartMakes, k, c) <=> Has(StartFirst, k, c) \/ Has(StartUblox, k, c)
  BY StartPieces, HasConcat DEF StartMakes
<1>3. \A k, c : Has(StartLines, k, c) <=> Has(StartMakes, k, c) \/ Has(StartTxReady, k, c)
  BY StartPieces, HasConcat DEF StartLines
<1>4. \A k, c : Has(StartLines \o StartLast, k, c) <=> Has(StartLines, k, c) \/ Has(StartLast, k, c)
  BY StartPieces, HasConcat
<1> QED
  BY <1>1, <1>2, <1>3, <1>4, StartIs

(* start() builds.                                                          *)
LEMMA StartKinds == Only(Start, Building)
<1>1. /\ Only(StartFirst, Building) /\ Only(StartUblox, Building)
      /\ Only(StartTxReady, Building) /\ Only(StartLast, Building)
  BY DEF Only, Building, StartFirst, StartUblox, StartTxReady, StartLast
<1>2. Only(StartMakes, Building)
  BY <1>1, StartPieces, OnlyConcat DEF StartMakes
<1>3. Only(StartLines, Building)
  BY <1>1, <1>2, StartPieces, OnlyConcat DEF StartLines
<1>4. Only(StartLines \o StartLast, Building)
  BY <1>1, <1>3, StartPieces, OnlyConcat
<1> QED
  BY <1>4, StartIs

(* Which steps the pieces of start() hold. *)
LEMMA StartHas ==
    /\ \A c \in UbloxParts : Has(StartUblox, "make", c)
    /\ Has(StartLast, "thread", "hat")
    /\ \A k, c : Has(StartFirst, k, c) => k = "make" /\ c = "rtk"
    /\ \A k, c : Has(StartTxReady, k, c) => k \in {"make", "thread"} /\ c = "txReady"
    /\ \A k, c : Has(StartLast, k, c) => k = "thread" /\ c = "hat"
    /\ \A k, c : Has(StartUblox, k, c) =>
          (k = "make" /\ c \in {"registry", "parser", "startup", "run", "ublox"}) \/ k \in {"validate", "startup"}
<1>1. /\ Has(StartUblox, "make", "ublox") /\ Has(StartUblox, "make", "run")
      /\ Has(StartUblox, "make", "parser") /\ Has(StartUblox, "make", "registry")
  BY DEF Has, StartUblox
<1>2. Has(StartLast, "thread", "hat")
  BY DEF Has, StartLast
<1>3. \A k, c : Has(StartFirst, k, c) => k = "make" /\ c = "rtk"
  BY DEF Has, StartFirst
<1>4. \A k, c : Has(StartTxReady, k, c) => k \in {"make", "thread"} /\ c = "txReady"
  BY DEF Has, StartTxReady
<1>5. \A k, c : Has(StartLast, k, c) => k = "thread" /\ c = "hat"
  BY DEF Has, StartLast
<1>6. \A k, c : Has(StartUblox, k, c) =>
          (k = "make" /\ c \in {"registry", "parser", "startup", "run", "ublox"}) \/ k \in {"validate", "startup"}
  BY DEF Has, StartUblox
<1> QED
  BY <1>1, <1>2, <1>3, <1>4, <1>5, <1>6 DEF UbloxParts

(* A concatenation keeps a strict order, unless its first part has what     *)
(* must come last and its second what must come first.                      *)
LEMMA BeforeConcat ==
    ASSUME NEW S, NEW s \in Seq(S), NEW t \in Seq(S), NEW k, NEW c, NEW l, NEW d,
           Before(s, k, c, l, d), Before(t, k, c, l, d), ~Has(s, l, d) \/ ~Has(t, k, c)
    PROVE  Before(s \o t, k, c, l, d)
<1>0. Len(s) \in Nat /\ Len(t) \in Nat
  BY LenProperties
<1>a. Len(s \o t) = Len(s) + Len(t)
  BY ConcatProperties
<1> SUFFICES ASSUME NEW i \in 1..(Len(s) + Len(t)), NEW j \in 1..(Len(s) + Len(t)),
                    (s \o t)[i][1] = k, (s \o t)[i][2] = c, (s \o t)[j][1] = l, (s \o t)[j][2] = d
             PROVE  i < j
  BY <1>a DEF Before
<1> USE ConcatProperties, <1>0
<1>1. CASE i <= Len(s) /\ j <= Len(s)
  BY <1>1 DEF Before
<1>2. CASE i <= Len(s) /\ ~(j <= Len(s))
  BY <1>2
<1>3. CASE ~(i <= Len(s)) /\ j <= Len(s)
  <2>1. t[i - Len(s)][1] = k /\ t[i - Len(s)][2] = c /\ i - Len(s) \in 1..Len(t)
    BY <1>3
  <2>2. s[j][1] = l /\ s[j][2] = d
    BY <1>3
  <2> QED
    BY <1>3, <2>1, <2>2 DEF Has
<1>4. CASE ~(i <= Len(s)) /\ ~(j <= Len(s))
  <2>1. t[i - Len(s)][1] = k /\ t[i - Len(s)][2] = c /\ i - Len(s) \in 1..Len(t)
    BY <1>4
  <2>2. t[j - Len(s)][1] = l /\ t[j - Len(s)][2] = d /\ j - Len(s) \in 1..Len(t)
    BY <1>4
  <2>3. i - Len(s) < j - Len(s)
    BY <2>1, <2>2 DEF Before
  <2> QED
    BY <2>3
<1> QED
  BY <1>1, <1>2, <1>3, <1>4

(* A strict order of steps of which one kind is missing.                    *)
LEMMA BeforeNone ==
    ASSUME NEW s, NEW k, NEW c, NEW l, NEW d, ~Has(s, k, c) \/ ~Has(s, l, d)
    PROVE  Before(s, k, c, l, d)
BY DEF Has, Before

(* A concatenation has a step once, if only one of its parts has it, once.  *)
LEMMA OnceConcat ==
    ASSUME NEW S, NEW s \in Seq(S), NEW t \in Seq(S), NEW k, NEW c,
           Once(s, k, c), Once(t, k, c), ~Has(s, k, c) \/ ~Has(t, k, c)
    PROVE  Once(s \o t, k, c)
<1>0. Len(s) \in Nat /\ Len(t) \in Nat
  BY LenProperties
<1>a. Len(s \o t) = Len(s) + Len(t)
  BY ConcatProperties
<1> SUFFICES ASSUME NEW i \in 1..(Len(s) + Len(t)), NEW j \in 1..(Len(s) + Len(t)),
                    (s \o t)[i][1] = k, (s \o t)[i][2] = c, (s \o t)[j][1] = k, (s \o t)[j][2] = c
             PROVE  i = j
  BY <1>a DEF Once
<1>1. /\ i <= Len(s) => i \in 1..Len(s) /\ s[i][1] = k /\ s[i][2] = c
      /\ ~(i <= Len(s)) => i - Len(s) \in 1..Len(t) /\ t[i - Len(s)][1] = k /\ t[i - Len(s)][2] = c
  BY <1>0, ConcatProperties
<1>2. /\ j <= Len(s) => j \in 1..Len(s) /\ s[j][1] = k /\ s[j][2] = c
      /\ ~(j <= Len(s)) => j - Len(s) \in 1..Len(t) /\ t[j - Len(s)][1] = k /\ t[j - Len(s)][2] = c
  BY <1>0, ConcatProperties
<1>3. (i <= Len(s)) <=> (j <= Len(s))
  BY <1>1, <1>2 DEF Has
<1>4. CASE i <= Len(s)
  BY <1>1, <1>2, <1>3, <1>4 DEF Once
<1>5. CASE ~(i <= Len(s))
  <2>1. i - Len(s) = j - Len(s)
    BY <1>1, <1>2, <1>3, <1>5 DEF Once
  <2> QED
    BY <2>1, <1>0
<1> QED
  BY <1>4, <1>5

(* A step that is not there is there at most once.                          *)
LEMMA OnceNone ==
    ASSUME NEW s, NEW k, NEW c, ~Has(s, k, c)
    PROVE  Once(s, k, c)
BY DEF Has, Once

(* Nothing of start() comes twice or too early. *)
LEMMA StartPlan == Plan(Start)
<1>3. Before(Start, "make", "txReady", "thread", "hat")
  <2>1. Before(StartLines, "make", "txReady", "thread", "hat") /\ Before(StartLast, "make", "txReady", "thread", "hat")
    BY StartType, StartHas, BeforeNone
  <2>2. ~Has(StartLast, "make", "txReady")
    BY StartHas
  <2>3. Before(StartLines \o StartLast, "make", "txReady", "thread", "hat")
    BY StartPieces, <2>1, <2>2, BeforeConcat
  <2> QED
    BY <2>3, StartIs
<1>4. ASSUME NEW k \in {"validate", "startup"}, NEW c
      PROVE  Before(Start, k, c, "make", "txReady")
  <2>1. Before(StartMakes, k, c, "make", "txReady") /\ Before(StartTxReady, k, c, "make", "txReady")
    BY StartType, StartHas, BeforeNone
  <2>2. ~Has(StartTxReady, k, c) /\ ~Has(StartMakes, "make", "txReady")
    BY StartHas, StartType
  <2>3. Before(StartLines, k, c, "make", "txReady")
    BY StartPieces, <2>1, <2>2, BeforeConcat DEF StartLines
  <2>4. Before(StartLast, k, c, "make", "txReady") /\ ~Has(StartLast, k, c)
    BY StartHas, BeforeNone
  <2>5. Before(StartLines \o StartLast, k, c, "make", "txReady")
    BY StartPieces, <2>3, <2>4, BeforeConcat
  <2> QED
    BY StartIs, <2>5
<1>5. \A c \in Lines : Once(Start, "make", c)
  <2> SUFFICES ASSUME NEW c \in Lines PROVE Once(Start, "make", c)
    OBVIOUS
  <2>1. Once(StartMakes, "make", c) /\ ~Has(StartMakes, "make", c)
    BY StartType, StartHas, OnceNone DEF Lines
  <2>2. Once(StartTxReady, "make", c)
    BY DEF Once, StartTxReady, Lines
  <2>3. Once(StartLines, "make", c)
    BY StartPieces, <2>1, <2>2, OnceConcat DEF StartLines
  <2>4. Once(StartLast, "make", c) /\ ~Has(StartLast, "make", c)
    BY StartHas, OnceNone
  <2>5. Once(StartLines \o StartLast, "make", c)
    BY StartPieces, <2>3, <2>4, OnceConcat
  <2> QED
    BY StartIs, <2>5
<1>6. \A d \in Freed : ~Has(Start, "free", d)
  BY StartType, StartHas
<1>7. Has(Start, "thread", "hat") /\ ~Has(Start, "createVirtualTty", "forwarder")
  BY StartType, StartHas
<1> QED
  BY <1>3, <1>4, <1>5, <1>6, <1>7, StartKinds, StartType DEF Plan

(* The destructors: what each part holds and in which order. *)
MembersPart ==
    <<<<"reset", "txReady">>, <<"reset", "timepulse">>, <<"reset", "forwarder">>,
      <<"join", "hat">>, <<"free", "notifiers">>,
      <<"reset", "forwarder">>, <<"reset", "timepulse">>, <<"reset", "txReady">>,
      <<"reset", "ublox">>, <<"reset", "startup">>, <<"reset", "run">>,
      <<"reset", "parser">>, <<"reset", "registry">>,
      <<"free", "store">>, <<"free", "commDriver">>, <<"gone", "hat">>>>
RtkPart == <<<<"reset", "txReady">>, <<"reset", "run">>, <<"reset", "rtk">>, <<"free", "rtcm3Store">>>>

(* The parts of the destructors are steps that end something.               *)
LEMMA EndingPieces ==
    /\ StopUbloxThread \in Seq(Steps) /\ MembersPart \in Seq(Steps) /\ RtkPart \in Seq(Steps)
    /\ <<<<"reset", "timeMarkTrigger">>>> \in Seq(Steps) /\ <<<<"reset", "forwarder">>>> \in Seq(Steps)
    /\ Only(StopUbloxThread, Ending) /\ Only(MembersPart, Ending) /\ Only(RtkPart, Ending)
    /\ Only(<<<<"reset", "timeMarkTrigger">>>>, Ending) /\ Only(<<<<"reset", "forwarder">>>>, Ending)
<1>1. StopUbloxThread \in Seq(Steps)
  BY DEF StopUbloxThread, Steps
<1>2. MembersPart \in Seq(Steps)
  BY DEF MembersPart, Steps, Made, Freed
<1>3. RtkPart \in Seq(Steps)
  BY DEF RtkPart, Steps, Made, Freed
<1>4. <<<<"reset", "timeMarkTrigger">>>> \in Seq(Steps) /\ <<<<"reset", "forwarder">>>> \in Seq(Steps)
  BY DEF Steps, Made
<1>5. Only(StopUbloxThread, Ending) /\ Only(MembersPart, Ending) /\ Only(RtkPart, Ending)
  BY DEF Only, Ending, StopUbloxThread, MembersPart, RtkPart
<1>6. Only(<<<<"reset", "timeMarkTrigger">>>>, Ending) /\ Only(<<<<"reset", "forwarder">>>>, Ending)
  BY DEF Only, Ending
<1> QED
  BY <1>1, <1>2, <1>3, <1>4, <1>5, <1>6

(* Stopping the ublox thread asks and joins, nothing else.                  *)
LEMMA StopHas ==
    /\ Has(StopUbloxThread, "join", "hat")
    /\ \A k, c : Has(StopUbloxThread, k, c) => k \in {"ask", "join"}
BY DEF Has, StopUbloxThread

(* The members of GnssHat: notifiers and store go after the objects whose   *)
(* threads use them; rtcm3Store_ is none of them.                           *)
LEMMA MembersPartOrder ==
    /\ Has(MembersPart, "gone", "hat")
    /\ Precedes(MembersPart, "reset", "txReady", "free", "notifiers")
    /\ Precedes(MembersPart, "reset", "timepulse", "free", "notifiers")
    /\ Precedes(MembersPart, "reset", "forwarder", "free", "notifiers")
    /\ Precedes(MembersPart, "reset", "forwarder", "free", "store")
    /\ ~Has(MembersPart, "free", "rtcm3Store")
<1>1. Has(MembersPart, "gone", "hat")
  BY DEF Has, MembersPart
<1>2. Precedes(MembersPart, "reset", "txReady", "free", "notifiers")
  BY DEF Precedes, MembersPart
<1>3. Precedes(MembersPart, "reset", "timepulse", "free", "notifiers")
  BY DEF Precedes, MembersPart
<1>4. Precedes(MembersPart, "reset", "forwarder", "free", "notifiers")
  BY DEF Precedes, MembersPart
<1>5. Precedes(MembersPart, "reset", "forwarder", "free", "store")
  BY DEF Precedes, MembersPart
<1>6. ~Has(MembersPart, "free", "rtcm3Store")
  BY DEF Has, MembersPart
<1> QED
  BY <1>1, <1>2, <1>3, <1>4, <1>5, <1>6

(* The destructor of the RTK HAT: its UART thread ends before rtcm3Store_   *)
(* goes.                                                                    *)
LEMMA RtkPartOrder ==
    /\ Precedes(RtkPart, "reset", "run", "free", "rtcm3Store")
    /\ \A d \in UbloxFixed : ~Has(RtkPart, "free", d)
BY DEF Precedes, Has, RtkPart, UbloxFixed

(* The base class: the thread has ended before anything it uses goes, and   *)
(* a thread's object before what the thread uses.                           *)
LEMMA BasePartOrder ==
    /\ BasePart \in Seq(Steps) /\ Only(BasePart, Ending) /\ Has(BasePart, "gone", "hat")
    /\ \A k \in {"reset", "free"} : \A c : Precedes(BasePart, "join", "hat", k, c)
    /\ \A c \in Threaded : \A d \in Needs(c) : Precedes(BasePart, "reset", c, "free", d)
<1>1. BasePart = StopUbloxThread \o MembersPart
  BY DEF BasePart, MembersPart
<1>2. StopUbloxThread \o MembersPart \in Seq(Steps)
  BY EndingPieces, ConcatProperties
<1>3. Only(StopUbloxThread \o MembersPart, Ending)
  BY EndingPieces, OnlyConcat
<1>4. Has(StopUbloxThread \o MembersPart, "gone", "hat")
  BY EndingPieces, MembersPartOrder, HasConcat
<1>5. ASSUME NEW k \in {"reset", "free"}, NEW c
      PROVE  Precedes(StopUbloxThread \o MembersPart, "join", "hat", k, c)
  <2>1. Precedes(StopUbloxThread, "join", "hat", k, c)
    BY StopHas, PrecedesNone
  <2> QED
    BY <2>1, StopHas, EndingPieces, PrecedesConcat
<1>6. ASSUME NEW c \in Threaded, NEW d \in Needs(c)
      PROVE  Precedes(StopUbloxThread \o MembersPart, "reset", c, "free", d)
  <2>1. Precedes(StopUbloxThread, "reset", c, "free", d)
    BY StopHas, PrecedesNone
  <2>2. Precedes(MembersPart, "reset", c, "free", d)
    BY MembersPartOrder, PrecedesNone DEF Threaded, Needs
  <2> QED
    BY <2>1, <2>2, EndingPieces, PrecedesConcat
<1> QED
  BY <1>1, <1>2, <1>3, <1>4, <1>5, <1>6

(* The destructor of every product keeps the order its threads need.        *)
LEMMA OwnPartOrder ==
    ASSUME product \in {"L1", "TIME", "RTK"}
    PROVE  /\ OwnPart \in Seq(Steps) /\ Only(OwnPart, Ending)
           /\ \A c \in UbloxParts : Precedes(OwnPart, "join", "hat", "reset", c)
           /\ \A d \in UbloxFixed : Precedes(OwnPart, "join", "hat", "free", d)
           /\ \A c \in Threaded : \A d \in Needs(c) : Precedes(OwnPart, "reset", c, "free", d)
<1>1. CASE product = "L1"
  <2>1. OwnPart = <<>>
    BY <1>1 DEF OwnPart
  <2> QED
    BY <2>1, EmptySeq DEF Only, Precedes
<1>2. CASE product = "TIME"
  <2> DEFINE A == <<<<"reset", "timeMarkTrigger">>>> \o StopUbloxThread
             F == <<<<"reset", "forwarder">>>>
  <2>1. OwnPart = A \o F
    BY <1>2 DEF OwnPart
  <2>2. A \in Seq(Steps) /\ F \in Seq(Steps)
    BY EndingPieces, ConcatProperties
  <2>3. \A k, c : Has(<<<<"reset", "timeMarkTrigger">>>>, k, c) => k = "reset" /\ c = "timeMarkTrigger"
    BY DEF Has
  <2>4. \A k, c : Has(A, k, c) => (k = "reset" /\ c = "timeMarkTrigger") \/ k \in {"ask", "join"}
    <3> DEFINE R == <<<<"reset", "timeMarkTrigger">>>>
    <3>1. R \in Seq(Steps) /\ StopUbloxThread \in Seq(Steps)
      BY EndingPieces
    <3>2. \A k, c : Has(R, k, c) => k = "reset" /\ c = "timeMarkTrigger"
      BY <2>3
    <3> HIDE DEF R
    <3>3. \A k, c : Has(R \o StopUbloxThread, k, c) <=> Has(R, k, c) \/ Has(StopUbloxThread, k, c)
      BY <3>1, HasConcat
    <3>4. A = R \o StopUbloxThread
      BY DEF R
    <3> HIDE DEF A
    <3> QED
      BY <3>2, <3>3, <3>4, StopHas
  <2>5. \A k, c : Has(F, k, c) => k = "reset" /\ c = "forwarder"
    BY DEF Has
  <2>6. Only(A, Ending) /\ Only(F, Ending)
    BY EndingPieces, OnlyConcat
  <2> HIDE DEF A, F
  <2>7. A \o F \in Seq(Steps) /\ Only(A \o F, Ending)
    BY <2>2, <2>6, ConcatProperties, OnlyConcat
  <2>8. \A k, c : Has(A \o F, k, c) =>
            (k = "reset" /\ c \in {"timeMarkTrigger", "forwarder"}) \/ k \in {"ask", "join"}
    BY <2>2, <2>4, <2>5, HasConcat
  <2>9. /\ \A c \in UbloxParts : ~Has(A \o F, "reset", c)
        /\ \A d : ~Has(A \o F, "free", d)
    BY <2>8 DEF UbloxParts
  <2> QED
    BY <2>1, <2>7, <2>9, PrecedesNone
<1>3. CASE product = "RTK"
  <2>1. OwnPart = StopUbloxThread \o RtkPart
    BY <1>3 DEF OwnPart, RtkPart
  <2>2. StopUbloxThread \o RtkPart \in Seq(Steps) /\ Only(StopUbloxThread \o RtkPart, Ending)
    BY EndingPieces, ConcatProperties, OnlyConcat
  <2>3. ASSUME NEW k \in {"reset", "free"}, NEW c
        PROVE  Precedes(StopUbloxThread \o RtkPart, "join", "hat", k, c)
    <3>1. Precedes(StopUbloxThread, "join", "hat", k, c)
      BY StopHas, PrecedesNone
    <3> QED
      BY <3>1, StopHas, EndingPieces, PrecedesConcat
  <2>4. ASSUME NEW c \in Threaded, NEW d \in Needs(c)
        PROVE  Precedes(StopUbloxThread \o RtkPart, "reset", c, "free", d)
    <3>1. Precedes(StopUbloxThread, "reset", c, "free", d)
      BY StopHas, PrecedesNone
    <3>2. CASE c = "run"
      <4>1. d = "rtcm3Store"
        BY <3>2, <1>3 DEF Needs
      <4> QED
        BY <3>1, <3>2, <4>1, RtkPartOrder, EndingPieces, PrecedesConcat
    <3>3. CASE c # "run"
      <4>1. d \in UbloxFixed
        BY <3>3 DEF Needs, UbloxFixed, Threaded
      <4>2. Precedes(RtkPart, "reset", c, "free", d)
        BY <4>1, RtkPartOrder, PrecedesNone
      <4> QED
        BY <3>1, <4>2, EndingPieces, PrecedesConcat
    <3> QED
      BY <3>2, <3>3
  <2> QED
    BY <2>1, <2>2, <2>3, <2>4
<1> QED
  BY <1>1, <1>2, <1>3

(* No step both builds and ends.                                            *)
LEMMA BuildingOrEnding == (\A k \in Building : k \notin Ending) /\ (\A k \in Ending : k \notin Building)
BY DEF Building, Ending

(* The whole destructor is a plan and keeps the order every thread needs.   *)
LEMMA DestroyOrder ==
    ASSUME product \in {"L1", "TIME", "RTK"}
    PROVE  LET D == OwnPart \o BasePart
           IN  /\ Plan(D) /\ Only(D, Ending) /\ Has(D, "gone", "hat")
               /\ \A c \in UbloxParts : Precedes(D, "join", "hat", "reset", c)
               /\ \A d \in UbloxFixed : Precedes(D, "join", "hat", "free", d)
               /\ \A c \in Threaded : \A d \in Needs(c) : Precedes(D, "reset", c, "free", d)
<1> DEFINE D == OwnPart \o BasePart
<1> USE OwnPartOrder, BasePartOrder
<1>1. D \in Seq(Steps) /\ Only(D, Ending)
  BY ConcatProperties, OnlyConcat
<1>2. Has(D, "gone", "hat")
  BY HasConcat
<1>3. \A c \in UbloxParts : Precedes(D, "join", "hat", "reset", c)
  BY PrecedesConcat
<1>4. \A d \in UbloxFixed : Precedes(D, "join", "hat", "free", d)
  BY PrecedesConcat
<1>5. \A c \in Threaded : \A d \in Needs(c) : Precedes(D, "reset", c, "free", d)
  BY PrecedesConcat
<1> HIDE DEF D
<1>6. \A k \in Building : \A c : ~Has(D, k, c)
  BY <1>1, BuildingOrEnding, OnlyExclude
<1>7. Plan(D)
  <2>1. \A c : ~Has(D, "make", c) /\ ~Has(D, "thread", c) /\ ~Has(D, "validate", c) /\ ~Has(D, "startup", c)
    BY <1>6 DEF Building
  <2>2. \A c : Once(D, "make", c)
    BY <2>1, OnceNone
  <2>3. /\ Before(D, "make", "txReady", "thread", "hat")
        /\ Before(D, "validate", "config", "make", "txReady")
        /\ Before(D, "startup", "ublox", "make", "txReady")
    BY <2>1, BeforeNone
  <2> QED
    BY <1>1, <1>2, <2>1, <2>2, <2>3 DEF Plan
<1> QED
  BY <1>1, <1>2, <1>3, <1>4, <1>5, <1>7 DEF D

-----------------------------------------------------------------------------
(* What a step does to the steps that are left *)

(* A call, as it is made, has no deletion in it.                            *)
LEMMA NoDeleteAhead ==
    ASSUME NEW s \in Seq(Steps), s # <<>>
    PROVE  Head(s) \in Steps /\ Head(s)[1] # "delete" /\ Head(s)[1] \in Building \cup Ending
<1>1. Head(s) \in Steps
  BY HeadTailProperties
<1>2. \A x \in Steps : x[1] # "delete" /\ x[1] \in Building \cup Ending
  BY DEF Steps, Building, Ending
<1> QED
  BY <1>1, <1>2

(* A call begins, or its steps are replaced. *)
LEMMA Replaces ==
    ASSUME NEW s, Plan(s), todo' = s
    PROVE  Shaped' /\ ~AtDelete' /\ Ahead' = s
<1>1. s \in Seq(Steps)
  BY DEF Plan
<1>2. ~AtDelete'
  BY <1>1, NoDeleteAhead DEF AtDelete, Next1
<1>3. Ahead' = s
  BY <1>2 DEF Ahead
<1>4. s \in Seq(AnyStep)
  BY <1>1, SeqMonotonic DEF AnyStep
<1> QED
  BY <1>2, <1>3, <1>4 DEF Shaped

(* Before a step that is no deletion everything left is ahead.              *)
LEMMA AtStep ==
    ASSUME Shaped, todo # <<>>, Next1[1] # "delete"
    PROVE  /\ ~AtDelete /\ Ahead = todo /\ todo \in Seq(Steps) /\ Next1 \in Steps /\ Plan(todo)
           /\ Tail(todo) \in Seq(Steps) /\ Tail(todo) \in Seq(AnyStep)
<1>1. ~AtDelete /\ Ahead = todo
  BY DEF AtDelete, Ahead
<1>2. todo \in Seq(Steps) /\ Plan(todo)
  BY <1>1 DEF Shaped, Plan
<1>3. Next1 \in Steps /\ Tail(todo) \in Seq(Steps)
  BY <1>2, HeadTailProperties DEF Next1
<1>4. Tail(todo) \in Seq(AnyStep)
  BY <1>3, SeqMonotonic DEF AnyStep
<1> QED
  BY <1>1, <1>2, <1>3, <1>4

(* A step is done, and perhaps an object is to be deleted first. *)
LEMMA Advances ==
    ASSUME Shaped, todo # <<>>, Next1[1] \notin {"delete", "gone"}, todo' = Tail(todo)
    PROVE  Shaped' /\ ~AtDelete' /\ Ahead' = Tail(todo)
<1>1. Plan(Tail(todo))
  BY AtStep, PlanTail DEF Next1
<1> QED
  BY <1>1, Replaces

(* ... the deletion of the old object comes first.                          *)
LEMMA AdvancesDeleting ==
    ASSUME Shaped, todo # <<>>, Next1[1] \notin {"delete", "gone"},
           NEW o \in Made \X Generations, todo' = <<<<"delete", o>>>> \o Tail(todo)
    PROVE  Shaped' /\ AtDelete' /\ Member' = o /\ Ahead' = Tail(todo)
<1>1. Plan(Tail(todo))
  BY AtStep, PlanTail DEF Next1
<1>2. <<"delete", o>> \in AnyStep
  BY DEF AnyStep
<1>3. /\ todo' \in Seq(AnyStep) /\ todo' # <<>> /\ Head(todo') = <<"delete", o>>
      /\ Tail(todo') = Tail(todo)
  BY <1>2, AtStep, ConsProperties
<1>4. AtDelete' /\ Member' = o
  BY <1>3 DEF AtDelete, Next1, Member
<1>5. Ahead' = Tail(todo)
  BY <1>3, <1>4 DEF Ahead
<1> QED
  BY <1>1, <1>3, <1>4, <1>5 DEF Shaped

(* After a deletion the call goes on where it was.                          *)
LEMMA Deleted ==
    ASSUME Shaped, AtDelete, todo' = Tail(todo)
    PROVE  Shaped' /\ ~AtDelete' /\ Ahead' = Ahead
BY Replaces DEF Shaped, Ahead

(* What is still to come after a step. *)
LEMMA Moves ==
    ASSUME LifeInv, todo # <<>>, Next1[1] \notin {"delete", "gone"}, Ahead' = Tail(todo)
    PROVE  /\ ~AtDelete /\ state = "exists" /\ Next1 \in Steps /\ Next1 = <<Next1[1], Member>>
           /\ \A k, c : Has(Ahead', k, c) => Has(Ahead, k, c)
           /\ \A k, c : Has(Ahead, k, c) => Has(Ahead', k, c) \/ (Next1[1] = k /\ Member = c)
           /\ \A k, c, l, d : Precedes(Ahead, k, c, l, d) =>
                 ~(Next1[1] = l /\ Member = d) /\ (Precedes(Ahead', k, c, l, d) \/ (Next1[1] = k /\ Member = c))
           /\ Has(Ahead, Next1[1], Member)
           /\ Destroying' <=> Destroying
           /\ Next1[1] \in Building => ~Destroying /\ \A k \in Ending : \A c : ~Has(Ahead, k, c)
           /\ Next1[1] \in Ending => \A k \in Building : \A c : ~Has(Ahead, k, c)
           /\ \A c \in Lines : Next1[1] = "make" /\ Member = c => ~Has(Ahead', "make", c)
<1>1. /\ ~AtDelete /\ Ahead = todo /\ todo \in Seq(Steps) /\ Next1 \in Steps /\ Plan(todo)
  BY AtStep DEF LifeInv
<1>2. state = "exists"
  BY DEF LifeInv, Stages
<1>3. Next1 = <<Next1[1], Member>>
  <2>1. \A x \in Steps : x = <<x[1], x[2]>>
    BY DEF Steps
  <2> QED
    BY <1>1, <2>1 DEF Member
<1>4. /\ \A k, c : Has(Ahead', k, c) => Has(Ahead, k, c)
      /\ \A k, c : Has(Ahead, k, c) => Has(Ahead', k, c) \/ (Next1[1] = k /\ Member = c)
      /\ Has(Ahead, Next1[1], Member)
      /\ \A c \in Lines : Next1[1] = "make" /\ Member = c => ~Has(Ahead', "make", c)
  BY <1>1, HasTail DEF Next1, Member, Plan
<1>5. \A k, c, l, d : Precedes(Ahead, k, c, l, d) =>
         ~(Next1[1] = l /\ Member = d) /\ (Precedes(Ahead', k, c, l, d) \/ (Next1[1] = k /\ Member = c))
  BY <1>1, PrecedesTail DEF Next1, Member
<1>6. Destroying' <=> Destroying
  BY <1>4 DEF Destroying
<1>7. Only(Ahead, Building) \/ Only(Ahead, Ending)
  BY <1>1 DEF Plan
<1>8. /\ Next1[1] \in Building => \A k \in Ending : \A c : ~Has(Ahead, k, c)
      /\ Next1[1] \in Ending => \A k \in Building : \A c : ~Has(Ahead, k, c)
  <2>1. CASE Only(Ahead, Building)
    BY <2>1, <1>4, BuildingOrEnding, OnlyExclude
  <2>2. CASE Only(Ahead, Ending)
    BY <2>2, <1>4, BuildingOrEnding, OnlyExclude
  <2> QED
    BY <1>7, <2>1, <2>2
<1>9. Next1[1] \in Building => ~Destroying
  BY <1>8 DEF Ending, Destroying
<1> QED
  BY <1>1, <1>2, <1>3, <1>4, <1>5, <1>6, <1>8, <1>9

(* Unless something is being deleted, every object is the one its member    *)
(* points to.                                                               *)
LEMMA LiveObjects ==
    ASSUME LifecycleTypeOK, Owned, ~AtDelete, NEW o \in live, o[1] \in Made
    PROVE  o = Object(o[1]) /\ ptr[o[1]] # 0 /\ ptr[o[1]] \in Generations
BY GenerationsAssumption DEF LifecycleTypeOK, Owned, Object

-----------------------------------------------------------------------------
(* Calls *)

(* A call that ends no thread and frees nothing: what was safe stays safe. *)
LEMMA CallKeeps ==
    ASSUME LifeInv, NEW s, Plan(s), todo' = s, ~AtDelete, state = "exists", ~Destroying,
           \A d : ~Has(s, "free", d), \A c \in UbloxParts : ~Has(s, "reset", c),
           UNCHANGED <<product, state, live, ptr, threads>>
    PROVE  /\ Shaped' /\ Ahead' = s /\ Stages' /\ Dying' /\ Owned' /\ ThreadsOwned' /\ FixedLive'
           /\ FreedAfterThread' /\ UbloxSafe'
<1>1. Shaped' /\ ~AtDelete' /\ Ahead' = s
  BY Replaces
<1>2. Stages'
  BY DEF LifeInv, Stages, Fixed
<1>3. Dying'
  BY <1>1 DEF Dying
<1>4. Owned'
  BY <1>1 DEF LifeInv, Owned, Object
<1>5. ThreadsOwned'
  BY DEF LifeInv, ThreadsOwned
<1>6. FixedLive'
  BY DEF LifeInv, FixedLive, Fixed
<1>7. FreedAfterThread'
  <2> SUFFICES ASSUME NEW c \in Threaded, NEW d \in Needs(c)
               PROVE  \/ \A o \in live : o[1] # c
                      \/ <<d, 1>> \in live /\ Precedes(s, "reset", c, "free", d)
    BY <1>1 DEF FreedAfterThread, Needs
  <2>1. Precedes(s, "reset", c, "free", d)
    BY PrecedesNone
  <2> QED
    BY <2>1 DEF LifeInv, FreedAfterThread
<1>8. UbloxSafe'
  <2> SUFFICES ASSUME Ublox \in threads
               PROVE  /\ \A c \in UbloxParts : ptr[c] # 0 /\ Precedes(s, "join", "hat", "reset", c)
                      /\ \A d \in UbloxFixed : <<d, 1>> \in live /\ Precedes(s, "join", "hat", "free", d)
    BY <1>1 DEF UbloxSafe, Ublox
  <2>1. \A c \in UbloxParts : Precedes(s, "join", "hat", "reset", c)
    BY PrecedesNone
  <2>2. \A d : Precedes(s, "join", "hat", "free", d)
    BY PrecedesNone
  <2> QED
    BY <2>1, <2>2 DEF LifeInv, UbloxSafe
<1> QED
  BY <1>1, <1>2, <1>3, <1>4, <1>5, <1>6, <1>7, <1>8

(* Between two calls nothing is ahead, and the lines that are not in use do *)
(* not exist.                                                               *)
LEMMA IdleFacts ==
    ASSUME LifeInv, AtRest
    PROVE  /\ ~AtDelete /\ state = "exists" /\ ~Destroying /\ \A k, c : ~Has(Ahead, k, c)
           /\ ~started => ptr["txReady"] = 0
           /\ \A c \in {"timepulse", "timeMarkTrigger"} : c \notin enabled => ptr[c] = 0
<1>1. todo = <<>> /\ ~AtDelete /\ state = "exists" /\ Ahead = <<>>
  BY DEF AtRest, AtDelete, Ahead
<1>2. \A k, c : ~Has(Ahead, k, c)
  BY <1>1, PlanEmpty
<1> QED
  BY <1>1, <1>2 DEF LifeInv, Destroying, TxReadyOnce, DevicesOnce

(* The constructor: the members that are no pointers exist.                 *)
LEMMA CreateStep == ASSUME LifeInv, Create PROVE LifeInv'
<1> USE DEF Create
<1>1. todo = <<>> /\ live = {} /\ threads = {}
  BY DEF LifeInv, Stages
<1>2. Shaped' /\ ~AtDelete' /\ Ahead' = <<>>
  BY <1>1, PlanEmpty, Replaces
<1>3. \A k, c : ~Has(Ahead', k, c)
  BY <1>2, PlanEmpty
<1>4. live' = {<<c, 1>> : c \in Fixed} /\ threads' = {}
  BY <1>1
<1>5. Fixed \subseteq Members /\ \A c \in Made : c \in Members /\ c \notin Fixed
  BY DEF Fixed, Members, Made
<1>6. LifecycleTypeOK'
  <2>1. live' \subseteq Members \X Generations
    BY <1>4, <1>5, GenerationsAssumption
  <2>2. ptr' \in [Members -> Generations \cup {0}]
    BY GenerationsAssumption
  <2>3. threads' = {} /\ asked' = {}
    BY <1>1, <1>4 DEF LifeInv, LifecycleTypeOK
  <2>4. product' \in Products /\ state' \in {"none", "exists", "destroyed"} /\ started' \in BOOLEAN /\ enabled' = {}
    BY DEF LifeInv, LifecycleTypeOK
  <2> QED
    BY <2>1, <2>2, <2>3, <2>4 DEF LifecycleTypeOK
<1>7. Fixed' = Fixed
  BY DEF Fixed
<1>8. Stages'
  BY <1>1, <1>5, <1>7 DEF Stages
<1>9. Dying'
  BY <1>2 DEF Dying
<1>10. \A o \in live' : o[1] \notin Made
  BY <1>4, <1>5
<1>11. Owned'
  BY <1>5, <1>10 DEF Owned
<1>12. ThreadsOwned'
  BY <1>4 DEF ThreadsOwned
<1>13. FixedLive'
  BY <1>4, <1>7 DEF FixedLive
<1>14. FreedAfterThread'
  BY <1>10 DEF FreedAfterThread, Threaded, Made
<1>15. UbloxSafe'
  BY <1>4 DEF UbloxSafe
<1>16. MadeBeforeStarted'
  BY <1>3, PrecedesNone DEF MadeBeforeStarted
<1>17. LinesFree'
  BY <1>3 DEF LinesFree
<1>18. TxReadyOnce' /\ DevicesOnce'
  <2>1. ptr'["txReady"] = 0 /\ ptr'["timepulse"] = 0 /\ ptr'["timeMarkTrigger"] = 0
    BY <1>5 DEF Made
  <2> QED
    BY <1>3, <2>1 DEF TxReadyOnce, DevicesOnce
<1> QED
  BY <1>2, <1>6, <1>8, <1>9, <1>11, <1>12, <1>13, <1>14, <1>15, <1>16, <1>17, <1>18 DEF LifeInv

(* start(), also after one that failed: every object is made before its     *)
(* thread starts, and no line is made twice.                                *)
LEMMA CallStartStep == ASSUME LifeInv, CallStart PROVE LifeInv'
<1> USE DEF CallStart
<1> USE IdleFacts
<1>1. \A k, c : Has(Start, k, c) =>
         /\ k \in {"make", "thread", "validate", "startup"}
         /\ k = "make" => c \notin {"timepulse", "timeMarkTrigger"}
         /\ k = "thread" => c \in {"txReady", "hat"}
  BY StartType, StartHas
<1>2. /\ Shaped' /\ Ahead' = Start /\ Stages' /\ Dying' /\ Owned' /\ ThreadsOwned' /\ FixedLive'
      /\ FreedAfterThread' /\ UbloxSafe'
  <2>1. (\A d : ~Has(Start, "free", d)) /\ \A c \in UbloxParts : ~Has(Start, "reset", c)
    BY <1>1
  <2> QED
    BY <2>1, StartPlan, CallKeeps
<1>3. LifecycleTypeOK'
  BY DEF LifeInv, LifecycleTypeOK, Devices
<1>4. MadeBeforeStarted'
  <2>1. ASSUME NEW c \in UbloxParts PROVE Precedes(Start, "make", c, "thread", "hat")
    <3>1. Precedes(StartMakes, "make", c, "thread", "hat")
      BY StartType, StartHas, PrecedesNone
    <3>2. Has(StartMakes, "make", c) /\ Has(StartLines, "make", c)
      BY StartType, StartHas
    <3>3. Precedes(StartLines, "make", c, "thread", "hat")
      BY <3>1, <3>2, StartPieces, PrecedesConcat DEF StartLines
    <3>4. Precedes(StartLines \o StartLast, "make", c, "thread", "hat")
      BY <3>2, <3>3, StartPieces, PrecedesConcat
    <3> QED
      BY <3>4, StartIs
  <2>2. Precedes(Start, "make", "txReady", "thread", "txReady")
    <3>1. Precedes(StartMakes, "make", "txReady", "thread", "txReady")
      BY StartType, StartHas, PrecedesNone
    <3>2. Precedes(StartTxReady, "make", "txReady", "thread", "txReady")
      BY DEF Precedes, StartTxReady
    <3>3. Precedes(StartLines, "make", "txReady", "thread", "txReady")
      BY <3>1, <3>2, StartPieces, PrecedesConcat DEF StartLines
    <3>4. Precedes(StartLast, "make", "txReady", "thread", "txReady")
      BY StartHas, PrecedesNone
    <3>5. Precedes(StartLines \o StartLast, "make", "txReady", "thread", "txReady")
      BY <3>3, <3>4, StartPieces, PrecedesConcat
    <3> QED
      BY <3>5, StartIs
  <2>3. \A c \in {"timepulse", "forwarder"} : Precedes(Start, "make", c, "thread", c)
    BY <1>1, PrecedesNone
  <2> QED
    BY <1>2, <2>1, <2>2, <2>3 DEF MadeBeforeStarted, Threaded
<1>5. LinesFree'
  BY <1>1, <1>2 DEF LinesFree, Lines
<1>6. TxReadyOnce'
  BY <1>2 DEF TxReadyOnce
<1>7. DevicesOnce'
  BY <1>1, <1>2 DEF DevicesOnce
<1> QED
  BY <1>2, <1>3, <1>4, <1>5, <1>6, <1>7 DEF LifeInv

(* A pair, as a concatenation.                                              *)
LEMMA PairConcat == \A x, y : <<x>> \o <<y>> = <<x, y>>
<1> TAKE x, y
<1>1. <<x>> \in Seq({x, y}) /\ <<y>> \in Seq({x, y}) /\ <<x, y>> \in Seq({x, y})
  OBVIOUS
<1>2. /\ <<x>> \o <<y>> \in Seq({x, y}) /\ Len(<<x>> \o <<y>>) = 2
      /\ (<<x>> \o <<y>>)[1] = x /\ (<<x>> \o <<y>>)[2] = y
  <2>1. Len(<<x>>) = 1 /\ Len(<<y>>) = 1 /\ <<x>>[1] = x /\ <<y>>[1] = y
    OBVIOUS
  <2> QED
    BY <1>1, <2>1, ConcatProperties
<1>3. Len(<<x, y>>) = 2 /\ <<x, y>>[1] = x /\ <<x, y>>[2] = y
  OBVIOUS
<1> DEFINE s == <<x>> \o <<y>>
           t == <<x, y>>
<1>4. s \in Seq({x, y}) /\ t \in Seq({x, y}) /\ Len(s) = 2 /\ Len(t) = 2 /\ s[1] = t[1] /\ s[2] = t[2]
  BY <1>1, <1>2, <1>3
<1> HIDE DEF s, t
<1>5. \A i \in 1..Len(s) : s[i] = t[i]
  BY <1>4
<1>6. s = t
  BY <1>4, <1>5, SeqEqual
<1> QED
  BY <1>6 DEF s, t

(* A call without start(): it holds at most one "make" and its "thread". *)
LEMMA EnableStep == ASSUME LifeInv, NEW m \in Members, Enable(m) PROVE LifeInv'
<1> USE DEF Enable
<1> USE IdleFacts
<1> DEFINE s == todo'
<1>1. m \in {"timepulse", "timeMarkTrigger"} /\ m \notin enabled /\ ptr[m] = 0 /\ m \in Made
  BY DEF Devices, Made
<1>2. \/ m = "timepulse" /\ s = <<<<"make", m>>, <<"thread", m>>>>
      \/ m = "timeMarkTrigger" /\ s = <<<<"make", m>>>>
  <2>1. CASE m = "timepulse"
    BY <2>1, PairConcat
  <2>2. CASE m = "timeMarkTrigger"
    <3>1. s = <<<<"make", m>>>> \o <<>>
      BY <2>2
    <3>2. <<<<"make", m>>>> \in Seq({<<"make", m>>})
      OBVIOUS
    <3> QED
      BY <2>2, <3>1, <3>2, ConcatEmptySeq
  <2> QED
    BY <1>1, <2>1, <2>2
<1> HIDE DEF s
<1>3. /\ \A k, c : Has(s, k, c) => c = m /\ k \in {"make", "thread"} /\ (k = "thread" => m = "timepulse")
      /\ s \in Seq(Steps) /\ Only(s, Building) /\ Once(s, "make", m) /\ Precedes(s, "make", m, "thread", m)
  <2>1. CASE m = "timepulse" /\ s = <<<<"make", m>>, <<"thread", m>>>>
    <3>1. \A k, c : Has(s, k, c) => c = m /\ k \in {"make", "thread"}
      BY <2>1 DEF Has
    <3>2. <<"make", m>> \in Steps /\ <<"thread", m>> \in Steps
      BY <2>1, <1>1 DEF Steps
    <3>3. s \in Seq(Steps)
      BY <2>1, <3>2
    <3>4. Only(s, Building) /\ Once(s, "make", m) /\ Precedes(s, "make", m, "thread", m)
      BY <2>1 DEF Only, Building, Once, Precedes
    <3> QED
      BY <2>1, <3>1, <3>3, <3>4
  <2>2. CASE m = "timeMarkTrigger" /\ s = <<<<"make", m>>>>
    <3>1. \A k, c : Has(s, k, c) => c = m /\ k = "make"
      BY <2>2 DEF Has
    <3>2. <<"make", m>> \in Steps
      BY <1>1 DEF Steps
    <3>3. s \in Seq(Steps)
      BY <2>2, <3>2
    <3>4. Only(s, Building) /\ Once(s, "make", m) /\ Precedes(s, "make", m, "thread", m)
      BY <2>2 DEF Only, Building, Once, Precedes
    <3> QED
      BY <3>1, <3>3, <3>4
  <2> QED
    BY <1>2, <2>1, <2>2
<1>4. Plan(s)
  <2>1. \A c \in Lines : Once(s, "make", c)
    BY <1>3, OnceNone
  <2>2. /\ Before(s, "make", "txReady", "thread", "hat")
        /\ Before(s, "validate", "config", "make", "txReady")
        /\ Before(s, "startup", "ublox", "make", "txReady")
    BY <1>1, <1>3, BeforeNone
  <2> QED
    BY <1>1, <1>3, <2>1, <2>2 DEF Plan
<1>5. /\ Shaped' /\ Ahead' = s /\ Stages' /\ Dying' /\ Owned' /\ ThreadsOwned' /\ FixedLive'
      /\ FreedAfterThread' /\ UbloxSafe'
  <2>1. (\A d : ~Has(s, "free", d)) /\ \A c \in UbloxParts : ~Has(s, "reset", c)
    BY <1>3
  <2>2. todo' = s
    BY DEF s
  <2> QED
    BY <2>1, <2>2, <1>4, CallKeeps
<1>6. LifecycleTypeOK'
  BY DEF LifeInv, LifecycleTypeOK, Devices
<1>7. MadeBeforeStarted'
  <2>1. \A c \in UbloxParts : Precedes(s, "make", c, "thread", "hat")
    BY <1>1, <1>3, PrecedesNone
  <2>2. \A c \in Threaded \ {"run"} : Precedes(s, "make", c, "thread", c)
    BY <1>3, PrecedesNone
  <2> QED
    BY <1>5, <2>1, <2>2 DEF MadeBeforeStarted
<1>8. LinesFree'
  BY <1>1, <1>3, <1>5 DEF LinesFree
<1>9. TxReadyOnce'
  BY <1>5 DEF TxReadyOnce
<1>10. DevicesOnce'
  BY <1>1, <1>3, <1>5 DEF DevicesOnce
<1> QED
  BY <1>5, <1>6, <1>7, <1>8, <1>9, <1>10 DEF LifeInv

(* A call, or what is left of one, that only joins and resets. *)
LEMMA EndingCall ==
    ASSUME NEW s, NEW m \in Made,
           s = <<<<"reset", m>>>> \/ (m = "forwarder" /\ s = <<<<"join", m>>, <<"reset", m>>>>)
    PROVE  /\ Plan(s) /\ Has(s, "reset", m)
           /\ \A k, c : Has(s, k, c) => k \in {"join", "reset"} /\ c = m
<1>1. <<"reset", m>> \in Steps /\ (m = "forwarder" => <<"join", m>> \in Steps)
  BY DEF Steps
<1>2. s \in Seq(Steps)
  <2>1. CASE s = <<<<"reset", m>>>>
    BY <1>1, <2>1
  <2>2. CASE m = "forwarder" /\ s = <<<<"join", m>>, <<"reset", m>>>>
    BY <1>1, <2>2
  <2> QED
    BY <2>1, <2>2
<1>3. Only(s, Ending) /\ Has(s, "reset", m)
  BY DEF Only, Ending, Has
<1>4. \A k, c : Has(s, k, c) => k \in {"join", "reset"} /\ c = m
  BY DEF Has
<1>5. \A c \in Lines : Once(s, "make", c)
  BY <1>4, OnceNone
<1>6. /\ Before(s, "make", "txReady", "thread", "hat")
      /\ Before(s, "validate", "config", "make", "txReady")
      /\ Before(s, "startup", "ublox", "make", "txReady")
  BY <1>4, BeforeNone
<1> QED
  BY <1>2, <1>3, <1>4, <1>5, <1>6 DEF Plan

(* A call that takes one object away.                                       *)
LEMMA EndingCallStep ==
    ASSUME LifeInv, NEW s, NEW m \in Made \ UbloxParts,
           s = <<<<"reset", m>>>> \/ (m = "forwarder" /\ s = <<<<"join", m>>, <<"reset", m>>>>),
           todo' = s, ~AtDelete, state = "exists", ~Destroying,
           \A c \in {"timepulse", "timeMarkTrigger"} :
               c \notin enabled' => c = m \/ ptr[c] = 0,
           ~started => ptr["txReady"] = 0,
           enabled' \subseteq Devices,
           UNCHANGED <<product, state, live, ptr, threads, asked, started>>
    PROVE  LifeInv'
<1>1. Plan(s) /\ Has(s, "reset", m) /\ \A k, c : Has(s, k, c) => k \in {"join", "reset"} /\ c = m
  BY EndingCall
<1>2. /\ Shaped' /\ Ahead' = s /\ Stages' /\ Dying' /\ Owned' /\ ThreadsOwned' /\ FixedLive'
      /\ FreedAfterThread' /\ UbloxSafe'
  <2>1. (\A d : ~Has(s, "free", d)) /\ \A c \in UbloxParts : ~Has(s, "reset", c)
    BY <1>1
  <2> QED
    BY <2>1, <1>1, CallKeeps
<1>3. LifecycleTypeOK'
  BY DEF LifeInv, LifecycleTypeOK, Devices
<1>4. MadeBeforeStarted'
  <2>1. \A c, l, d : Precedes(s, "make", c, "thread", d)
    BY <1>1, PrecedesNone
  <2> QED
    BY <1>2, <2>1 DEF MadeBeforeStarted
<1>5. LinesFree'
  BY <1>1, <1>2 DEF LinesFree
<1>6. TxReadyOnce'
  BY <1>2 DEF TxReadyOnce
<1>7. DevicesOnce'
  BY <1>1, <1>2 DEF DevicesOnce
<1> QED
  BY <1>2, <1>3, <1>4, <1>5, <1>6, <1>7 DEF LifeInv

(* Disabling a device takes its object away.                                *)
LEMMA DisableStep == ASSUME LifeInv, NEW m \in Members, Disable(m) PROVE LifeInv'
<1> USE DEF Disable
<1> USE IdleFacts
<1>1. m \in Made \ UbloxParts /\ enabled' \subseteq Devices
  BY DEF LifeInv, LifecycleTypeOK, Devices, Made, UbloxParts
<1>2. \A c \in {"timepulse", "timeMarkTrigger"} : c \notin enabled' => c = m \/ ptr[c] = 0
  OBVIOUS
<1> QED
  BY <1>1, <1>2, EndingCallStep

(* Joining the bridge takes the forwarder away.                             *)
LEMMA JoinForwardStep == ASSUME LifeInv, JoinForwardForGpsd PROVE LifeInv'
<1> USE DEF JoinForwardForGpsd
<1> USE IdleFacts
<1>1. "forwarder" \in Made \ UbloxParts /\ enabled' \subseteq Devices
  BY DEF LifeInv, LifecycleTypeOK, Made, UbloxParts
<1> QED
  BY <1>1, EndingCallStep

(* Starting the bridge makes the forwarder before its thread.               *)
LEMMA StartForwardStep == ASSUME LifeInv, StartForwardForGpsd PROVE LifeInv'
<1> USE DEF StartForwardForGpsd
<1> USE IdleFacts
<1>1. \A k, c : Has(StartForward, k, c) => c = "forwarder" /\ k \in {"make", "thread", "createVirtualTty"}
  BY DEF Has, StartForward
<1>2. Precedes(StartForward, "make", "forwarder", "thread", "forwarder")
  BY DEF Precedes, StartForward
<1>3. Plan(StartForward)
  <2>1. StartForward \in Seq(Steps)
    BY DEF StartForward, Steps, Made
  <2>2. Only(StartForward, Building)
    BY DEF Only, Building, StartForward
  <2>3. \A c \in Lines : Once(StartForward, "make", c)
    BY <1>1, OnceNone DEF Lines
  <2>4. /\ Before(StartForward, "make", "txReady", "thread", "hat")
        /\ Before(StartForward, "validate", "config", "make", "txReady")
        /\ Before(StartForward, "startup", "ublox", "make", "txReady")
    BY <1>1, BeforeNone
  <2> QED
    BY <1>1, <2>1, <2>2, <2>3, <2>4 DEF Plan
<1>4. /\ Shaped' /\ Ahead' = StartForward /\ Stages' /\ Dying' /\ Owned' /\ ThreadsOwned' /\ FixedLive'
      /\ FreedAfterThread' /\ UbloxSafe'
  <2>1. (\A d : ~Has(StartForward, "free", d)) /\ \A c \in UbloxParts : ~Has(StartForward, "reset", c)
    BY <1>1
  <2> QED
    BY <2>1, <1>3, CallKeeps
<1>5. LifecycleTypeOK'
  BY DEF LifeInv, LifecycleTypeOK, Devices
<1>6. MadeBeforeStarted'
  <2>1. \A c \in UbloxParts : Precedes(StartForward, "make", c, "thread", "hat")
    BY <1>1, PrecedesNone
  <2>2. \A c \in Threaded \ {"run"} : Precedes(StartForward, "make", c, "thread", c)
    BY <1>1, <1>2, PrecedesNone
  <2> QED
    BY <1>4, <2>1, <2>2 DEF MadeBeforeStarted
<1>7. LinesFree'
  BY <1>1, <1>4 DEF LinesFree, Lines
<1>8. TxReadyOnce' /\ DevicesOnce'
  BY <1>1, <1>4 DEF TxReadyOnce, DevicesOnce
<1> QED
  BY <1>4, <1>5, <1>6, <1>7, <1>8 DEF LifeInv

(* The destructor begins: the order it follows keeps what every running     *)
(* thread needs.                                                            *)
LEMMA DestroyStep == ASSUME LifeInv, Destroy PROVE LifeInv'
<1> USE DEF Destroy
<1> USE IdleFacts
<1> DEFINE D == OwnPart \o BasePart
<1>1. product \in {"L1", "TIME", "RTK"}
  BY ProductsAssumption DEF LifeInv, LifecycleTypeOK
<1>2. /\ Plan(D) /\ Only(D, Ending) /\ Has(D, "gone", "hat")
      /\ \A c \in UbloxParts : Precedes(D, "join", "hat", "reset", c)
      /\ \A d \in UbloxFixed : Precedes(D, "join", "hat", "free", d)
      /\ \A c \in Threaded : \A d \in Needs(c) : Precedes(D, "reset", c, "free", d)
  BY <1>1, DestroyOrder
<1>3. todo' = D
  OBVIOUS
<1> HIDE DEF D
<1>4. Shaped' /\ ~AtDelete' /\ Ahead' = D
  BY <1>2, <1>3, Replaces
<1>5. Destroying'
  BY <1>2, <1>4 DEF Destroying
<1>6. \A c : ~Has(D, "make", c) /\ ~Has(D, "thread", c)
  <2>1. "make" \notin Ending /\ "thread" \notin Ending
    BY DEF Ending
  <2> QED
    BY <1>2, <2>1, OnlyExclude
<1>7. LifecycleTypeOK'
  BY DEF LifeInv, LifecycleTypeOK, Devices
<1>8. Stages' /\ ThreadsOwned'
  BY DEF LifeInv, Stages, Fixed, ThreadsOwned
<1>9. Dying' /\ Owned'
  BY <1>4 DEF LifeInv, Dying, Owned, Object
<1>10. FixedLive' /\ TxReadyOnce'
  BY <1>5 DEF FixedLive, TxReadyOnce
<1>11. FreedAfterThread'
  BY <1>2, <1>4 DEF LifeInv, FreedAfterThread, Needs
<1>12. UbloxSafe'
  BY <1>2, <1>4 DEF LifeInv, UbloxSafe, Ublox
<1>13. MadeBeforeStarted'
  BY <1>4, <1>6, PrecedesNone DEF MadeBeforeStarted
<1>14. LinesFree' /\ DevicesOnce'
  BY <1>4, <1>5, <1>6 DEF LinesFree, DevicesOnce
<1> QED
  BY <1>4, <1>7, <1>8, <1>9, <1>10, <1>11, <1>12, <1>13, <1>14 DEF LifeInv

(* Stopping the bridge only asks its thread.                                *)
LEMMA StopForwardStep == ASSUME LifeInv, StopForwardForGpsd PROVE LifeInv'
<1> USE DEF StopForwardForGpsd
<1>1. LifecycleTypeOK'
  BY DEF LifeInv, LifecycleTypeOK, Devices, ForwarderRuns, Object
<1> QED
  BY <1>1 DEF LifeInv, Shaped, AtDelete, Ahead, Next1, Member, Stages, Fixed, Dying, Owned, Object, ThreadsOwned,
      FixedLive, Destroying, FreedAfterThread, Needs, UbloxSafe, MadeBeforeStarted, LinesFree, TxReadyOnce, DevicesOnce

-----------------------------------------------------------------------------
(* The steps of a call *)

(* A step that makes, resets, deletes and frees nothing and starts no       *)
(* thread.                                                                  *)
LEMMA PlainStep ==
    ASSUME LifeInv, todo # <<>>, Next1[1] \in {"ask", "join", "validate", "startup", "createVirtualTty"},
           todo' = Tail(todo), Next1[1] = "join" /\ Member = "hat" => Ublox \notin threads,
           UNCHANGED <<product, state, live, ptr, threads, started, enabled>>
    PROVE  /\ Shaped' /\ Stages' /\ Dying' /\ Owned' /\ ThreadsOwned' /\ FixedLive' /\ FreedAfterThread'
           /\ UbloxSafe' /\ MadeBeforeStarted' /\ LinesFree' /\ TxReadyOnce' /\ DevicesOnce'
<1>1. Shaped' /\ ~AtDelete' /\ Ahead' = Tail(todo)
  BY Advances DEF LifeInv
<1>2. /\ ~AtDelete /\ state = "exists"
      /\ \A k, c : Has(Ahead', k, c) => Has(Ahead, k, c)
      /\ \A k, c : Has(Ahead, k, c) => Has(Ahead', k, c) \/ (Next1[1] = k /\ Member = c)
      /\ \A k, c, l, d : Precedes(Ahead, k, c, l, d) =>
            Precedes(Ahead', k, c, l, d) \/ (Next1[1] = k /\ Member = c)
      /\ Destroying' <=> Destroying
  BY <1>1, Moves
<1>3. Stages' /\ ThreadsOwned'
  BY <1>2 DEF LifeInv, Stages, Fixed, ThreadsOwned
<1>4. Dying' /\ Owned'
  BY <1>1, <1>2 DEF LifeInv, Dying, Owned, Object
<1>5. FixedLive'
  BY <1>2 DEF LifeInv, FixedLive, Fixed
<1>6. FreedAfterThread'
  BY <1>2 DEF LifeInv, FreedAfterThread, Needs
<1>7. UbloxSafe'
  BY <1>2 DEF LifeInv, UbloxSafe, Ublox
<1>8. MadeBeforeStarted'
  BY <1>2 DEF LifeInv, MadeBeforeStarted
<1>9. LinesFree'
  BY <1>2 DEF LifeInv, LinesFree
<1>10. TxReadyOnce'
  BY <1>2 DEF LifeInv, TxReadyOnce
<1>11. DevicesOnce'
  BY <1>2 DEF LifeInv, DevicesOnce
<1> QED
  BY <1>1, <1>3, <1>4, <1>5, <1>6, <1>7, <1>8, <1>9, <1>10, <1>11

(* A thread is asked to stop.                                               *)
LEMMA AskStep == ASSUME LifeInv, Ask PROVE LifeInv'
<1> USE DEF Ask, At
<1>1. LifecycleTypeOK'
  BY DEF LifeInv, LifecycleTypeOK, Devices
<1> QED
  BY <1>1, PlainStep DEF LifeInv

(* A thread that is joined runs no more.                                    *)
LEMMA JoinStep == ASSUME LifeInv, Join PROVE LifeInv'
<1> USE DEF Join, At
<1>1. LifecycleTypeOK'
  BY DEF LifeInv, LifecycleTypeOK, Devices
<1> QED
  BY <1>1, PlainStep DEF LifeInv, Owner

(* start() fails, or goes on. *)
LEMMA ValidateOrStartupStep == ASSUME LifeInv, ValidateOrStartup PROVE LifeInv'
<1> USE DEF ValidateOrStartup, At
<1>1. LifecycleTypeOK'
  BY DEF LifeInv, LifecycleTypeOK, Devices
<1>2. CASE todo' = Tail(todo)
  BY <1>1, <1>2, PlainStep DEF LifeInv
<1>3. CASE todo' = <<>>
  <2>1. /\ ~AtDelete /\ Ahead = todo /\ Next1 \in Steps /\ Plan(todo)
    BY AtStep DEF LifeInv
  <2>2. state = "exists"
    BY DEF LifeInv, Stages
  <2>3. Next1[1] \in Building /\ Has(Ahead, Next1[1], Member)
    BY <2>1, HasTail DEF Building, Plan, Next1, Member
  <2>4. \A k \in Ending : \A c : ~Has(Ahead, k, c)
    <3>1. ~Only(Ahead, Ending)
      BY <2>3, BuildingOrEnding, OnlyExclude
    <3> QED
      BY <2>1, <3>1, BuildingOrEnding, OnlyExclude DEF Plan
  <2>5. ~Destroying /\ \A c : ~Has(Ahead, "reset", c)
    BY <2>4 DEF Destroying, Ending
  <2>6. \A k, c : ~Has(<<>>, k, c)
    BY PlanEmpty
  <2>7. /\ Shaped' /\ Ahead' = <<>> /\ Stages' /\ Dying' /\ Owned' /\ ThreadsOwned' /\ FixedLive'
        /\ FreedAfterThread' /\ UbloxSafe'
    BY <1>3, <2>1, <2>2, <2>5, <2>6, PlanEmpty, CallKeeps
  <2>8. MadeBeforeStarted'
    BY <2>6, <2>7, PrecedesNone DEF MadeBeforeStarted
  <2>9. LinesFree' /\ DevicesOnce'
    BY <2>2, <2>5, <2>6, <2>7 DEF LifeInv, LinesFree, DevicesOnce
  <2>10. started \/ ptr["txReady"] = 0
    <3>1. <<Next1[1], Member>> \in {<<"validate", "config">>, <<"startup", "ublox">>}
      BY <2>1 DEF Steps, Member
    <3>2. Has(Ahead, "validate", "config") \/ Has(Ahead, "startup", "ublox")
      BY <2>3, <3>1
    <3> QED
      BY <2>2, <2>5, <3>2 DEF LifeInv, TxReadyOnce
  <2>11. TxReadyOnce'
    BY <2>10 DEF TxReadyOnce
  <2> QED
    BY <1>1, <2>7, <2>8, <2>9, <2>11 DEF LifeInv
<1> QED
  BY <1>2, <1>3

(* The pseudo terminal is there, or the forwarder goes again. *)
LEMMA CreateVirtualTtyStep == ASSUME LifeInv, CreateVirtualTty PROVE LifeInv'
<1> USE DEF CreateVirtualTty, At
<1>1. LifecycleTypeOK'
  BY DEF LifeInv, LifecycleTypeOK, Devices
<1>2. CASE todo' = Tail(todo)
  BY <1>1, <1>2, PlainStep DEF LifeInv
<1>3. CASE todo' = <<<<"reset", "forwarder">>>>
  <2>1. /\ ~AtDelete /\ Ahead = todo /\ Next1 \in Steps /\ Plan(todo)
    BY AtStep DEF LifeInv
  <2>2. state = "exists"
    BY DEF LifeInv, Stages
  <2>3. Next1[1] \in Building /\ Has(Ahead, Next1[1], Member)
    BY <2>1, HasTail DEF Building, Plan, Next1, Member
  <2>4. \A k \in Ending : \A c : ~Has(Ahead, k, c)
    <3>1. ~Only(Ahead, Ending)
      BY <2>3, BuildingOrEnding, OnlyExclude
    <3> QED
      BY <2>1, <3>1, BuildingOrEnding, OnlyExclude DEF Plan
  <2>5. ~Destroying /\ \A c : ~Has(Ahead, "reset", c)
    BY <2>4 DEF Destroying, Ending
  <2>6. started \/ ptr["txReady"] = 0
    <3>1. Next1[1] = "createVirtualTty" /\ Member = "forwarder"
      BY <2>1 DEF Steps, Member
    <3>2. ~Has(Ahead, "thread", "hat")
      BY <2>1, <2>3, <3>1 DEF Plan
    <3> QED
      BY <2>2, <2>5, <3>2 DEF LifeInv, TxReadyOnce
  <2>7. \A c \in {"timepulse", "timeMarkTrigger"} : c \notin enabled => ptr[c] = 0
    BY <2>2, <2>5 DEF LifeInv, DevicesOnce
  <2>8. "forwarder" \in Made \ UbloxParts /\ enabled' \subseteq Devices
    BY DEF LifeInv, LifecycleTypeOK, Made, UbloxParts
  <2> QED
    BY <1>3, <2>1, <2>2, <2>5, <2>6, <2>7, <2>8, EndingCallStep
<1> QED
  BY <1>2, <1>3

(* The destructor ends.                                                     *)
LEMMA GoneStep == ASSUME LifeInv, Gone PROVE LifeInv'
<1> USE DEF Gone, At
<1>1. Shaped' /\ ~AtDelete' /\ Ahead' = <<>>
  BY PlanEmpty, Replaces
<1>2. \A k, c : ~Has(Ahead', k, c)
  BY <1>1, PlanEmpty
<1>3. \A k, c, l, d : Precedes(Ahead', k, c, l, d)
  BY <1>2, PrecedesNone
<1>4. ~AtDelete
  BY DEF AtDelete
<1>5. LifecycleTypeOK'
  BY DEF LifeInv, LifecycleTypeOK, Devices
<1>6. Stages'
  BY DEF LifeInv, Stages, Fixed
<1>7. Dying' /\ Owned'
  BY <1>1, <1>4 DEF LifeInv, Dying, Owned, Object
<1>8. ThreadsOwned' /\ FixedLive'
  BY DEF LifeInv, ThreadsOwned, FixedLive
<1>9. FreedAfterThread'
  BY <1>3 DEF LifeInv, FreedAfterThread, Needs
<1>10. UbloxSafe'
  BY <1>3 DEF LifeInv, UbloxSafe, Ublox
<1>11. MadeBeforeStarted' /\ LinesFree' /\ TxReadyOnce' /\ DevicesOnce'
  BY <1>2, <1>3 DEF MadeBeforeStarted, LinesFree, TxReadyOnce, DevicesOnce
<1> QED
  BY <1>1, <1>5, <1>6, <1>7, <1>8, <1>9, <1>10, <1>11 DEF LifeInv

(* A thread ends, which harms nobody.                                       *)
LEMMA ThreadEndsStep == ASSUME LifeInv, NEW th \in asked, ThreadEnds(th) PROVE LifeInv'
<1> USE DEF ThreadEnds
<1>1. LifecycleTypeOK'
  BY DEF LifeInv, LifecycleTypeOK, Devices
<1>2. threads' \subseteq threads
  OBVIOUS
<1> QED
  BY <1>1, <1>2 DEF LifeInv, Shaped, AtDelete, Ahead, Next1, Member, Stages, Fixed, Dying, Owned, Object,
      ThreadsOwned, FixedLive, Destroying, FreedAfterThread, Needs, UbloxSafe, Ublox, MadeBeforeStarted,
      LinesFree, TxReadyOnce, DevicesOnce

(* A member gets a new object or none: the old one, if any, is deleted next. *)
LEMMA LeavesObject ==
    ASSUME LifeInv, todo # <<>>, Next1[1] \in {"make", "reset"},
           todo' = (IF ptr[Member] = 0 THEN <<>> ELSE <<<<"delete", Object(Member)>>>>) \o Tail(todo)
    PROVE  /\ Shaped' /\ Ahead' = Tail(todo) /\ Member \in Made /\ state = "exists" /\ ~AtDelete
           /\ \/ ptr[Member] = 0 /\ ~AtDelete'
              \/ /\ ptr[Member] # 0 /\ AtDelete' /\ Member' = Object(Member) /\ Object(Member) \in live
<1>1. ~AtDelete /\ Next1 \in Steps /\ Tail(todo) \in Seq(Steps) /\ Shaped
  BY AtStep DEF LifeInv
<1>2. Member \in Made
  BY <1>1 DEF Steps, Member
<1>3. state = "exists"
  BY DEF LifeInv, Stages
<1>4. CASE ptr[Member] = 0
  <2>1. todo' = Tail(todo)
    BY <1>1, <1>4, ConcatEmptySeq
  <2> QED
    BY <1>1, <1>2, <1>3, <1>4, <2>1, Advances
<1>5. CASE ptr[Member] # 0
  <2>1. Object(Member) \in live
    BY <1>2, <1>5 DEF LifeInv, Owned
  <2>2. Object(Member) \in Made \X Generations
    BY <1>2, <2>1 DEF LifeInv, LifecycleTypeOK, Object
  <2>3. todo' = <<<<"delete", Object(Member)>>>> \o Tail(todo)
    BY <1>5
  <2>4. Shaped' /\ AtDelete' /\ Member' = Object(Member) /\ Ahead' = Tail(todo)
    BY <1>1, <2>2, <2>3, AdvancesDeleting
  <2> QED
    BY <1>1, <1>2, <1>3, <1>5, <2>1, <2>4
<1> QED
  BY <1>4, <1>5

(* A member gets a new object; the old one is deleted next, which is never  *)
(* a line.                                                                  *)
LEMMA MakeStep == ASSUME LifeInv, Make PROVE LifeInv'
<1> USE DEF At
<1>1. PICK g \in Generations :
         /\ <<Member, g>> \notin live
         /\ live' = live \cup {<<Member, g>>}
         /\ ptr' = [ptr EXCEPT ![Member] = g]
         /\ \/ UNCHANGED threads
            \/ product = "RTK" /\ Member = "run" /\ threads' = threads \cup {<<"run", g>>}
  BY DEF Make
<1>2. /\ todo # <<>> /\ Next1[1] = "make"
      /\ todo' = (IF ptr[Member] = 0 THEN <<>> ELSE <<<<"delete", Object(Member)>>>>) \o Tail(todo)
      /\ UNCHANGED <<product, state, asked, started, enabled>>
  BY DEF Make
<1>3. /\ Shaped' /\ Ahead' = Tail(todo) /\ Member \in Made /\ state = "exists" /\ ~AtDelete
      /\ \/ ptr[Member] = 0 /\ ~AtDelete'
         \/ /\ ptr[Member] # 0 /\ AtDelete' /\ Member' = Object(Member) /\ Object(Member) \in live
  BY <1>2, LeavesObject
<1> DEFINE m == Member
<1>4. /\ \A k, c : Has(Ahead', k, c) => Has(Ahead, k, c)
      /\ \A k, c : Has(Ahead, k, c) => Has(Ahead', k, c) \/ (k = "make" /\ c = m)
      /\ \A k, c, l, d : Precedes(Ahead, k, c, l, d) =>
            Precedes(Ahead', k, c, l, d) \/ (k = "make" /\ c = m)
      /\ Has(Ahead, "make", m)
      /\ Destroying' <=> Destroying
      /\ \A c \in Lines : m = c => ~Has(Ahead', "make", c)
  BY <1>2, <1>3, Moves
<1>5. ~Destroying /\ \A c : ~Has(Ahead, "reset", c) /\ ~Has(Ahead, "free", c)
  <2>1. "make" \in Building /\ "reset" \in Ending /\ "free" \in Ending
    BY DEF Building, Ending
  <2> QED
    BY <1>2, <1>3, <2>1, Moves
<1>6. \A k, c, l, d : l \in {"reset", "free"} => Precedes(Ahead', k, c, l, d)
  BY <1>4, <1>5, PrecedesNone
<1>7. g # 0 /\ \A c \in Made : c \in Members /\ c \notin Fixed
  BY GenerationsAssumption DEF Made, Members, Fixed
<1>8. ptr \in [Members -> Generations \cup {0}]
  BY DEF LifeInv, LifecycleTypeOK
<1>9. ptr'[m] = g /\ \A c \in Members : c # m => ptr'[c] = ptr[c]
  BY <1>1, <1>3, <1>7, <1>8
<1>10. Fixed' = Fixed /\ Fixed \subseteq Members
  BY <1>2 DEF Fixed, Members
<1>11. \A o \in live : o[1] \in Made => o = <<o[1], ptr[o[1]]>> /\ ptr[o[1]] # 0
  BY <1>3, LiveObjects DEF LifeInv, Object
<1> HIDE DEF m
<1>12. LifecycleTypeOK'
  <2>1. live' \subseteq Members \X Generations
    BY <1>1, <1>3, <1>7 DEF LifeInv, LifecycleTypeOK
  <2>2. ptr' \in [Members -> Generations \cup {0}]
    BY <1>1, <1>8
  <2>3. threads' \subseteq (Members \cup {"hat"}) \X Generations /\ asked' \subseteq threads'
    BY <1>1, <1>2, <1>3, <1>7 DEF LifeInv, LifecycleTypeOK
  <2> QED
    BY <1>2, <2>1, <2>2, <2>3 DEF LifeInv, LifecycleTypeOK, Devices
<1>13. Stages'
  BY <1>2, <1>3, <1>7, <1>9, <1>10 DEF LifeInv, Stages, m
<1>14. Dying'
  <2> SUFFICES ASSUME AtDelete'
               PROVE  /\ Member' \in live' /\ Member'[1] \in Made /\ Member' # <<Member'[1], ptr'[Member'[1]]>>
                      /\ Member'[1] \in Lines => ptr'[Member'[1]] = 0
    BY DEF Dying, Object
  <2>1. ptr[m] # 0 /\ Member' = <<m, ptr[m]>> /\ <<m, ptr[m]>> \in live
    BY <1>3 DEF m, Object
  <2>2. m \notin Lines
    BY <1>4, <2>1 DEF LifeInv, LinesFree
  <2>3. <<m, g>> \notin live
    BY <1>1 DEF m
  <2> QED
    BY <1>1, <1>3, <1>9, <2>1, <2>2, <2>3 DEF m
<1>15. Owned'
  <2>1. ASSUME NEW o \in live', o[1] \in Made
        PROVE  o = <<o[1], ptr'[o[1]]>> \/ (AtDelete' /\ o = Member')
    <3>1. CASE o = <<m, g>>
      BY <3>1, <1>9
    <3>2. CASE o \in live /\ o[1] # m
      BY <3>2, <1>7, <1>9, <1>11, <2>1
    <3>3. CASE o \in live /\ o[1] = m
      BY <3>3, <1>3, <1>11, <2>1 DEF m, Object
    <3> QED
      BY <1>1, <3>1, <3>2, <3>3 DEF m
  <2>2. ASSUME NEW c \in Made, ptr'[c] # 0 PROVE <<c, ptr'[c]>> \in live'
    <3>1. CASE c = m
      BY <3>1, <1>1, <1>9 DEF m
    <3>2. CASE c # m
      BY <3>2, <1>1, <1>7, <1>9, <2>2 DEF LifeInv, Owned, Object
    <3> QED
      BY <3>1, <3>2
  <2> QED
    BY <2>1, <2>2 DEF Owned, Object
<1>16. ThreadsOwned'
  <2> SUFFICES ASSUME NEW th \in threads'
               PROVE  th = Ublox \/ (th \in live' /\ th[1] \in Threaded /\ (th[1] = "run" => product = "RTK"))
    BY <1>2 DEF ThreadsOwned, Ublox
  <2>1. CASE th \in threads
    BY <1>1, <2>1 DEF LifeInv, ThreadsOwned
  <2>2. CASE th \notin threads
    BY <1>1, <2>2 DEF Threaded
  <2> QED
    BY <2>1, <2>2
<1>17. FixedLive'
  BY <1>1, <1>2, <1>3, <1>5, <1>10 DEF LifeInv, FixedLive
<1>18. FreedAfterThread'
  <2> SUFFICES ASSUME NEW c \in Threaded, NEW d \in Needs(c)
               PROVE  <<d, 1>> \in live' /\ Precedes(Ahead', "reset", c, "free", d)
    BY <1>2 DEF FreedAfterThread, Needs
  <2>0. Precedes(Ahead', "reset", c, "free", d)
    BY <1>6
  <2>1. d \in Fixed
    BY DEF Fixed, Needs
  <2> QED
    BY <1>1, <1>3, <1>5, <2>0, <2>1 DEF LifeInv, FixedLive
<1>19. UbloxSafe'
  <2> SUFFICES ASSUME Ublox \in threads'
               PROVE  /\ \A c \in UbloxParts : ptr'[c] # 0
                      /\ \A d \in UbloxFixed : <<d, 1>> \in live'
    BY <1>6 DEF UbloxSafe, Ublox
  <2>1. Ublox \in threads
    BY <1>1 DEF Ublox
  <2>2. \A c \in UbloxParts : c \in Made
    BY DEF UbloxParts, Made
  <2> QED
    BY <1>1, <1>7, <1>9, <2>1, <2>2 DEF LifeInv, UbloxSafe
<1>20. MadeBeforeStarted'
  <2>1. UbloxParts \subseteq Members /\ Threaded \subseteq Members
    BY DEF UbloxParts, Threaded, Members, Made
  <2>2. \A c \in Members : \A d :
           ptr[c] # 0 \/ Precedes(Ahead, "make", c, "thread", d) =>
               ptr'[c] # 0 \/ Precedes(Ahead', "make", c, "thread", d)
    BY <1>4, <1>7, <1>9
  <2> QED
    BY <2>1, <2>2 DEF LifeInv, MadeBeforeStarted
<1>21. LinesFree'
  <2> SUFFICES ASSUME NEW c \in Lines, Has(Ahead', "make", c) PROVE ptr'[c] = 0
    BY DEF LinesFree
  <2>1. c # m /\ Has(Ahead, "make", c) /\ c \in Members
    BY <1>4 DEF Lines, Members, Made
  <2> QED
    BY <1>9, <2>1 DEF LifeInv, LinesFree
<1>22. TxReadyOnce'
  <2> SUFFICES ASSUME ~started, ptr'["txReady"] # 0
               PROVE  /\ Has(Ahead', "thread", "hat")
                      /\ ~Has(Ahead', "validate", "config") /\ ~Has(Ahead', "startup", "ublox")
    BY <1>2 DEF TxReadyOnce
  <2>1. Has(Ahead, "thread", "hat") /\ ~Has(Ahead, "validate", "config") /\ ~Has(Ahead, "startup", "ublox")
    <3>1. CASE m = "txReady"
      <4>1. Ahead = todo /\ todo \in Seq(Steps) /\ Plan(todo)
        BY <1>2, AtStep DEF LifeInv
      <4>2. Head(todo)[1] = "make" /\ Head(todo)[2] = "txReady"
        BY <1>2, <3>1 DEF m, Member, Next1
      <4>3. /\ Before(todo, "validate", "config", "make", "txReady")
            /\ Before(todo, "startup", "ublox", "make", "txReady")
            /\ Has(todo, "make", "txReady") => Has(todo, "thread", "hat")
        BY <4>1 DEF Plan
      <4>4. ~Has(todo, "validate", "config") /\ ~Has(todo, "startup", "ublox")
        BY <1>2, <4>1, <4>2, <4>3, BeforeTail
      <4>5. Has(todo, "thread", "hat")
        BY <1>4, <3>1, <4>1, <4>3
      <4> QED
        BY <4>1, <4>4, <4>5
    <3>2. CASE m # "txReady"
      <4>1. "txReady" \in Members
        BY DEF Members, Made
      <4>2. ptr["txReady"] # 0
        BY <1>9, <3>2, <4>1
      <4> QED
        BY <1>3, <1>5, <4>2 DEF LifeInv, TxReadyOnce
    <3> QED
      BY <3>1, <3>2
  <2> QED
    BY <1>4, <2>1
<1>23. DevicesOnce'
  <2> SUFFICES ASSUME NEW c \in {"timepulse", "timeMarkTrigger"}
               PROVE  /\ Has(Ahead', "make", c) => c \in enabled
                      /\ c \notin enabled /\ ptr'[c] # 0 => Has(Ahead', "reset", c)
    BY <1>2 DEF DevicesOnce
  <2>1. c \in Members
    BY DEF Members, Made
  <2>2. c \notin enabled => c # m /\ (ptr[c] # 0 => Has(Ahead, "reset", c))
    BY <1>3, <1>4, <1>5 DEF LifeInv, DevicesOnce
  <2> QED
    BY <1>4, <1>9, <2>1, <2>2 DEF LifeInv, DevicesOnce
<1> QED
  BY <1>3, <1>12, <1>13, <1>14, <1>15, <1>16, <1>17, <1>18, <1>19, <1>20, <1>21, <1>22, <1>23 DEF LifeInv

(* A member loses its object; no thread that uses it through that member    *)
(* runs.                                                                    *)
LEMMA ResetStep == ASSUME LifeInv, Reset PROVE LifeInv'
<1>1. /\ todo # <<>> /\ Next1[1] = "reset"
      /\ ptr' = [ptr EXCEPT ![Member] = 0]
      /\ todo' = (IF ptr[Member] = 0 THEN <<>> ELSE <<<<"delete", Object(Member)>>>>) \o Tail(todo)
      /\ UNCHANGED <<product, state, live, threads, asked, started, enabled>>
  BY DEF Reset, At
<1>2. /\ Shaped' /\ Ahead' = Tail(todo) /\ Member \in Made /\ state = "exists" /\ ~AtDelete
      /\ \/ ptr[Member] = 0 /\ ~AtDelete'
         \/ /\ ptr[Member] # 0 /\ AtDelete' /\ Member' = Object(Member) /\ Object(Member) \in live
  BY <1>1, LeavesObject
<1> DEFINE m == Member
<1>3. /\ \A k, c : Has(Ahead', k, c) => Has(Ahead, k, c)
      /\ \A k, c : Has(Ahead, k, c) => Has(Ahead', k, c) \/ (k = "reset" /\ c = m)
      /\ \A k, c, l, d : Precedes(Ahead, k, c, l, d) =>
            ~("reset" = l /\ m = d) /\ (Precedes(Ahead', k, c, l, d) \/ (k = "reset" /\ c = m))
      /\ Destroying' <=> Destroying
  BY <1>1, <1>2, Moves
<1>4. \A c : ~Has(Ahead, "make", c) /\ ~Has(Ahead, "thread", c)
  <2>1. "reset" \in Ending /\ "make" \in Building /\ "thread" \in Building
    BY DEF Building, Ending
  <2> QED
    BY <1>1, <1>2, <2>1, Moves
<1>5. \A c \in Made : c \in Members /\ c \notin Fixed
  BY DEF Made, Members, Fixed
<1>6. ptr \in [Members -> Generations \cup {0}]
  BY DEF LifeInv, LifecycleTypeOK
<1>7. ptr'[m] = 0 /\ \A c \in Members : c # m => ptr'[c] = ptr[c]
  BY <1>1, <1>2, <1>5, <1>6
<1>8. Fixed' = Fixed /\ Fixed \subseteq Members
  BY <1>1 DEF Fixed, Members
<1>9. \A o \in live : o[1] \in Made => o = <<o[1], ptr[o[1]]>> /\ ptr[o[1]] # 0
  BY <1>2, LiveObjects DEF LifeInv, Object
<1> HIDE DEF m
<1>10. LifecycleTypeOK'
  <2>1. ptr' \in [Members -> Generations \cup {0}]
    BY <1>1, <1>6
  <2> QED
    BY <1>1, <2>1 DEF LifeInv, LifecycleTypeOK, Devices
<1>11. Stages'
  BY <1>1, <1>2, <1>5, <1>7, <1>8 DEF LifeInv, Stages, m
<1>12. Dying'
  <2> SUFFICES ASSUME AtDelete'
               PROVE  /\ Member' \in live /\ Member'[1] \in Made /\ Member' # <<Member'[1], ptr'[Member'[1]]>>
                      /\ Member'[1] \in Lines => ptr'[Member'[1]] = 0
    BY <1>1 DEF Dying, Object
  <2>1. ptr[m] # 0 /\ Member' = <<m, ptr[m]>> /\ <<m, ptr[m]>> \in live
    BY <1>2 DEF m, Object
  <2> QED
    BY <1>2, <1>7, <2>1 DEF m
<1>13. Owned'
  <2>1. ASSUME NEW o \in live, o[1] \in Made
        PROVE  o = <<o[1], ptr'[o[1]]>> \/ (AtDelete' /\ o = Member')
    <3>1. CASE o[1] # m
      BY <3>1, <1>5, <1>7, <1>9, <2>1
    <3>2. CASE o[1] = m
      BY <3>2, <1>2, <1>9, <2>1 DEF m, Object
    <3> QED
      BY <3>1, <3>2
  <2>2. ASSUME NEW c \in Made, ptr'[c] # 0 PROVE <<c, ptr'[c]>> \in live
    BY <1>5, <1>7, <2>2 DEF LifeInv, Owned, Object
  <2> QED
    BY <1>1, <2>1, <2>2 DEF Owned, Object
<1>14. ThreadsOwned' /\ FixedLive'
  BY <1>1, <1>3, <1>8 DEF LifeInv, ThreadsOwned, FixedLive, Ublox
<1>15. FreedAfterThread'
  <2> SUFFICES ASSUME NEW c \in Threaded, NEW d \in Needs(c)
               PROVE  \/ \A o \in live : o[1] # c
                      \/ <<d, 1>> \in live /\ (ptr'[c] = 0 \/ Precedes(Ahead', "reset", c, "free", d))
    BY <1>1 DEF FreedAfterThread, Needs
  <2>1. \/ \A o \in live : o[1] # c
        \/ <<d, 1>> \in live /\ (ptr[c] = 0 \/ Precedes(Ahead, "reset", c, "free", d))
    BY DEF LifeInv, FreedAfterThread
  <2>2. c \in Members
    BY DEF Threaded, Members, Made
  <2> QED
    BY <1>3, <1>7, <2>1, <2>2
<1>16. UbloxSafe'
  <2> SUFFICES ASSUME Ublox \in threads
               PROVE  /\ \A c \in UbloxParts : ptr'[c] # 0 /\ Precedes(Ahead', "join", "hat", "reset", c)
                      /\ \A d \in UbloxFixed : <<d, 1>> \in live /\ Precedes(Ahead', "join", "hat", "free", d)
    BY <1>1 DEF UbloxSafe, Ublox
  <2>1. \A c \in UbloxParts : c \in Members
    BY DEF UbloxParts, Members, Made
  <2>2. /\ \A c \in UbloxParts : ptr[c] # 0 /\ Precedes(Ahead, "join", "hat", "reset", c)
        /\ \A d \in UbloxFixed : <<d, 1>> \in live /\ Precedes(Ahead, "join", "hat", "free", d)
    BY DEF LifeInv, UbloxSafe
  <2> QED
    BY <1>3, <1>7, <2>1, <2>2
<1>17. MadeBeforeStarted'
  <2>1. \A k, c, d : Precedes(Ahead', k, c, "thread", d)
    BY <1>3, <1>4, PrecedesNone
  <2> QED
    BY <2>1 DEF MadeBeforeStarted
<1>18. LinesFree'
  BY <1>3, <1>4 DEF LinesFree
<1>19. TxReadyOnce'
  <2> SUFFICES ASSUME ~Destroying, ~started, ptr'["txReady"] # 0 PROVE FALSE
    BY <1>1, <1>3 DEF TxReadyOnce
  <2>1. ptr["txReady"] # 0
    BY <1>7 DEF Members, Made
  <2> QED
    BY <1>2, <1>4, <2>1 DEF LifeInv, TxReadyOnce
<1>20. DevicesOnce'
  <2> SUFFICES ASSUME NEW c \in {"timepulse", "timeMarkTrigger"}
               PROVE  ~Destroying /\ c \notin enabled /\ ptr'[c] # 0 => Has(Ahead', "reset", c)
    BY <1>1, <1>3, <1>4 DEF DevicesOnce
  <2>1. c \in Members
    BY DEF Members, Made
  <2> QED
    BY <1>2, <1>3, <1>7, <2>1 DEF LifeInv, DevicesOnce
<1> QED
  BY <1>2, <1>10, <1>11, <1>12, <1>13, <1>14, <1>15, <1>16, <1>17, <1>18, <1>19, <1>20 DEF LifeInv

(* The destructor of an object waits for the thread of that object. *)
LEMMA DeleteStep == ASSUME LifeInv, Delete PROVE LifeInv'
<1>1. AtDelete /\ UNCHANGED <<product, state, ptr, threads, started, enabled>>
  BY DEF Delete, At, AtDelete
<1>2. Member \in live /\ Member[1] \in Made /\ Member # Object(Member[1])
  BY <1>1 DEF LifeInv, Dying
<1>3. CASE Member \in threads
  <2>1. asked' = asked \cup {Member} /\ UNCHANGED <<live, todo>>
    BY <1>3 DEF Delete
  <2>2. LifecycleTypeOK'
    BY <1>1, <1>3, <2>1 DEF LifeInv, LifecycleTypeOK, Devices
  <2> QED
    BY <1>1, <2>1, <2>2 DEF LifeInv, Shaped, AtDelete, Ahead, Next1, Member, Stages, Fixed, Dying, Owned, Object,
        ThreadsOwned, FixedLive, Destroying, FreedAfterThread, Needs, UbloxSafe, Ublox, MadeBeforeStarted,
        LinesFree, TxReadyOnce, DevicesOnce
<1>4. CASE Member \notin threads
  <2>1. live' = live \ {Member} /\ todo' = Tail(todo) /\ asked' = asked
    BY <1>4 DEF Delete
  <2>2. Shaped' /\ ~AtDelete' /\ Ahead' = Ahead
    BY <1>1, <2>1, Deleted DEF LifeInv
  <2>3. Destroying' <=> Destroying
    BY <2>2 DEF Destroying
  <2>4. \A c \in Fixed : c \notin Made
    BY DEF Fixed, Made
  <2>5. \A c \in Threaded : \A d \in Needs(c) : d \notin Made
    BY DEF Threaded, Needs, Made
  <2>6. \A d \in UbloxFixed : d \notin Made
    BY DEF UbloxFixed, Made
  <2>7. \A d : d \notin Made /\ <<d, 1>> \in live => <<d, 1>> \in live'
    BY <1>2, <2>1
  <2>8. LifecycleTypeOK'
    BY <1>1, <2>1 DEF LifeInv, LifecycleTypeOK, Devices
  <2>9. Stages'
    BY <1>1, <2>1 DEF LifeInv, Stages, Fixed, AtDelete
  <2>10. Dying'
    BY <2>2 DEF Dying
  <2>11. Owned'
    <3>1. ASSUME NEW o \in live', o[1] \in Made PROVE o = Object(o[1])
      BY <2>1, <3>1 DEF LifeInv, Owned
    <3>2. ASSUME NEW c \in Made, ptr[c] # 0 PROVE Object(c) \in live'
      <4>1. Object(c) # Member
        BY <1>2 DEF Object
      <4> QED
        BY <2>1, <3>2, <4>1 DEF LifeInv, Owned
    <3> QED
      BY <1>1, <3>1, <3>2 DEF Owned, Object
  <2>12. ThreadsOwned'
    BY <1>1, <1>4, <2>1 DEF LifeInv, ThreadsOwned, Ublox
  <2>13. FixedLive'
    BY <1>1, <2>3, <2>4, <2>7 DEF LifeInv, FixedLive, Fixed
  <2>14. FreedAfterThread'
    <3> SUFFICES ASSUME NEW c \in Threaded, NEW d \in Needs(c)
                 PROVE  \/ \A o \in live' : o[1] # c
                        \/ <<d, 1>> \in live' /\ (ptr[c] = 0 \/ Precedes(Ahead, "reset", c, "free", d))
      BY <1>1, <2>2 DEF FreedAfterThread, Needs
    <3> QED
      BY <2>1, <2>5, <2>7 DEF LifeInv, FreedAfterThread
  <2>15. UbloxSafe'
    BY <1>1, <2>2, <2>6, <2>7 DEF LifeInv, UbloxSafe, Ublox
  <2>16. MadeBeforeStarted' /\ LinesFree' /\ TxReadyOnce' /\ DevicesOnce'
    BY <1>1, <2>2, <2>3 DEF LifeInv, MadeBeforeStarted, LinesFree, TxReadyOnce, DevicesOnce
  <2> QED
    BY <2>2, <2>8, <2>9, <2>10, <2>11, <2>12, <2>13, <2>14, <2>15, <2>16 DEF LifeInv
<1> QED
  BY <1>3, <1>4

(* A member of the HAT itself goes: only in its destructor, and after       *)
(* everything that used it.                                                 *)
LEMMA FreeStep == ASSUME LifeInv, Free PROVE LifeInv'
<1>1. /\ todo # <<>> /\ Next1[1] = "free"
      /\ live' = live \ {<<Member, 1>>}
      /\ todo' = Tail(todo)
      /\ UNCHANGED <<product, state, ptr, threads, asked, started, enabled>>
  BY DEF Free, At
<1>2. Shaped' /\ ~AtDelete' /\ Ahead' = Tail(todo)
  BY <1>1, Advances DEF LifeInv
<1> DEFINE m == Member
<1>3. /\ ~AtDelete /\ state = "exists" /\ Next1 \in Steps
      /\ \A k, c : Has(Ahead', k, c) => Has(Ahead, k, c)
      /\ \A k, c, l, d : Precedes(Ahead, k, c, l, d) =>
            ~("free" = l /\ m = d) /\ (Precedes(Ahead', k, c, l, d) \/ (k = "free" /\ c = m))
      /\ Has(Ahead, "free", m)
      /\ Destroying' <=> Destroying
  BY <1>1, <1>2, Moves
<1>4. m \in Freed /\ m \notin Made
  <2>1. m \in Freed
    BY <1>1, <1>3 DEF Steps, Member
  <2> QED
    BY <2>1 DEF Freed, Made
<1>5. Destroying'
  BY <1>3, <1>4 DEF LifeInv, Shaped, Plan, Destroying
<1>6. live' = live \ {<<m, 1>>}
  BY <1>1
<1> HIDE DEF m
<1>7. LifecycleTypeOK'
  BY <1>1 DEF LifeInv, LifecycleTypeOK, Devices
<1>8. Stages'
  BY <1>1, <1>3 DEF LifeInv, Stages, Fixed
<1>9. Dying'
  BY <1>2 DEF Dying
<1>10. Owned'
  BY <1>1, <1>3, <1>4, <1>6 DEF LifeInv, Owned, Object
<1>11. ThreadsOwned'
  <2>1. \A th \in threads : th[1] \in Threaded => th # <<m, 1>>
    BY <1>4 DEF Threaded, Made
  <2> QED
    BY <1>1, <1>6, <2>1 DEF LifeInv, ThreadsOwned, Ublox
<1>12. FixedLive' /\ TxReadyOnce'
  BY <1>5 DEF FixedLive, TxReadyOnce
<1>13. FreedAfterThread'
  <2> SUFFICES ASSUME NEW c \in Threaded, NEW d \in Needs(c)
               PROVE  \/ \A o \in live' : o[1] # c
                      \/ <<d, 1>> \in live' /\ (ptr[c] = 0 \/ Precedes(Ahead', "reset", c, "free", d))
    BY <1>1 DEF FreedAfterThread, Needs
  <2>1. \/ \A o \in live : o[1] # c
        \/ <<d, 1>> \in live /\ (ptr[c] = 0 \/ Precedes(Ahead, "reset", c, "free", d))
    BY DEF LifeInv, FreedAfterThread
  <2>2. ptr[c] = 0 => \A o \in live : o[1] # c
    <3>1. c \in Made
      BY DEF Threaded, Made
    <3> QED
      BY <1>3, <3>1, LiveObjects DEF LifeInv
  <2> QED
    BY <1>3, <1>6, <2>1, <2>2
<1>14. UbloxSafe'
  <2> SUFFICES ASSUME Ublox \in threads
               PROVE  /\ \A c \in UbloxParts : ptr[c] # 0 /\ Precedes(Ahead', "join", "hat", "reset", c)
                      /\ \A d \in UbloxFixed : <<d, 1>> \in live' /\ Precedes(Ahead', "join", "hat", "free", d)
    BY <1>1 DEF UbloxSafe, Ublox
  <2>1. /\ \A c \in UbloxParts : ptr[c] # 0 /\ Precedes(Ahead, "join", "hat", "reset", c)
        /\ \A d \in UbloxFixed : <<d, 1>> \in live /\ Precedes(Ahead, "join", "hat", "free", d)
    BY DEF LifeInv, UbloxSafe
  <2> QED
    BY <1>3, <1>6, <2>1
<1>15. MadeBeforeStarted'
  BY <1>1, <1>3 DEF LifeInv, MadeBeforeStarted
<1>16. LinesFree' /\ DevicesOnce'
  BY <1>1, <1>3, <1>5 DEF LifeInv, LinesFree, DevicesOnce
<1> QED
  BY <1>2, <1>7, <1>8, <1>9, <1>10, <1>11, <1>12, <1>13, <1>14, <1>15, <1>16 DEF LifeInv

(* A thread starts on objects that exist. *)
LEMMA StartThreadStep == ASSUME LifeInv, StartThread PROVE LifeInv'
<1>1. /\ todo # <<>> /\ Next1[1] = "thread"
      /\ threads' = threads \cup {Owner(Member)}
      /\ started' = (started \/ Member = "hat")
      /\ todo' = Tail(todo)
      /\ UNCHANGED <<product, state, live, ptr, asked, enabled>>
  BY DEF StartThread, At
<1>2. Shaped' /\ ~AtDelete' /\ Ahead' = Tail(todo)
  BY <1>1, Advances DEF LifeInv
<1> DEFINE m == Member
<1>3. /\ ~AtDelete /\ state = "exists" /\ Next1 \in Steps
      /\ \A k, c : Has(Ahead', k, c) => Has(Ahead, k, c)
      /\ \A k, c : Has(Ahead, k, c) => Has(Ahead', k, c) \/ (k = "thread" /\ c = m)
      /\ \A k, c, l, d : Precedes(Ahead, k, c, l, d) =>
            ~("thread" = l /\ m = d) /\ (Precedes(Ahead', k, c, l, d) \/ (k = "thread" /\ c = m))
      /\ Destroying' <=> Destroying
  BY <1>1, <1>2, Moves
<1>4. m \in {"hat", "txReady", "timepulse", "forwarder"}
  BY <1>1, <1>3 DEF Steps, Member
<1>5. ~Destroying /\ \A c : ~Has(Ahead, "reset", c) /\ ~Has(Ahead, "free", c)
  <2>1. "thread" \in Building /\ "reset" \in Ending /\ "free" \in Ending
    BY DEF Building, Ending
  <2> QED
    BY <1>1, <1>2, <2>1, Moves
<1>6. \A k, c, l, d : l \in {"reset", "free"} => Precedes(Ahead', k, c, l, d)
  BY <1>3, <1>5, PrecedesNone
<1>7. \/ m = "hat" /\ threads' = threads \cup {Ublox} /\ \A c \in UbloxParts : ptr[c] # 0
      \/ /\ m # "hat" /\ m \in Threaded \ {"run"} /\ m \in Made
         /\ threads' = threads \cup {Object(m)} /\ Object(m) \in live /\ Object(m) # Ublox
  <2>1. CASE m = "hat"
    BY <1>1, <1>3, <2>1 DEF LifeInv, MadeBeforeStarted, Owner
  <2>2. CASE m # "hat"
    <3>1. m \in Threaded \ {"run"} /\ m \in Made
      BY <1>4, <2>2 DEF Threaded, Made
    <3>2. ptr[m] # 0
      BY <1>3, <3>1 DEF LifeInv, MadeBeforeStarted
    <3>3. Object(m) \in live /\ Object(m) # Ublox
      BY <2>2, <3>1, <3>2 DEF LifeInv, Owned, Object, Ublox
    <3> QED
      BY <1>1, <2>2, <3>1, <3>3 DEF Owner
  <2> QED
    BY <2>1, <2>2
<1>8. started' = (started \/ m = "hat")
  BY <1>1
<1> HIDE DEF m
<1>9. LifecycleTypeOK'
  <2>1. threads' \subseteq (Members \cup {"hat"}) \X Generations
    <3>1. Ublox \in (Members \cup {"hat"}) \X Generations
      BY GenerationsAssumption DEF Ublox
    <3>2. threads \subseteq (Members \cup {"hat"}) \X Generations /\ live \subseteq Members \X Generations
      BY DEF LifeInv, LifecycleTypeOK
    <3> QED
      BY <1>7, <3>1, <3>2
  <2>2. started' \in BOOLEAN
    BY <1>8 DEF LifeInv, LifecycleTypeOK
  <2> QED
    BY <1>1, <2>1, <2>2 DEF LifeInv, LifecycleTypeOK, Devices
<1>10. Stages'
  BY <1>1, <1>3 DEF LifeInv, Stages, Fixed
<1>11. Dying' /\ Owned'
  BY <1>1, <1>2, <1>3 DEF LifeInv, Dying, Owned, Object
<1>12. ThreadsOwned'
  <2>1. Object(m)[1] = m
    BY DEF Object
  <2> QED
    BY <1>1, <1>7, <2>1 DEF LifeInv, ThreadsOwned, Ublox
<1>13. FixedLive'
  BY <1>1, <1>3 DEF LifeInv, FixedLive, Fixed
<1>14. FreedAfterThread'
  <2> SUFFICES ASSUME NEW c \in Threaded, NEW d \in Needs(c)
               PROVE  \/ \A o \in live : o[1] # c
                      \/ <<d, 1>> \in live /\ Precedes(Ahead', "reset", c, "free", d)
    BY <1>1 DEF FreedAfterThread, Needs
  <2>1. Precedes(Ahead', "reset", c, "free", d)
    BY <1>6
  <2> QED
    BY <2>1 DEF LifeInv, FreedAfterThread
<1>15. UbloxSafe'
  <2> SUFFICES ASSUME Ublox \in threads'
               PROVE  /\ \A c \in UbloxParts : ptr[c] # 0
                      /\ \A d \in UbloxFixed : <<d, 1>> \in live
    BY <1>1, <1>6 DEF UbloxSafe, Ublox
  <2>1. \A d \in UbloxFixed : <<d, 1>> \in live
    BY <1>3, <1>5 DEF LifeInv, FixedLive, UbloxFixed, Fixed
  <2> QED
    BY <1>7, <2>1 DEF LifeInv, UbloxSafe
<1>16. MadeBeforeStarted'
  BY <1>1, <1>3 DEF LifeInv, MadeBeforeStarted
<1>17. LinesFree' /\ DevicesOnce'
  BY <1>1, <1>3 DEF LifeInv, LinesFree, DevicesOnce
<1>18. TxReadyOnce'
  <2> SUFFICES ASSUME ~started, m # "hat", ptr["txReady"] # 0
               PROVE  /\ Has(Ahead', "thread", "hat")
                      /\ ~Has(Ahead', "validate", "config") /\ ~Has(Ahead', "startup", "ublox")
    BY <1>1, <1>8 DEF TxReadyOnce
  <2> QED
    BY <1>3, <1>5 DEF LifeInv, TxReadyOnce
<1> QED
  BY <1>2, <1>9, <1>10, <1>11, <1>12, <1>13, <1>14, <1>15, <1>16, <1>17, <1>18 DEF LifeInv

(* Nothing happens.                                                         *)
LEMMA StutterStep == ASSUME LifeInv, UNCHANGED lifecycleVars PROVE LifeInv'
BY DEF LifeInv, lifecycleVars, LifecycleTypeOK, Devices, Shaped, AtDelete, Ahead, Next1, Member, Stages, Fixed,
    Dying, Owned, Object, ThreadsOwned, FixedLive, Destroying, FreedAfterThread, Needs, UbloxSafe, Ublox,
    MadeBeforeStarted, LinesFree, TxReadyOnce, DevicesOnce

(* Before the constructor there is nothing.                                 *)
LEMMA InitLifeInv == LifecycleInit => LifeInv
<1> SUFFICES ASSUME LifecycleInit PROVE LifeInv
  OBVIOUS
<1> USE DEF LifecycleInit
<1>1. ~AtDelete /\ Ahead = <<>>
  BY DEF AtDelete, Ahead
<1>2. Shaped
  BY <1>1, PlanEmpty DEF Shaped
<1>3. LifecycleTypeOK
  <2>1. ptr \in [Members -> Generations \cup {0}]
    OBVIOUS
  <2> QED
    BY <2>1 DEF LifecycleTypeOK
<1>4. \A c \in Made : ptr[c] = 0
  BY DEF Members
<1>5. Stages /\ Dying /\ Owned /\ ThreadsOwned /\ FixedLive
  BY <1>1, <1>4 DEF Stages, Dying, Owned, ThreadsOwned, FixedLive
<1>6. FreedAfterThread /\ UbloxSafe
  BY DEF FreedAfterThread, UbloxSafe
<1>7. MadeBeforeStarted /\ LinesFree /\ TxReadyOnce /\ DevicesOnce
  BY <1>1, PlanEmpty, PrecedesNone DEF MadeBeforeStarted, LinesFree, TxReadyOnce, DevicesOnce
<1> QED
  BY <1>2, <1>3, <1>5, <1>6, <1>7 DEF LifeInv

(* Every step keeps the invariant.                                          *)
LEMMA NextLifeInv == LifeInv /\ [LifecycleNext]_lifecycleVars => LifeInv'
<1> SUFFICES ASSUME LifeInv, [LifecycleNext]_lifecycleVars PROVE LifeInv'
  OBVIOUS
<1>1. CASE LifecycleNext
  <2>1. CASE Create \/ CallStart \/ StartForwardForGpsd \/ StopForwardForGpsd \/ JoinForwardForGpsd \/ Destroy
    BY <2>1, CreateStep, CallStartStep, StartForwardStep, StopForwardStep, JoinForwardStep, DestroyStep
  <2>2. CASE \E c \in Members : Enable(c) \/ Disable(c)
    BY <2>2, EnableStep, DisableStep
  <2>3. CASE CallStep
    BY <2>3, MakeStep, ResetStep, DeleteStep, FreeStep, StartThreadStep, AskStep, JoinStep,
       ValidateOrStartupStep, CreateVirtualTtyStep, GoneStep DEF CallStep
  <2>4. CASE \E th \in asked : ThreadEnds(th)
    BY <2>4, ThreadEndsStep
  <2> QED
    BY <1>1, <2>1, <2>2, <2>3, <2>4 DEF LifecycleNext
<1>2. CASE UNCHANGED lifecycleVars
  BY <1>2, StutterStep
<1> QED
  BY <1>1, <1>2

(* The invariant of the HAT holds.                                          *)
LEMMA LifeInvHolds == LifecycleSpec => []LifeInv
BY InitLifeInv, NextLifeInv, PTL DEF LifecycleSpec

(* The state of the HAT keeps its types for any number of generations of an *)
(* object.                                                                  *)
THEOREM LifecycleTypeCorrect == LifecycleSpec => []LifecycleTypeOK
<1>1. LifeInv => LifecycleTypeOK
  BY DEF LifeInv
<1> QED
  BY <1>1, LifeInvHolds, PTL

(* What the invariant says of one thread. *)
LEMMA UsedObjectsExist == LifeInv => NothingGoneIsUsed
<1> SUFFICES ASSUME LifeInv, NEW th \in threads, NEW o \in Uses(th) PROVE o \in live
  BY DEF NothingGoneIsUsed
<1>1. CASE th = Ublox
  <2>0. Uses(Ublox) = {Object(c) : c \in {"ublox", "run", "parser", "registry", "commDriver", "store", "notifiers"}}
    BY DEF Uses, Ublox
  <2>1. PICK c \in UbloxParts \cup UbloxFixed : o = Object(c)
    BY <1>1, <2>0 DEF UbloxParts, UbloxFixed
  <2>2. CASE c \in UbloxParts
    BY <1>1, <2>1, <2>2 DEF LifeInv, UbloxSafe, Owned, UbloxParts, Made
  <2>3. CASE c \in UbloxFixed
    <3>1. <<c, 1>> \in live
      BY <1>1, <2>3 DEF LifeInv, UbloxSafe
    <3>2. c \in Fixed /\ state # "none"
      BY <2>3, <3>1 DEF LifeInv, Stages, UbloxFixed, Fixed
    <3> QED
      BY <2>1, <3>1, <3>2 DEF LifeInv, Stages, Object
  <2> QED
    BY <2>2, <2>3
<1>2. CASE th # Ublox
  <2>1. th \in live /\ th[1] \in Threaded
    BY <1>2 DEF LifeInv, ThreadsOwned
  <2>2. \A d \in Needs(th[1]) : <<d, 1>> \in live
    BY <2>1 DEF LifeInv, FreedAfterThread
  <2>3. th[1] = "run" => product = "RTK"
    BY <1>2 DEF LifeInv, ThreadsOwned
  <2>4. Uses(th) = {th} \cup {<<d, 1>> : d \in Needs(th[1])}
    <3>1. CASE th[1] = "run"
      BY <1>2, <2>3, <3>1 DEF Uses, Needs
    <3>2. CASE th[1] = "forwarder"
      BY <1>2, <3>2 DEF Uses, Needs
    <3>3. CASE th[1] # "run" /\ th[1] # "forwarder"
      BY <1>2, <3>3 DEF Uses, Needs
    <3> QED
      BY <3>1, <3>2, <3>3
  <2> QED
    BY <2>1, <2>2, <2>4
<1> QED
  BY <1>1, <1>2

(* No thread of the library runs on an object that is gone (~GnssHat and    *)
(* the destructors of the products, GnssHat.cpp), however often start()     *)
(* failed, the devices were enabled and disabled and the bridge was         *)
(* restarted.                                                               *)
THEOREM NothingGoneIsUsedHolds == LifecycleSpec => []NothingGoneIsUsed
BY LifeInvHolds, UsedObjectsExist, PTL

(* Two objects of a line: one is being deleted, and then no other exists.   *)
LEMMA OneObjectPerLine == LifeInv => LinesRequestedOnce
<1> SUFFICES ASSUME LifeInv, NEW c \in Lines, NEW g \in Generations, <<c, g>> \in live
             PROVE  g = ptr[c] \/ (AtDelete /\ Member = <<c, g>> /\ ptr[c] = 0)
  BY GenerationsAssumption DEF LinesRequestedOnce, Lines
<1> QED
  BY DEF LifeInv, Owned, Object, Dying, Lines, Made

(* A GPIO line belongs to one object at a time, whatever is enabled,        *)
(* disabled and restarted in which order (GnssHat.cpp).                     *)
THEOREM LinesRequestedOnceHolds == LifecycleSpec => []LinesRequestedOnce
BY LifeInvHolds, OneObjectPerLine, PTL
===============================================================================
