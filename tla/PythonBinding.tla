---------------------------- MODULE PythonBinding ----------------------------
(***************************************************************************)
(* The objects of the Python module (jp_gnss_module.c) around a HAT, an    *)
(* NTRIP caster, client or server: Python threads call methods, the        *)
(* threads of the native object (handlers, receive loop, monitor) log      *)
(* through a Python callback, and four things can be waited for: the       *)
(* interpreter lock (GIL), the caster's clientsMutex_, the end of a native *)
(* thread, and a HAT's next fix, pulse or time mark.                       *)
(*                                                                         *)
(* The caster's handlers log while they hold clientsMutex_, as             *)
(* registerClient and removeClient do, and so does feed() when it drops a  *)
(* client; the one thread of a client or a server logs without a lock, as  *)
(* the handler of a source does, which is left out; a HAT's threads call   *)
(* no Python. Whoever sends waits for the peer to read, and the caster     *)
(* sends with clientsMutex_; a handler waits for the request of its peer.  *)
(* The program does not start what runs. What a calling thread logs        *)
(* otherwise needs the GIL that the call has, or is about to take anyway.  *)
(***************************************************************************)
CONSTANTS
    PyThreads,    \* bound: Python threads that use the object
    Workers,      \* bound: native threads of the object at a time
    Kinds,        \* the objects looked at: "hat", "caster", "client", "server"
    Calls,        \* the methods the program uses
    Nobody

ASSUME NamesAssumption == Nobody \notin PyThreads \cup Workers /\ PyThreads \cap Workers = {}
ASSUME KindsAssumption == Kinds \subseteq {"hat", "caster", "client", "server"}

VARIABLES
    kind,         \* what the object wraps; never changes
    gil,          \* who holds the GIL
    mutex,        \* who holds clientsMutex_ (or nothing, in a client or a server)
    running,      \* running_ of a caster; connect() has started the thread of the others
    object,       \* self: "alive", "closed" (the pointer is NULL) or "freed"
    logger,       \* logCallback_ is set
    referenced,   \* the callback object has a reference
    py,           \* per Python thread: where it is
    call,         \* ... and in which method
    worker,       \* per native thread: what it does
    logging,      \* per thread: how far its log() is
    overwritten,  \* history: threads in log() whose callback has been replaced meanwhile
    crashed       \* an empty std::function or a freed callback was called: the process is gone

objectVars == <<mutex, running, object, logger, referenced>>
workerVars == <<worker, logging, overwritten>>
vars == <<kind, gil, objectVars, py, call, workerVars, crashed>>

Threads == PyThreads \cup Workers

-----------------------------------------------------------------------------
(* The methods *)

(* The methods that release the GIL (Py_BEGIN_ALLOW_THREADS) around the     *)
(* native call, and those that keep it; "exit" is __exit__, "dealloc" the  *)
(* deallocation of the object.                                             *)
HatWaits == {"wait_and_get_fresh_navigation", "wait_and_get_fresh_time_mark", "timepulse",
             "join_forward_for_gpsd"}
HatReads == {"get_navigation", "get_system_health", "get_mon_ver"}
HatCorrections == {"rtk_get_full_corrections", "rtk_get_tiny_corrections", "rtk_get_rtcm3_frame",
                   "rtk_apply_corrections"}
HatControls == {"start", "enable_timepulse", "disable_timepulse", "start_forward_for_gpsd",
                "stop_forward_for_gpsd", "get_gpsd_device_path", "hard_reset_cold_start",
                "soft_reset_hot_start", "name", "exit", "dealloc"}
HatTimeMarks == {"get_time_mark", "enable_time_mark_trigger", "disable_time_mark_trigger",
                 "trigger_time_mark"}

LogSettings == {"set_log_callback", "set_log_level"}
CasterReleases == {"start", "stop", "feed", "dealloc"}
CasterKeeps == {"client_count", "update_position", "get_stats", "set_credentials", "set_tls", "exit"}
ClientReleases == {"connect", "disconnect", "receive", "dealloc"}
ClientKeeps == {"is_connected", "send_position", "get_stats", "set_auto_reconnect",
                "reconnect_count", "update_position", "set_auto_gga", "set_tls", "exit"}
ServerReleases == {"connect", "disconnect", "feed", "dealloc"}
ServerKeeps == {"is_connected", "get_stats", "set_auto_reconnect", "reconnect_count", "set_tls",
                "exit"}

Releases ==
    [hat |-> HatWaits \cup HatReads \cup HatCorrections,
     caster |-> CasterReleases, client |-> ClientReleases, server |-> ServerReleases][kind]
Keeps ==
    [hat |-> HatControls \cup HatTimeMarks, caster |-> CasterKeeps \cup LogSettings,
     client |-> ClientKeeps \cup LogSettings, server |-> ServerKeeps \cup LogSettings][kind]

(* mutant: stop() and disconnect() are called as __exit__ calls them. *)
AllowsThreadsRarely(m) == m \in Releases \ {"stop", "disconnect"}

AllowsThreads(m) == m \in Releases

Starts(m) == m \in {"start", "connect"}
Stops(m) == m \in {"stop", "disconnect", "exit", "dealloc"}
Counts(m) == kind = "caster" /\ m = "client_count"
Sends(m) == m \in {"feed", "send_position", "set_auto_gga"}

Enter(t, m) ==
    /\ ~crashed /\ py[t] = "idle" /\ gil = Nobody
    /\ object = "alive" /\ m \in (Releases \cup Keeps) \cap Calls
    /\ call' = [call EXCEPT ![t] = m]
    /\ py' = [py EXCEPT ![t] = "native"]
    /\ gil' = IF AllowsThreads(m) THEN Nobody ELSE t
    /\ UNCHANGED kind

TheWorker == CHOOSE h \in Workers : TRUE      \* the one thread of a client or a server
NoWorkers == \A h \in Workers : worker[h] = "none"

(* A thread whose turn it is calls a method, as long as there is somebody   *)
(* to refer to the object; it is started when no call to stop it is under   *)
(* way, and one thread starts or stops what is no caster.                   *)
Call(t, m) ==
    /\ m # "dealloc" /\ \A u \in PyThreads : call[u] # "dealloc"
    /\ Starts(m) => /\ ~running \/ (kind \in {"client", "server"} /\ NoWorkers)
                    /\ \A u \in PyThreads : ~Stops(call[u]) /\ ~Starts(call[u])
    /\ Stops(m) /\ kind # "caster" => \A u \in PyThreads : ~Stops(call[u]) /\ ~Starts(call[u])
    /\ Enter(t, m)
    /\ UNCHANGED <<objectVars, workerVars, crashed>>

(* mutant: the reference goes with the callback. *)
DeallocDropsFirst(t) ==
    /\ \A u \in PyThreads : py[u] = "idle"
    /\ Enter(t, "dealloc")
    /\ logger' = FALSE
    /\ referenced' = FALSE
    /\ UNCHANGED <<mutex, running, object, workerVars, crashed>>

(* The last reference to the object goes: nobody is in a method. The        *)
(* callback is cleared before the GIL is released and the object stopped.   *)
Dealloc(t) ==
    /\ \A u \in PyThreads : py[u] = "idle"
    /\ Enter(t, "dealloc")
    /\ logger' = FALSE
    /\ UNCHANGED <<mutex, running, object, referenced, workerVars, crashed>>

(* The HAT runs, the caster listens, or the client or server is connected   *)
(* and has its thread; or the attempt fails.                               *)
Listen(t) ==
    /\ ~crashed /\ py[t] = "native" /\ Starts(call[t])
    /\ py' = [py EXCEPT ![t] = "return"]
    /\ \/ /\ running' = TRUE
          /\ IF kind \in {"hat", "caster"} THEN UNCHANGED worker
             ELSE worker' = [worker EXCEPT ![TheWorker] = "serve"]
       \/ UNCHANGED <<running, worker>>
    /\ UNCHANGED <<kind, gil, mutex, object, logger, referenced, call, logging, overwritten, crashed>>

(* set_log_callback keeps a reference to the callback and gives up that to  *)
(* the one before, whoever is about to call it. (A thread that reads the    *)
(* old one between the two is as one that has read it before.)             *)
SetLogCallback(t) ==
    /\ ~crashed /\ py[t] = "native" /\ call[t] = "set_log_callback"
    /\ py' = [py EXCEPT ![t] = "return"]
    /\ logger' \in BOOLEAN /\ referenced' = logger'
    /\ overwritten' = overwritten \cup {x \in Threads : logging[x] \in {"call", "ensure", "callback"}}
    /\ UNCHANGED <<kind, gil, mutex, running, object, call, worker, logging, crashed>>

(* The receiver tells what a call of a HAT waits for.                       *)
Awaited(t) ==
    /\ ~crashed /\ py[t] = "native" /\ call[t] \in HatWaits
    /\ py' = [py EXCEPT ![t] = "return"]
    /\ UNCHANGED <<kind, gil, objectVars, call, workerVars, crashed>>

(* client_count() of a caster wants the list of clients for a moment; the   *)
(* others wait for no lock that is held while somebody logs or sends.       *)
UseObject(t) ==
    /\ ~crashed /\ py[t] = "native" /\ ~Starts(call[t]) /\ ~Stops(call[t]) /\ ~Sends(call[t])
    /\ call[t] \notin HatWaits \cup {"set_log_callback"}
    /\ Counts(call[t]) => mutex = Nobody
    /\ py' = [py EXCEPT ![t] = "return"]
    /\ UNCHANGED <<kind, gil, objectVars, call, workerVars, crashed>>

(* feed() sends to the clients of a caster with the list locked, that of a  *)
(* server and send_position() to the caster; set_auto_gga() waits for a     *)
(* thread that does.                                                       *)
Send(t) ==
    /\ ~crashed /\ py[t] = "native" /\ Sends(call[t])
    /\ IF kind = "caster" THEN mutex = Nobody /\ mutex' = t ELSE UNCHANGED mutex
    /\ py' = [py EXCEPT ![t] = "send"]
    /\ UNCHANGED <<kind, gil, running, object, logger, referenced, call, workerVars, crashed>>

(* Everything is sent; or a peer is gone, and feed() tells, a caster's with *)
(* the list still locked.                                                  *)
Sent(t) ==
    /\ ~crashed /\ py[t] = "send" /\ logging[t] = "no"
    /\ \/ /\ py' = [py EXCEPT ![t] = "return"]
          /\ mutex' = IF mutex = t THEN Nobody ELSE mutex
          /\ UNCHANGED logging
       \/ /\ call[t] = "feed"
          /\ logging' = [logging EXCEPT ![t] = "check"]
          /\ UNCHANGED <<py, mutex>>
    /\ UNCHANGED <<kind, gil, running, object, logger, referenced, call, worker, overwritten, crashed>>

(* NtripCaster::stop does it once; disconnect() and the destructor of a HAT *)
(* always join.                                                            *)
StopRunning(t) ==
    /\ ~crashed /\ py[t] = "native" /\ Stops(call[t])
    /\ running' = FALSE
    /\ py' = [py EXCEPT ![t] = IF running \/ kind # "caster" THEN "shutdown" ELSE "return"]
    /\ UNCHANGED <<kind, gil, mutex, object, logger, referenced, call, workerVars, crashed>>

(* The sockets are shut down, those of a caster's clients under the lock. *)
ShutDown(t) ==
    /\ ~crashed /\ py[t] = "shutdown"
    /\ kind = "caster" => mutex = Nobody
    /\ py' = [py EXCEPT ![t] = "join"]
    /\ UNCHANGED <<kind, gil, objectVars, call, workerVars, crashed>>

JoinThreads(t) ==
    /\ ~crashed /\ py[t] = "join" /\ NoWorkers
    /\ py' = [py EXCEPT ![t] = "return"]
    /\ UNCHANGED <<kind, gil, objectVars, call, workerVars, crashed>>

(* Py_END_ALLOW_THREADS and the end of the method; __exit__ and dealloc     *)
(* destroy the object, dealloc gives up the reference to the callback.      *)
Return(t) ==
    /\ ~crashed /\ py[t] = "return" /\ gil \in {t, Nobody}
    /\ gil' = Nobody
    /\ py' = [py EXCEPT ![t] = "idle"]
    /\ call' = [call EXCEPT ![t] = "none"]
    /\ object' = CASE call[t] = "dealloc" -> "freed"
                   [] call[t] = "exit" -> "closed"
                   [] OTHER -> object
    /\ referenced' = (referenced /\ call[t] # "dealloc")
    /\ UNCHANGED <<kind, mutex, running, logger, workerVars, crashed>>

-----------------------------------------------------------------------------
(* The native threads *)

(* Somebody connects to the caster.                                         *)
Spawn(h) ==
    /\ ~crashed /\ kind = "caster" /\ running /\ worker[h] = "none"
    /\ worker' = [worker EXCEPT ![h] = "request"]
    /\ UNCHANGED <<kind, gil, objectVars, py, call, logging, overwritten, crashed>>

(* netRecv() of the request, without a timeout and on a socket that stop()  *)
(* does not know: a client, a source, or neither.                           *)
Request(h) ==
    /\ ~crashed /\ worker[h] = "request"
    /\ \E w \in {"register", "enlist", "none"} : worker' = [worker EXCEPT ![h] = w]
    /\ UNCHANGED <<kind, gil, objectVars, py, call, logging, overwritten, crashed>>

(* The peer hangs up, or its socket is shut down, or running_ is false; a   *)
(* handler takes its peer off the lists before it ends.                     *)
Ends(h) ==
    /\ ~crashed /\ worker[h] \in {"serve", "source"} /\ logging[h] = "no"
    /\ worker' = [worker EXCEPT ![h] = IF kind # "caster" THEN "none"
                                       ELSE IF @ = "serve" THEN "remove" ELSE "leave"]
    /\ UNCHANGED <<kind, gil, objectVars, py, call, logging, overwritten, crashed>>

(* registerClient and removeClient: the list, then log() under the lock. *)
ChangeClients(h) ==
    /\ ~crashed /\ worker[h] \in {"register", "remove"} /\ logging[h] = "no"
    /\ mutex = Nobody /\ mutex' = h
    /\ logging' = [logging EXCEPT ![h] = "check"]
    /\ UNCHANGED <<kind, gil, running, object, logger, referenced, py, call, worker, overwritten, crashed>>

(* A source comes or leaves: the list alone, under the lock. *)
ChangeSources(h) ==
    /\ ~crashed /\ worker[h] \in {"enlist", "leave"} /\ mutex = Nobody
    /\ worker' = [worker EXCEPT ![h] = IF @ = "enlist" THEN "source" ELSE "none"]
    /\ UNCHANGED <<kind, gil, objectVars, py, call, logging, overwritten, crashed>>

(* What a source sends goes to every client, with the list locked. *)
Relay(h) ==
    /\ ~crashed /\ worker[h] = "source" /\ mutex = Nobody
    /\ mutex' = h
    /\ worker' = [worker EXCEPT ![h] = "relay"]
    /\ UNCHANGED <<kind, gil, running, object, logger, referenced, py, call, logging, overwritten, crashed>>

Relayed(h) ==
    /\ ~crashed /\ worker[h] = "relay"
    /\ mutex' = Nobody
    /\ worker' = [worker EXCEPT ![h] = IF running THEN "source" ELSE "leave"]
    /\ UNCHANGED <<kind, gil, running, object, logger, referenced, py, call, logging, overwritten, crashed>>

(* The receive loop and the monitor tell about the link whenever they run. *)
Report(h) ==
    /\ ~crashed /\ kind # "caster" /\ worker[h] = "serve" /\ logging[h] = "no"
    /\ logging' = [logging EXCEPT ![h] = "check"]
    /\ UNCHANGED <<kind, gil, objectVars, py, call, worker, overwritten, crashed>>

(* log() returns, to registerClient and removeClient, a loop, or feed().    *)
Logged(x) ==
    /\ logging' = [logging EXCEPT ![x] = "no"]
    /\ overwritten' = overwritten \ {x}
    /\ mutex' = IF mutex = x THEN Nobody ELSE mutex
    /\ worker' = [h \in Workers |->
                     IF h = x /\ worker[h] = "register" THEN "serve"
                     ELSE IF h = x /\ worker[h] = "remove" THEN "none" ELSE worker[h]]
    /\ py' = [t \in PyThreads |-> IF t = x THEN "return" ELSE py[t]]

(* if (!logCallback_) return; *)
CheckCallback(x) ==
    /\ ~crashed /\ logging[x] = "check"
    /\ IF logger THEN logging' = [logging EXCEPT ![x] = "call"] /\ UNCHANGED <<mutex, py, worker, overwritten>>
                 ELSE Logged(x)
    /\ UNCHANGED <<kind, gil, running, object, logger, referenced, call, crashed>>

(* logCallback_(level, buf): it may have been cleared meanwhile. *)
CallCallback(x) ==
    /\ ~crashed /\ logging[x] = "call"
    /\ IF logger THEN logging' = [logging EXCEPT ![x] = "ensure"] /\ UNCHANGED crashed
                 ELSE crashed' = TRUE /\ UNCHANGED logging
    /\ UNCHANGED <<kind, gil, objectVars, py, call, worker, overwritten>>

(* The trampoline: PyGILState_Ensure, the callback, PyGILState_Release; a   *)
(* callback that was replaced meanwhile may be no object any more.          *)
EnsureGil(x) ==
    /\ ~crashed /\ logging[x] = "ensure" /\ gil = Nobody
    /\ gil' = x
    /\ logging' = [logging EXCEPT ![x] = "callback"]
    /\ crashed' \in BOOLEAN /\ (crashed' => x \in overwritten)
    /\ UNCHANGED <<kind, objectVars, py, call, worker, overwritten>>

EndCallback(x) ==
    /\ ~crashed /\ logging[x] = "callback"
    /\ gil' = Nobody
    /\ Logged(x)
    /\ UNCHANGED <<kind, running, object, logger, referenced, call, crashed>>

-----------------------------------------------------------------------------

Init ==
    /\ kind \in Kinds /\ gil = Nobody /\ mutex = Nobody /\ running = FALSE
    /\ object = "alive" /\ logger = FALSE /\ referenced = FALSE
    /\ py = [t \in PyThreads |-> "idle"] /\ call = [t \in PyThreads |-> "none"]
    /\ worker = [h \in Workers |-> "none"] /\ logging = [x \in Threads |-> "no"]
    /\ overwritten = {} /\ crashed = FALSE

LogStep(x) == CheckCallback(x) \/ CallCallback(x) \/ EnsureGil(x) \/ EndCallback(x)
Native(t) ==
    \/ Listen(t) \/ SetLogCallback(t) \/ UseObject(t) \/ Send(t) \/ LogStep(t)
    \/ StopRunning(t) \/ ShutDown(t) \/ JoinThreads(t)
Handler(h) == ChangeClients(h) \/ ChangeSources(h) \/ LogStep(h)

Next ==
    \/ \E t \in PyThreads :
           \/ Dealloc(t) \/ Native(t) \/ Sent(t) \/ Awaited(t) \/ Return(t)
           \/ \E m \in Calls : Call(t, m)
    \/ \E h \in Workers :
           Spawn(h) \/ Request(h) \/ Ends(h) \/ Relay(h) \/ Relayed(h) \/ Report(h) \/ Handler(h)

Spec == Init /\ [][Next]_vars

(* The sockets of the clients and sources, or that of the link, have been   *)
(* shut down.                                                              *)
SocketsShut == ~running /\ \A t \in PyThreads : py[t] # "shutdown"
NoClients == kind = "caster" /\ \A h \in Workers : worker[h] # "serve"

(* Threads are scheduled, and the GIL and the mutex go to everybody who     *)
(* keeps waiting for them; what waits on a socket goes on when the socket   *)
(* is shut down, and a round of sending to no client ends. Nobody has to    *)
(* call anything; no peer has to come, to send its request, to read or to   *)
(* leave, and the receiver may never tell.                                 *)
Fairness ==
    /\ \A t \in PyThreads :
          SF_vars(Native(t) \/ Return(t)) /\ WF_vars((SocketsShut \/ NoClients) /\ Sent(t))
    /\ \A h \in Workers :
          SF_vars(Handler(h)) /\ WF_vars(SocketsShut /\ Ends(h)) /\ WF_vars(NoClients /\ Relayed(h))
    /\ SF_vars(SocketsShut /\ Ends(TheWorker))

FairSpec == Spec /\ Fairness

-----------------------------------------------------------------------------
(* Properties *)

TypeOK ==
    /\ kind \in Kinds /\ gil \in Threads \cup {Nobody} /\ mutex \in Threads \cup {Nobody}
    /\ running \in BOOLEAN /\ logger \in BOOLEAN /\ referenced \in BOOLEAN /\ crashed \in BOOLEAN
    /\ object \in {"alive", "closed", "freed"}
    /\ py \in [PyThreads -> {"idle", "native", "send", "shutdown", "join", "return"}]
    /\ call \in [PyThreads -> Calls \cup {"none"}]
    /\ worker \in [Workers -> {"none", "request", "register", "serve", "remove",
                              "enlist", "source", "relay", "leave"}]
    /\ logging \in [Threads -> {"no", "check", "call", "ensure", "callback"}]
    /\ overwritten \subseteq Threads

(* The callback that a thread is about to call, perhaps after a long wait   *)
(* for the GIL, is not freed, unless the program replaces or disables it in *)
(* the middle of that call: start() and stop() keep it, and dealloc keeps   *)
(* its reference until every native thread has been joined.                 *)
CallbackReferenced ==
    \A x \in Threads : logging[x] \in {"ensure", "callback"} /\ x \notin overwritten => referenced

(* A thread sends to a peer that does not read, or waits for a request that *)
(* does not come.                                                          *)
Sending(x) == IF x \in PyThreads THEN py[x] = "send" /\ logging[x] = "no" ELSE worker[x] = "relay"
Unasked(h) == worker[h] = "request" /\ ~running

(* client_count() waits for the list with the GIL, for which a thread that  *)
(* logs waits with the list.                                               *)
CountDeadlock ==
    \E t \in PyThreads : call[t] = "client_count" /\ gil = t
                         /\ mutex # Nobody /\ logging[mutex] = "ensure"

(* What the code lets hold up a call for ever: a peer that does not read,   *)
(* if the call sends to it itself or wants the GIL or the list that the     *)
(* sender has; a connection that says nothing while the caster stops;       *)
(* client_count() as above.                                                *)
HeldUp(t) ==
    \/ \E x \in Threads : <>[](Sending(x) /\ (x = t \/ gil = x \/ mutex = x))
    \/ \E h \in Workers : <>[]Unasked(h)
    \/ <>[]CountDeadlock

(* No method is under way for ever, whatever the native threads log in the  *)
(* meantime and for whatever another thread waits, but for the cases of     *)
(* HeldUp and for a call that waits for the receiver; unless the process    *)
(* is gone (see CallCallback and EnsureGil).                               *)
CallsReturn ==
    \A t \in PyThreads :
        \/ []<>(py[t] = "idle" \/ (py[t] = "native" /\ call[t] \in HatWaits))
        \/ HeldUp(t)
        \/ <>[]crashed
=============================================================================
