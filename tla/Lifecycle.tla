------------------------------ MODULE Lifecycle ------------------------------
(***************************************************************************)
(* From main() to the end of the process: main opens the database, starts  *)
(* the goroutine that waits for the signal, and serves HTTP; that          *)
(* goroutine shuts the server down, then checkpoints and closes the        *)
(* database; main returns when ListenAndServe does, and its deferred call  *)
(* closes the database too.                                                *)
(***************************************************************************)
EXTENDS Naturals

CONSTANT Client    \* requests that may be made

VARIABLES main,       \* where main is
          waiter,     \* where the goroutine of "Graceful shutdown" is
          signalled,  \* the context of NotifyContext is done
          httpSrv,    \* Server.httpSrv is set
          closing,    \* http.Server.Shutdown was called: no listener any more
          db,         \* the database handle
          req,        \* req[c]: how far request c has come
          timedOut,   \* Shutdown gave up after 10 seconds
          early       \* ghost: the signal came before httpSrv was set

lifecycleVars == <<main, waiter, signalled, httpSrv, closing, db, req, timedOut, early>>

Active == {c \in Client : req[c] = "active"}

LifecycleInit == /\ main = "open" /\ waiter = "none"
                 /\ signalled = FALSE
                 /\ httpSrv = FALSE /\ closing = FALSE
                 /\ db = "none"
                 /\ req = [c \in Client |-> "none"]
                 /\ timedOut = FALSE /\ early = FALSE

(* The user interrupts the process; further signals change nothing. *)
Signal == /\ ~signalled /\ main # "exited"
          /\ signalled' = TRUE
          /\ UNCHANGED <<main, waiter, httpSrv, closing, db, req, timedOut, early>>

-----------------------------------------------------------------------------
(* main and Server.Run.                                                    *)

(* The process ends: goroutines stop where they are, connections break. *)
Exit == /\ main' = "exited"
        /\ req' = [c \in Client |-> IF req[c] = "active" THEN "cut" ELSE req[c]]

(* db.New, whose statements use the context, and then EnsureVectorTable    *)
(* and IntegrityCheck, whose errors are only logged.                       *)
OpenDb == /\ main = "open" /\ ~signalled
          /\ db' = "open"
          /\ main' = "wire"
          /\ UNCHANGED <<waiter, signalled, httpSrv, closing, req, timedOut, early>>

OpenDbFails == /\ main = "open"
               /\ Exit
               /\ UNCHANGED <<waiter, signalled, httpSrv, closing, db, timedOut, early>>

(* Indexers, watchers and the other goroutines start, the waiter last. *)
Wire == /\ main = "wire"
        /\ waiter' = "wait"
        /\ main' = "run"
        /\ UNCHANGED <<signalled, httpSrv, closing, db, req, timedOut, early>>

(* Run builds the server and sets s.httpSrv. *)
Register == /\ main = "run"
            /\ httpSrv' = TRUE
            /\ main' = "listen"
            /\ UNCHANGED <<waiter, signalled, closing, db, req, timedOut, early>>

Listen == /\ main = "listen" /\ ~closing
          /\ main' = "serving"
          /\ UNCHANGED <<waiter, signalled, httpSrv, closing, db, req, timedOut, early>>

(* Mutant of ListenReturns: only a server that serves notices Shutdown. *)
ListenReturnsServing ==
  /\ main = "serving" /\ closing
  /\ main' = "returned"
  /\ UNCHANGED <<waiter, signalled, httpSrv, closing, db, req, timedOut, early>>

(* ListenAndServe returns ErrServerClosed as soon as Shutdown is called,   *)
(* or at once with the error that it cannot listen.                        *)
ListenReturns ==
  /\ main = "listen" \/ (main = "serving" /\ closing)
  /\ main' = "returned"
  /\ UNCHANGED <<waiter, signalled, httpSrv, closing, db, req, timedOut, early>>

(* The deferred database.Close. *)
DeferredClose ==
  /\ main = "returned"
  /\ db' = "closed"
  /\ main' = "closed"
  /\ UNCHANGED <<waiter, signalled, httpSrv, closing, req, timedOut, early>>

MainReturns == /\ main = "closed"
               /\ Exit
               /\ UNCHANGED <<waiter, signalled, httpSrv, closing, db, timedOut, early>>

-----------------------------------------------------------------------------
(* The waiter.                                                             *)

(* srv.Shutdown reads httpSrv: nothing to do if Run has not set it, else   *)
(* http.Server.Shutdown closes the listeners.                              *)
Shutdown ==
  /\ waiter = "wait" /\ signalled /\ main # "exited"
  /\ closing' = httpSrv
  /\ early' = ~httpSrv
  /\ waiter' = IF httpSrv THEN "drain" ELSE "checkpoint"
  /\ UNCHANGED <<main, signalled, httpSrv, db, req, timedOut>>

(* Mutant of Drained: listeners are closed, nobody is waited for. *)
DrainedAtOnce ==
  /\ waiter = "drain" /\ main # "exited"
  /\ waiter' = "checkpoint"
  /\ UNCHANGED <<main, signalled, httpSrv, closing, db, req, timedOut, early>>

Drained == /\ waiter = "drain" /\ main # "exited"
           /\ Active = {}
           /\ waiter' = "checkpoint"
           /\ UNCHANGED <<main, signalled, httpSrv, closing, db, req, timedOut, early>>

DrainTimesOut == /\ waiter = "drain" /\ main # "exited"
                 /\ timedOut' = TRUE
                 /\ waiter' = "checkpoint"
                 /\ UNCHANGED <<main, signalled, httpSrv, closing, db, req, early>>

(* Checkpoint and Close; on a closed database both do nothing. *)
CheckpointAndClose ==
  /\ waiter = "checkpoint" /\ main # "exited"
  /\ db' = "closed"
  /\ waiter' = "done"
  /\ UNCHANGED <<main, signalled, httpSrv, closing, req, timedOut, early>>

-----------------------------------------------------------------------------
(* Requests.                                                               *)

Accept(c) == /\ main = "serving" /\ ~closing /\ req[c] = "none"
             /\ req' = [req EXCEPT ![c] = "active"]
             /\ UNCHANGED <<main, waiter, signalled, httpSrv, closing, db, timedOut, early>>

(* The handler asks the database and answers. *)
Finish(c) == /\ req[c] = "active" /\ main # "exited"
             /\ req' = [req EXCEPT ![c] = IF db = "open" THEN "answered" ELSE "failed"]
             /\ UNCHANGED <<main, waiter, signalled, httpSrv, closing, db, timedOut, early>>

Main   == OpenDb \/ OpenDbFails \/ Wire \/ Register \/ Listen \/ ListenReturns
            \/ DeferredClose \/ MainReturns
Waiter == Shutdown \/ Drained \/ DrainTimesOut \/ CheckpointAndClose

LifecycleNext == Signal \/ Main \/ Waiter \/ \E c \in Client : Accept(c) \/ Finish(c)

LifecycleSpec == LifecycleInit /\ [][LifecycleNext]_lifecycleVars

(* Both goroutines run on. *)
LifecycleFairness == WF_lifecycleVars(Main) /\ WF_lifecycleVars(Waiter)

LifecycleFairSpec == LifecycleSpec /\ LifecycleFairness

-----------------------------------------------------------------------------
LifecycleTypeOK ==
  /\ main \in {"open", "wire", "run", "listen", "serving", "returned", "closed", "exited"}
  /\ waiter \in {"none", "wait", "drain", "checkpoint", "done"}
  /\ db \in {"none", "open", "closed"}
  /\ req \in [Client -> {"none", "active", "answered", "failed", "cut"}]
  /\ {signalled, httpSrv, closing, timedOut, early} \subseteq BOOLEAN

(* The waiter closes the database under no request it could have waited    *)
(* for: only after 10 seconds, or when Run had not yet set httpSrv.        *)
WaiterDrainsFirst ==
  waiter \in {"checkpoint", "done"} /\ ~timedOut /\ ~early => Active = {}

(* Before the signal no request fails for want of a database. *)
ServedWhileUp == ~signalled => \A c \in Client : req[c] \notin {"failed", "cut"}

(* A signal ends the process, except one that Shutdown meets before Run    *)
(* has set httpSrv: it is used up, and Run then serves for ever on a       *)
(* closed database.                                                        *)
SignalStops == signalled ~> (main = "exited" \/ early)

-----------------------------------------------------------------------------
(* "Graceful shutdown: wait for OS signal then shutdown cleanly." (main.go)*)
(* and "Shutdown gracefully stops the HTTP server." (server.go): a request *)
(* that was accepted is answered, unless it takes longer than 10 seconds.  *)
AcceptedAreAnswered ==
  ~timedOut /\ ~early => \A c \in Client : req[c] \notin {"failed", "cut"}
=============================================================================
