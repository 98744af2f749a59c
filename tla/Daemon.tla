------------------------------- MODULE Daemon -------------------------------
(***************************************************************************)
(* The life of the daemon (cmd/gateletd/main.go) around an exchange that   *)
(* is under way.  A signal, or an error of the control listener, ends the  *)
(* daemon's context; one goroutine then closes the control listener and    *)
(* another one calls Shutdown.  ListenAndServe returns when Shutdown has   *)
(* closed the public listener, not when requests are over, and main        *)
(* returns with it.                                                        *)
(***************************************************************************)
EXTENDS Exchange

VARIABLES
  ctxDone,  \* the context of signal.NotifyContext has ended
  control,  \* the control listener: "open", "failed", "closed"
  listener, \* the public listener: "open", "closed"
  exited    \* main has returned

daemonVars == <<ctxDone, control, listener, exited>>
processVars == <<exchangeVars, daemonVars>>

DaemonInit ==
  /\ ExchangeInit
  /\ ctxDone = FALSE
  /\ control = "open"
  /\ listener = "open"
  /\ exited = FALSE

(* SIGINT or SIGTERM. *)
Signal ==
  /\ ~ctxDone
  /\ ctxDone' = TRUE
  /\ UNCHANGED <<exchangeVars, control, listener, exited>>

(* Accept fails on the control listener, and ServeControl returns.         *)
AcceptFails ==
  /\ control = "open"
  /\ ~ctxDone
  /\ control' = "failed"
  /\ UNCHANGED <<exchangeVars, ctxDone, listener, exited>>

(* The goroutine of ServeControl logs its error and calls stop. *)
StopAfterFailure ==
  /\ control = "failed"
  /\ ~ctxDone
  /\ ctxDone' = TRUE
  /\ UNCHANGED <<exchangeVars, control, listener, exited>>

(* The goroutine that waits for the context closes the control listener,   *)
(* so that Accept fails and ServeControl returns without an error.         *)
CloseControl ==
  /\ ctxDone
  /\ control = "open"
  /\ control' = "closed"
  /\ UNCHANGED <<exchangeVars, ctxDone, listener, exited>>

(* Shutdown closes the public listener and begins to wait for requests. *)
Shutdown ==
  /\ ctxDone
  /\ listener = "open"
  /\ listener' = "closed"
  /\ UNCHANGED <<exchangeVars, ctxDone, control, exited>>

(* The process ends and takes every connection, every listener and every   *)
(* goroutine of the relay with it; a deferred call ends the context.       *)
Exit ==
  /\ exited' = TRUE
  /\ ctxDone' = TRUE
  /\ control' = "closed"
  /\ listener' = "closed"
  /\ dead' = TRUE
  /\ excused' = TRUE
  /\ rpc' = "done"
  /\ outcome' = IF rpc = "done" THEN outcome ELSE "cut"
  /\ UNCHANGED <<body, clientVars, pipeVars>>

(* ListenAndServe returns with an error, and log.Fatalf ends the process.  *)
PublicFails == listener = "open" /\ Exit

(* Slip: main waits for the requests that are under way. *)
MainReturnsDrained == listener = "closed" /\ rpc = "done" /\ Exit

(* ListenAndServe has returned, and main does. *)
MainReturns == listener = "closed" /\ Exit

DaemonStep ==
  ~exited /\ (StopAfterFailure \/ CloseControl \/ Shutdown \/ MainReturns)

(* The client goes on after the daemon's end; the rest of the exchange     *)
(* does not, since the stream is dead and the relay done.                  *)
DaemonNext ==
  \/ ExchangeNext /\ UNCHANGED daemonVars
  \/ ~exited /\ (Signal \/ AcceptFails \/ PublicFails)
  \/ DaemonStep

DaemonSpec == DaemonInit /\ [][DaemonNext]_processVars

(* The fairness of the exchange; and the daemon's goroutines run.          *)
DaemonFairSpec ==
  /\ DaemonSpec
  /\ ExchangeFairness
  /\ WF_processVars(DaemonStep)

-----------------------------------------------------------------------------
(* Correctness. *)

(* A daemon that is told to stop, or can take no more clients, ends, even  *)
(* while an exchange hangs that nobody will ever end: it neither lingers   *)
(* without its listeners, nor goes on with only one of them.               *)
StopsWhenTold == ctxDone \/ control = "failed" ~> exited
=============================================================================
