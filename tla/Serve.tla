------------------------------- MODULE Serve -------------------------------
(***************************************************************************)
(* The serve command (cmd/feedmerge/main.go) around Merger: the goroutine  *)
(* of main, the one that listens, the refresh loop nobody waits for, and   *)
(* the requests in flight, from the start of the process to its end by a   *)
(* signal or because it cannot listen.                                     *)
(*                                                                         *)
(* The context of Run is the one a signal ends: done[Loop].  The contexts  *)
(* of the requests hang on their connections, so a signal does not end     *)
(* them.  Of http.Server there is what main relies on: Shutdown stops      *)
(* listening and waits for the requests in flight.  A connection without   *)
(* a request is idle and does not appear, so that one on which a request   *)
(* arrives after the signal counts as closed already.                      *)
(***************************************************************************)
EXTENDS Merger

VARIABLES
  main,      \* what cmdServe does
  listener,  \* what ListenAndServe does
  errCh,     \* the channel between them: empty, or the error it holds
  exit       \* what cmdServe returns: nothing yet, no error or an error

process == <<main, listener, errCh, exit>>
svars == <<vars, process>>

ServeTypeOK ==
  /\ main \in {"serving", "draining", "exited"}
  /\ listener \in {"starting", "open", "closed"}
  /\ errCh \in {"empty", "nil", "failure"}
  /\ exit \in {"none", "nil", "failure", "deadline"}
  /\ main = "exited" <=> exit # "none"
  /\ main # "serving" => listener = "closed"

ServeInit ==
  /\ Init
  /\ main = "serving" /\ listener = "starting" /\ errCh = "empty"
  /\ exit = "none"

Running == main # "exited"
End(e) == main' = "exited" /\ exit' = e

-----------------------------------------------------------------------------
(***************************************************************************)
(* Plausible mistakes.                                                     *)
(***************************************************************************)
\* main waits for ListenAndServe to return rather than for Shutdown.
ReturnErrWhileDraining ==
  /\ Running /\ errCh # "empty"
  /\ End(errCh)
  /\ UNCHANGED <<vars, listener, errCh>>

\* Shutdown is called, but only drains.
ShutdownKeepsListening ==
  /\ main = "serving" /\ done[Loop]
  /\ main' = "draining"
  /\ UNCHANGED <<vars, listener, errCh, exit>>

-----------------------------------------------------------------------------
(***************************************************************************)
(* The goroutine that listens.                                             *)
(***************************************************************************)
Listen ==
  /\ main = "serving" /\ listener = "starting"
  /\ listener' = "open"
  /\ UNCHANGED <<vars, main, errCh, exit>>

\* The address is taken, or a connection cannot be accepted.
ListenFails ==
  /\ main = "serving" /\ listener \in {"starting", "open"}
  /\ listener' = "closed" /\ errCh' = "failure"
  /\ UNCHANGED <<vars, main, exit>>

-----------------------------------------------------------------------------
(***************************************************************************)
(* The select of main.  If a signal and an error are both there, it takes  *)
(* either.                                                                 *)
(***************************************************************************)
ReturnErr ==
  /\ main = "serving" /\ errCh # "empty"
  /\ End(errCh)
  /\ UNCHANGED <<vars, listener, errCh>>

\* The signal's branch calls Shutdown, with a grace period of its own.
\* ListenAndServe returns at once, also if it was not called yet, and sends
\* that ErrServerClosed is no error; the channel has room for it.
Shutdown ==
  /\ main = "serving" /\ done[Loop]
  /\ main' = "draining" /\ listener' = "closed"
  /\ errCh' = IF errCh = "empty" THEN "nil" ELSE errCh
  /\ UNCHANGED <<vars, exit>>

Drained ==
  /\ main = "draining" /\ \A c \in Client : pc[c] = "idle"
  /\ End("nil")
  /\ UNCHANGED <<vars, listener, errCh>>

\* The ten seconds are over: whoever is still in flight is cut off.
GraceOver ==
  /\ main = "draining"
  /\ End("deadline")
  /\ UNCHANGED <<vars, listener, errCh>>

-----------------------------------------------------------------------------
(***************************************************************************)
(* What Merger does while the process runs.                                *)
(***************************************************************************)
Working(Step) == Running /\ Step /\ UNCHANGED process

\* Requests arrive only while the server listens.  Those for /healthz and
\* /metrics never wait and are left to Merger.
Serving(c) == listener = "open" /\ Working(GetFeed(c) \/ GetFirstFeed(c))

\* SIGINT or SIGTERM; only the first one does anything.
Signal == Working(Cancel(Loop))

ServeNext ==
  \/ Listen \/ ListenFails
  \/ ReturnErr \/ Shutdown \/ Drained \/ GraceOver
  \/ \E c \in Client : Serving(c) \/ Working(Cancel(c))
  \/ Signal
  \/ \E p \in Process : Working(Refresh(p))
  \/ Working(Tick) \/ Working(Stop)
  \/ \E u \in Url : Working(UpstreamChanges(u))

\* The steps of a Refresh that holds the mutex.
Locked(p) ==
  \/ \E u \in Url : Answer(p, u)
  \/ Record(p)
  \/ PublishFailure(p) \/ Publish(p) \/ RenderFails(p)
  \/ Return(p)

(***************************************************************************)
(* Goroutines run.  The mutex of Go lets a waiter in that has been passed  *)
(* over for long, so the lock is fair to those who ask for it again and    *)
(* again, and a FetchAll answers (FetchAllReturns in FetchPool).  Nothing  *)
(* is said of the timer of the grace period: the process must end without  *)
(* its help.                                                               *)
(***************************************************************************)
Fairness ==
  /\ WF_svars(ReturnErr \/ Shutdown \/ Drained)
  /\ \A p \in Process :
       /\ SF_svars(Working(Lock(p)))
       /\ WF_svars(Working(Locked(p)))

ServeSpec == ServeInit /\ [][ServeNext]_svars
FairServe == ServeSpec /\ Fairness

-----------------------------------------------------------------------------
\* A process that was told to stop, or cannot listen, ends, whatever refreshes
\* and requests are under way; the grace period need not run out for that.
ProcessEnds == done[Loop] \/ errCh # "empty" ~> ~Running

\* A handler that waits for its turn to refresh gets it, and answers, unless
\* the process ends first.
FeedRequestsEnd == \A c \in Client : pc[c] = "lock" ~> pc[c] = "idle" \/ ~Running

\* cmdServe returns without an error only if it was told to stop and no request
\* is in flight: no reader is cut off but by the end of the grace period or by a
\* failure to listen, and such a failure is not lost unless a signal came too.
CleanExit == exit = "nil" => done[Loop] /\ \A c \in Client : pc[c] = "idle"

=============================================================================
