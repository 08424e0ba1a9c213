------------------------------- MODULE RpcFlow -------------------------------
(***************************************************************************)
(* What becomes of one request of a dapp: the middlewares of rpcFlow.ts,    *)
(* which connect the dapp, ask for the user's approval, run the controller  *)
(* and, for a signature, ask for a second approval that stands for the      *)
(* popup in which the user waits for the signature.                         *)
(*                                                                         *)
(* The flows of all requests share the notification service, the set of     *)
(* origins that are being connected, and the permissions of the dapps.      *)
(***************************************************************************)
EXTENDS NotificationService

CONSTANTS Origin,     \* the dapps
          OriginOf,   \* OriginOf[r]: the dapp that makes request r
          Permitted,  \* the dapps that are connected at the start
          MaxFails    \* cap on the controllers and connections that fail

ASSUME FlowAssumption ==
  /\ OriginOf \in [Request -> Origin]
  /\ Permitted \subseteq Origin
  /\ MaxFails \in Nat

VARIABLES stage,      \* the await at which the flow of a request is
          requested,  \* ctx.request.requestedApproval
          answer,     \* what the requester got
          run,        \* the controller of the request, as requestDeferFn runs it
          connecting, \* connectOrigins
          permitted,  \* the dapps that are connected
          fails,      \* how many controllers and connections have failed
          popup       \* the popup that waits for a signature

flowVars == <<stage, requested, answer, run, connecting, permitted, fails>>

Connect(r) == [req |-> r, step |-> "connect"]
Approve(r) == [req |-> r, step |-> "approve"]
Waiting(r) == [req |-> r, step |-> "waiting"]

\* Methods with APPROVAL metadata, and those that are not SAFE.
NeedsApproval(r) == Kind[r] \in {"chain", "text", "tx"}
NeedsConnection(r) == Kind[r] # "read"

NoAnswer == [st |-> "none", from |-> NoRequest]

\* The popup's own state is the user interface's; the flow only needs to know
\* that a popup whose component is mounted hears SIGN_FINISHED.
NoPopup == [st |-> "none", for |-> NoApproval, result |-> NoRequest]
Listening == popup.st \in {"waiting", "failed", "retrying", "finished"}

-----------------------------------------------------------------------------
(* Steps of one flow, as parts of the actions below.                       *)

\* Mutant: a request that is rejected leaves the service locked.
answering_StaysLocked(r, st, from) ==
  /\ stage' = [stage EXCEPT ![r] = "answered"]
  /\ answer' = [answer EXCEPT ![r] = [st |-> st, from |-> from]]
  /\ UNCHANGED <<svc, sheets, signing>>

\* The requester gets its answer, and the finally block unlocks the service.
answering(r, st, from) ==
  /\ stage' = [stage EXCEPT ![r] = "answered"]
  /\ answer' = [answer EXCEPT ![r] = [st |-> st, from |-> from]]
  /\ svc' = unLock(svc, requested[r])
  /\ UNCHANGED <<sheets, signing>>

asking(r, at, s, a) ==
  /\ stage' = [stage EXCEPT ![r] = at]
  /\ requestApproval(s, a)
  /\ UNCHANGED answer

\* The last middleware: the controller starts, or waits for the popup that
\* the answer ui names to be mounted.
process(r, ui) ==
  LET s == [svc EXCEPT !.deferFn = r]
  IN  /\ run' = [run EXCEPT ![r] = IF ui /\ Signs(r) THEN "amount" ELSE "running"]
      /\ IF ui
         THEN asking(r, "waiting", s, Waiting(r))
         ELSE /\ stage' = [stage EXCEPT ![r] = "process"]
              /\ svc' = s
              /\ UNCHANGED <<answer, sheets, signing>>

\* "check need approval".
checkApproval(r) ==
  IF NeedsApproval(r)
  THEN /\ requested' = [requested EXCEPT ![r] = TRUE]
       /\ asking(r, "approve", svc, Approve(r))
       /\ UNCHANGED run
  ELSE process(r, FALSE) /\ UNCHANGED requested

\* "check connect" of a dapp that is not connected yet.
checkConnect(r) ==
  IF OriginOf[r] \in connecting
  THEN /\ answering(r, "refused", NoRequest)
       /\ UNCHANGED <<requested, connecting>>
  ELSE /\ stage' = [stage EXCEPT ![r] = "auto"]
       /\ requested' = [requested EXCEPT ![r] = TRUE]
       /\ connecting' = connecting \cup {OriginOf[r]}
       /\ UNCHANGED <<answer, svc, sheets, signing>>

\* Mutant: the mark of a dapp whose connection failed stays.
throwing_KeepsMark(r) ==
  /\ fails < MaxFails /\ fails' = fails + 1
  /\ answering(r, "failed", NoRequest)
  /\ UNCHANGED connecting

\* The catch block of "check connect": the origin is released, whoever marked it,
\* and the requester gets the error.
throwing(r) ==
  /\ fails < MaxFails /\ fails' = fails + 1
  /\ answering(r, "failed", NoRequest)
  /\ connecting' = connecting \ {OriginOf[r]}

\* The connect approval of r is settled: the origin is released either way.
released(r) ==
  IF stage[r] = "connect" THEN connecting \ {OriginOf[r]} ELSE connecting

\* What the flow does once its approval is resolved.
goOn(r) ==
  CASE stage[r] = "connect" ->
         /\ stage' = [stage EXCEPT ![r] = "linking"]
         /\ UNCHANGED <<answer, svc, sheets, signing, run>>
    [] stage[r] = "approve" -> process(r, settled[r].ui)
    [] stage[r] = "waiting" ->
         /\ IF settled[r].ui
            THEN asking(r, "waiting", svc, Waiting(r))
            ELSE answering(r, "done", settled[r].from)
         /\ UNCHANGED run

-----------------------------------------------------------------------------
(* Actions.                                                                *)

Arrive(r) ==
  /\ Calm /\ stage[r] = "idle"
  /\ IF NeedsConnection(r) /\ OriginOf[r] \notin permitted
     THEN checkConnect(r) /\ UNCHANGED run
     ELSE checkApproval(r) /\ UNCHANGED connecting
  /\ UNCHANGED <<permitted, fails, settled, closing, popup>>

\* autoConnect answers: it connects the dapp itself, or the user is asked; or a
\* call on the way, as that for the chains of the dapp, fails.
AutoConnect(r) ==
  /\ Calm /\ stage[r] = "auto"
  /\ \/ /\ stage' = [stage EXCEPT ![r] = "linking"]
        /\ connecting' = connecting \ {OriginOf[r]}
        /\ UNCHANGED <<answer, svc, sheets, signing, fails>>
     \/ asking(r, "connect", svc, Connect(r)) /\ UNCHANGED <<connecting, fails>>
     \/ throwing(r)
  /\ UNCHANGED <<requested, run, permitted, settled, closing, popup>>

\* apisDapp.connect has written the permission, and the next middleware runs; or
\* it has failed before it wrote anything.
Linked(r) ==
  /\ Calm /\ stage[r] = "linking"
  /\ \/ /\ permitted' = permitted \cup {OriginOf[r]}
        /\ checkApproval(r)
        /\ UNCHANGED <<connecting, fails>>
     \/ throwing(r) /\ UNCHANGED <<permitted, requested, run>>
  /\ UNCHANGED <<settled, closing, popup>>

\* The promise that the flow awaits is settled.
Continue(r) ==
  /\ settled[r] # Unsettled
  /\ settled' = [settled EXCEPT ![r] = Unsettled]
  /\ connecting' = released(r)
  /\ IF settled[r].st = "rejected"
     THEN answering(r, "rejected", NoRequest) /\ UNCHANGED run
     ELSE goOn(r)
  /\ UNCHANGED <<requested, permitted, fails, closing, popup>>

\* Mutant: the popup is told that it is done but not what was signed.
ControllerReturns_NoResult(r) ==
  /\ Calm /\ run[r] = "running"
  /\ Kind[r] = "tx" => r \in signing
  /\ run' = [run EXCEPT ![r] = "done"]
  /\ popup' = IF Signs(r) /\ Listening THEN [popup EXCEPT !.st = "finished"]
              ELSE popup
  /\ IF stage[r] = "process"
     THEN answering(r, "done", r)
     ELSE /\ signing' = signing \ {r}
          /\ UNCHANGED <<stage, answer, svc, sheets>>
  /\ UNCHANGED <<requested, connecting, permitted, fails, settled, closing>>

\* A controller succeeds.  SIGN_FINISHED names no request: any popup takes it
\* for its own.  A transaction must still be on the signing list.
ControllerReturns(r) ==
  /\ Calm /\ run[r] = "running"
  /\ Kind[r] = "tx" => r \in signing
  /\ run' = [run EXCEPT ![r] = "done"]
  /\ popup' = IF Signs(r) /\ Listening
              THEN [popup EXCEPT !.st = "finished", !.result = r] ELSE popup
  /\ IF stage[r] = "process"
     THEN answering(r, "done", r)
     ELSE /\ signing' = signing \ {r}
          /\ UNCHANGED <<stage, answer, svc, sheets>>
  /\ UNCHANGED <<requested, connecting, permitted, fails, settled, closing>>

\* A controller throws.  The error of a signature is shown by the popup.  The
\* promise of requestDeferFn is settled by neither: the `reject` in its catch
\* block is lodash's.
ControllerThrows(r) ==
  /\ Calm /\ run[r] = "running"
  /\ fails < MaxFails \/ (Kind[r] = "tx" /\ r \notin signing)
  /\ fails' = IF fails < MaxFails THEN fails + 1 ELSE fails
  /\ run' = [run EXCEPT ![r] = "failed"]
  /\ popup' = IF Signs(r) /\ Listening THEN [popup EXCEPT !.st = "failed"]
              ELSE popup
  /\ UNCHANGED <<stage, requested, answer, connecting, permitted>>
  /\ UNCHANGED notificationVars
=============================================================================
