------------------------------ MODULE Approvals ------------------------------
(***************************************************************************)
(* Requests, approvals and the user: the sheet on which an approval is      *)
(* shown, its buttons, the popup that waits for a signature, and the events *)
(* by which they keep up with the notification service.                    *)
(*                                                                         *)
(* The sheet shows what was current when it last looked, but its buttons    *)
(* settle what is current now.  The user acts on the popup while there is   *)
(* one, on the newest sheet otherwise, and never within the 300 ms in which *)
(* a sheet closes or before a pending setTimeout(0) has run.                *)
(***************************************************************************)
EXTENDS RpcFlow

VARIABLES consent, \* ghost: requests the user confirmed on a sheet that shows them
          lost     \* ghost: requests that asked in vain

vars == <<notificationVars, flowVars, popup, task, consent, lost>>

NoTask == [do |-> "none", win |-> NoWindow]
Activating(win) == [do |-> "activate", win |-> win]
ShowingPopup == [do |-> "popup", win |-> NoWindow]

UserMayAct == Calm /\ task = NoTask /\ closing = NotClosing

\* The sheet in front, unless the popup covers it.
Front(w) == /\ w \in sheets /\ w.ready /\ popup = NoPopup
            /\ \A v \in sheets : v.id <= w.id

\* The sheet whose buttons the user presses.  A sheet that the service has
\* forgotten may still be up: it is only swiped away here.
Usable(w) == Front(w) /\ w.id = svc.window

-----------------------------------------------------------------------------
(* The sheet and the popup look at the service.                            *)

\* The component of a new sheet is mounted and asks for the current approval.
Mount(w) ==
  /\ Calm /\ w \in sheets /\ ~w.ready
  /\ sheets' = (sheets \ {w})
               \cup {[w EXCEPT !.shown = svc.current, !.ready = TRUE]}
  /\ UNCHANGED <<svc, signing, settled, closing>>
  /\ UNCHANGED <<flowVars, popup, task, consent>>

\* Mutant: a sheet that is told to look again keeps what it shows.
Activate_KeepsShown ==
  /\ Calm /\ task.do = "activate"
  /\ task' = NoTask
  /\ IF svc.current = NoApproval
     THEN removeSheet(svc, task.win)
     ELSE UNCHANGED <<svc, sheets, signing, settled>>
  /\ UNCHANGED <<closing, flowVars, popup, consent>>

\* EVENT_ACTIVE_WINDOW: every mounted sheet shows the current approval; when
\* there is none the sheet that the event names is removed.
Activate ==
  /\ Calm /\ task.do = "activate"
  /\ task' = NoTask
  /\ IF svc.current = NoApproval
     THEN removeSheet(svc, task.win)
     ELSE /\ sheets' = {IF w.ready THEN [w EXCEPT !.shown = svc.current] ELSE w :
                          w \in sheets}
          /\ UNCHANGED <<svc, signing, settled>>
  /\ UNCHANGED <<closing, flowVars, popup, consent>>

\* showPopup, and the mounting of the popup's component.
ShowPopup ==
  /\ Calm /\ task.do = "popup"
  /\ task' = NoTask
  /\ popup' = [NoPopup EXCEPT !.st = "mounting"]
  /\ UNCHANGED <<notificationVars, flowVars, consent>>

\* SIGN_WAITING_AMOUNTED: whatever waits for it goes on.
amounted == [r \in Request |-> IF run[r] = "amount" THEN "running" ELSE run[r]]

\* The popup's component looks at the current approval, listens and signals that
\* it is there.  When the explanation of a transaction is not known it shows an
\* error and does neither.
PopupMounts ==
  /\ Calm /\ popup.st = "mounting"
  /\ \/ /\ popup' = [popup EXCEPT !.st = "waiting", !.for = svc.current]
        /\ run' = amounted
     \/ /\ \E r \in Request : Kind[r] = "tx" /\ svc.current = Waiting(r)
        /\ popup' = [popup EXCEPT !.st = "deaf"]
        /\ UNCHANGED run
  /\ UNCHANGED <<stage, requested, answer, connecting, permitted, fails>>
  /\ UNCHANGED <<notificationVars, task, consent>>

-----------------------------------------------------------------------------
(* The user answers on the sheet.                                          *)

\* Confirm: the CURRENT approval is resolved with what the sheet shows.
Confirm(w) ==
  /\ UserMayAct /\ Usable(w) /\ w.shown # NoApproval
  /\ consent' = IF w.shown.step = "approve" THEN consent \cup {w.shown.req}
                ELSE consent
  /\ LET ui == w.shown.step = "approve" /\ Signs(w.shown.req)
     IN  /\ IF svc.current # NoApproval THEN resolveApproval(ui, NoRequest)
            ELSE UNCHANGED notificationVars
         /\ task' = IF ui THEN ShowingPopup ELSE Activating(svc.window)
  /\ UNCHANGED <<flowVars, popup>>

\* rejectApproval of the hook: what the sheet shows is not asked for again.
rejecting_current ==
  IF svc.current # NoApproval
  THEN /\ rejectApproval(svc.window)
       /\ task' = IF closing' = NotClosing THEN Activating(svc.window) ELSE NoTask
  ELSE UNCHANGED notificationVars /\ task' = Activating(svc.window)

Reject(w) ==
  /\ UserMayAct /\ Usable(w) /\ w.shown # NoApproval
  /\ rejecting_current
  /\ UNCHANGED <<flowVars, popup, consent>>

\* CancelApproval: all that is queued, when there is more than one.
CancelAll(w) ==
  /\ UserMayAct /\ Usable(w) /\ Len(svc.queue) > 1
  /\ rejectAllApprovals(svc, sheets)
  /\ task' = Activating(svc.window)
  /\ UNCHANGED <<closing, flowVars, popup, consent>>

\* The user swipes the sheet away.
Dismiss(w) ==
  /\ UserMayAct /\ Front(w)
  /\ removeSheet(svc, w.id)
  /\ UNCHANGED <<closing, flowVars, popup, task, consent>>

\* The sheet that rejectApproval closed has had its 300 ms.
SheetClosed ==
  /\ Closed
  /\ task' = Activating(closing.win)
  /\ lost' = lost \cup ({a.req : a \in Queued(svc)} \ {a.req : a \in Queued(svc)'})
  /\ UNCHANGED <<flowVars, popup, consent>>

-----------------------------------------------------------------------------
(* The user and the popup.                                                 *)

\* The popup has a result: it closes by itself, and resolves the approval it
\* was mounted for if that is still the current one.
WaitingDone ==
  /\ Calm /\ popup.st = "finished" /\ task = NoTask
  /\ popup' = NoPopup
  /\ IF popup.for = svc.current
     THEN resolveApproval(FALSE, popup.result)
     ELSE UNCHANGED notificationVars
  /\ task' = Activating(svc.window)
  /\ UNCHANGED <<flowVars, consent>>

\* Cancel, which only a failed popup has, or a swipe: the component is unmounted
\* and rejects what is current, unless it has had a result.
ClosePopup ==
  /\ UserMayAct /\ (Listening \/ popup.st = "deaf")
  /\ popup' = NoPopup
  /\ \/ popup.st = "failed" /\ rejecting_current
     \/ popup.result = NoRequest /\ rejecting_current
     \/ popup.result # NoRequest /\ UNCHANGED <<notificationVars, task>>
  /\ UNCHANGED <<flowVars, consent>>

\* handleRetry: runs currentRequestDeferFn, whichever request set it last, and
\* signals only when that is done.  A signature waits for that very signal.
Retry ==
  /\ UserMayAct /\ popup.st = "failed"
  /\ popup' = [popup EXCEPT !.st = "retrying"]
  /\ run' = IF Signs(svc.deferFn) THEN [run EXCEPT ![svc.deferFn] = "amount"]
            ELSE amounted
  /\ UNCHANGED <<stage, requested, answer, connecting, permitted, fails>>
  /\ UNCHANGED <<notificationVars, task, consent>>

-----------------------------------------------------------------------------

\* The approval that the flow of r awaits.
Asked(r) == CASE stage[r] = "connect" -> Connect(r)
              [] stage[r] = "approve" -> Approve(r)
              [] stage[r] = "waiting" -> Waiting(r)
              [] OTHER -> NoApproval

Init ==
  /\ svc = FreshService /\ sheets = {} /\ signing = {}
  /\ settled = [r \in Request |-> Unsettled] /\ closing = NotClosing
  /\ stage = [r \in Request |-> "idle"]
  /\ requested = [r \in Request |-> FALSE]
  /\ answer = [r \in Request |-> NoAnswer]
  /\ run = [r \in Request |-> "none"]
  /\ connecting = {} /\ permitted = Permitted /\ fails = 0
  /\ popup = NoPopup /\ task = NoTask /\ consent = {} /\ lost = {}

Flow(r) == \/ Arrive(r) \/ AutoConnect(r) \/ Linked(r) \/ Continue(r)
           \/ ControllerReturns(r) \/ ControllerThrows(r)

User == \/ \E w \in sheets : Confirm(w) \/ Reject(w) \/ CancelAll(w) \/ Dismiss(w)
        \/ ClosePopup \/ Retry

Interface == \/ \E w \in sheets : Mount(w)
             \/ Activate \/ ShowPopup \/ PopupMounts \/ WaitingDone

\* The approval that r asks for in this step is thrown away, or no sheet opens
\* for it because another flow holds the lock.
asksInVain(r) ==
  /\ Asked(r)' # NoApproval
  /\ Asked(r) = NoApproval \/ settled[r] # Unsettled
  /\ refuses(svc, Asked(r)') \/ (svc.window = NoWindow /\ svc.locked)

\* The controller of r throws and r is told nothing.
failsUnheard(r) == stage[r] = "process" /\ run[r] = "running" /\ run'[r] = "failed"

noting(r) ==
  /\ UNCHANGED <<task, consent>>
  /\ lost' = IF asksInVain(r) \/ failsUnheard(r) THEN lost \cup {r} ELSE lost

Next == \/ \E r \in Request : Flow(r) /\ noting(r)
        \/ (User \/ Interface) /\ UNCHANGED lost
        \/ SheetClosed

\* What runs without the user or a new request: the event loop runs it sooner
\* or later, in whatever order.
Machine ==
  \/ \E r \in Request :
       /\ \/ AutoConnect(r) \/ Linked(r) \/ Continue(r)
          \/ ControllerReturns(r) \/ ControllerThrows(r)
       /\ noting(r)
  \/ Interface /\ UNCHANGED lost
  \/ SheetClosed

\* A user who in the end closes whatever is open.
Close == ((\E w \in sheets : Dismiss(w)) \/ ClosePopup) /\ UNCHANGED lost

Spec == Init /\ [][Next]_vars /\ WF_vars(Machine) /\ WF_vars(Close)

\* The same with a user who may leave everything open.
MachineSpec == Init /\ [][Next]_vars /\ WF_vars(Machine)

-----------------------------------------------------------------------------
(* Properties.                                                             *)

UnderWay(r) == stage[r] \notin {"idle", "answered"}

TypeOK ==
  /\ svc \in [queue : Seq(Approval), current : Approval \cup {NoApproval},
              window : 0 .. MaxSheets, locked : BOOLEAN,
              deferFn : Request \cup {NoRequest}]
  /\ sheets \subseteq Sheet
  /\ signing \subseteq Request
  /\ settled \in [Request -> [st : {"no", "rejected", "resolved"}, ui : BOOLEAN,
                              from : Request \cup {NoRequest}]]
  /\ closing \in [approval : Approval \cup {NoApproval}, win : 0 .. MaxSheets]
  /\ stage \in [Request -> {"idle", "auto", "connect", "linking", "approve",
                            "process", "waiting", "answered"}]
  /\ requested \in [Request -> BOOLEAN]
  /\ answer \in [Request -> [st : {"none", "refused", "rejected", "failed", "done"},
                             from : Request \cup {NoRequest}]]
  /\ run \in [Request -> {"none", "amount", "running", "done", "failed"}]
  /\ connecting \subseteq Origin /\ permitted \subseteq Origin
  /\ fails \in 0 .. MaxFails
  /\ popup \in [st : {"none", "mounting", "waiting", "deaf", "failed", "retrying",
                      "finished"},
                for : Approval \cup {NoApproval}, result : Request \cup {NoRequest}]
  /\ task \in [do : {"none", "activate", "popup"}, win : 0 .. MaxSheets]
  /\ popup.st = "finished" => popup.result # NoRequest
  /\ consent \subseteq Request /\ lost \subseteq Request

\* The queue and the current approval agree, whatever was put in front, and
\* no approval is in the queue twice: the answer to one would drop the other.
QueueConsistent ==
  /\ svc.current = IF svc.queue = <<>> THEN NoApproval ELSE Head(svc.queue)
  /\ \A i, j \in DOMAIN svc.queue : svc.queue[i] = svc.queue[j] => i = j

\* Whoever can be asked is still waiting for the answer: no approval outlives
\* the flow that asked for it, so that no press of a button goes to nobody.
NoGhostApproval ==
  \A a \in Queued(svc) : Asked(a.req) = a /\ settled[a.req] = Unsettled

\* The lock of the notification service belongs to a flow that will unlock it:
\* it never outlives the flows that asked for something.
LockOwned == svc.locked => \E r \in Request : UnderWay(r) /\ requested[r]

\* A request at which an origin is being connected, for the user or by itself.
Connecting(r) == stage[r] \in {"auto", "connect"}

\* No refusal or error leaves a dapp "already processing": an origin is marked
\* only while a request connects it.  While it does, the origin is marked and no
\* other request connects it, unless one of the same dapp has failed: the mark is
\* gone before the permission is written (rpcFlow.ts:199), so that another may
\* connect when that fails and the catch (:212) takes the mark of the other.
ConnectHeld ==
  /\ connecting \subseteq {OriginOf[r] : r \in {q \in Request : Connecting(q)}}
  /\ \A q, r \in Request :
       /\ Connecting(q) /\ Connecting(r) /\ OriginOf[q] = OriginOf[r]
       /\ q # r \/ OriginOf[r] \notin connecting
       => \E s \in Request : OriginOf[s] = OriginOf[r] /\ answer[s].st = "failed"

\* Nothing that needs the user's approval runs unless the user confirmed it on
\* a sheet that showed it, although a button settles whatever is current.
ConsentRequired ==
  \A r \in Request : NeedsApproval(r) /\ run[r] # "none" => r \in consent

\* A transaction is on the signing list, from which the nonces of the next
\* ones are counted, as long as its approval can be answered, whatever sheet
\* closes meanwhile, and no longer than its flow or controller is under way.
SigningTracked ==
  \A r \in Request : Kind[r] = "tx" =>
    /\ Approve(r) \in Queued(svc) => r \in signing
    /\ r \in signing => UnderWay(r) \/ run[r] \in {"amount", "running", "failed"}

\* Nobody can settle the promise that the flow of r awaits.
Stranded(r) ==
  \/ /\ Asked(r) # NoApproval /\ settled[r] = Unsettled
     /\ Asked(r) \notin Queued(svc) \cup {closing.approval}
  \/ stage[r] = "process" /\ run[r] = "failed"

\* A promise is dropped in the known ways only: the request was refused where
\* nobody hears it, was emptied from the queue while a sheet closed, or its
\* controller threw.  (These are reported as findings and hazards.)
OnlyKnownLosses == \A r \in Request : Stranded(r) => r \in lost

\* Whoever did not ask in vain is answered in the end, whatever the user does
\* first, if the user closes in the end whatever is open.
Answered ==
  \A r \in Request : UnderWay(r) ~> stage[r] = "answered" \/ r \in lost

\* A popup that says "Resent" hears of the request again: what it retries
\* runs, and ends with a result or an error.
RetryEnds == popup.st = "retrying" ~> popup.st # "retrying"
=============================================================================
