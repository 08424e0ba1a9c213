------------------------- MODULE NotificationService -------------------------
(***************************************************************************)
(* The notification service of the wallet: the queue of approvals, the one  *)
(* approval that is current, the sheet that shows it, and the flag that     *)
(* keeps a second sheet from opening.  This module has the state of the     *)
(* service and its methods, as functions of that state; RpcFlow adds the    *)
(* flows that ask for approvals and Approvals the user who answers.         *)
(*                                                                         *)
(* A method runs to its first await without interruption.  The promises it  *)
(* settles go on in microtasks, that is before any other event: settled[r]  *)
(* holds what the flow of request r has to be told next.                    *)
(***************************************************************************)
EXTENDS Naturals, Sequences, FiniteSets

CONSTANTS Request,     \* the requests that dapps and the wallet itself make
          NoRequest,
          Kind,        \* Kind[r]: what request r asks for
          MaxSheets    \* cap on the sheets that anything still refers to

ASSUME NotificationAssumption ==
  /\ NoRequest \notin Request
  /\ Kind \in [Request -> {"read", "link", "chain", "text", "tx"}]
  /\ MaxSheets \in Nat

VARIABLES svc,      \* the queue, the current approval, the window, the lock
          sheets,   \* the mounted sheets and the approval each one shows
          signing,  \* _signingTxList: requests with a transaction being signed
          settled,  \* settled[r]: what the promise r awaits has just become
          closing,  \* the rejectApproval that waits for its sheet to close
          task      \* the event or timer that follows an answer of the user

notificationVars == <<svc, sheets, signing, settled, closing>>

-----------------------------------------------------------------------------
(* Approvals.  A request asks for at most three, one after the other: to     *)
(* connect the dapp, to approve the request, and (waiting) to follow the     *)
(* signature that the approval started.                                      *)

Approval == [req : Request, step : {"connect", "approve", "waiting"}]
NoApproval == [req |-> NoRequest, step |-> "none"]

Signs(r) == Kind[r] \in {"text", "tx"}

\* QUEUE_APPROVAL_COMPONENTS_WHITELIST
Queueable(a) == a.step = "waiting" \/ (a.step = "approve" /\ Signs(a.req))

NoWindow == 0
NotClosing == [approval |-> NoApproval, win |-> NoWindow]

FreshService == [queue |-> <<>>, current |-> NoApproval, window |-> NoWindow,
                 locked |-> FALSE, deferFn |-> NoRequest]

Queued(s) == {s.queue[i] : i \in DOMAIN s.queue}

\* The queue without a, which is in it once if at all.
Without(q, a) ==
  LET at == CHOOSE i \in DOMAIN q : q[i] = a
  IN  IF \E i \in DOMAIN q : q[i] = a
      THEN [i \in 1 .. Len(q) - 1 |-> IF i < at THEN q[i] ELSE q[i + 1]]
      ELSE q

Unsettled == [st |-> "no", ui |-> FALSE, from |-> NoRequest]
Rejected == [Unsettled EXCEPT !.st = "rejected"]
Resolved(ui, from) == [st |-> "resolved", ui |-> ui, from |-> from]

\* No promise has anything left to tell: only then does the next event come.
Calm == \A r \in Request : settled[r] = Unsettled

-----------------------------------------------------------------------------
(* The queue.                                                              *)

\* requestApproval throws inside the executor of a new Promise, so that what
\* it throws reaches nobody and the promise is never settled.
refuses(s, a) ==
  s.current # NoApproval /\ ~(Queueable(a) /\ Queueable(s.current))

\* Mutant: an approval put in front does not become the current one.
enqueue_NotCurrent(s, a) ==
  [s EXCEPT !.queue = IF a.step = "waiting" THEN <<a>> \o @ ELSE Append(@, a),
            !.current = IF @ = NoApproval THEN a ELSE @]

\* isUnshift puts the follow-up of a signature in front of everything.
enqueue(s, a) ==
  IF a.step = "waiting"
  THEN [s EXCEPT !.queue = <<a>> \o @, !.current = a]
  ELSE [s EXCEPT !.queue = Append(@, a),
                 !.current = IF @ = NoApproval THEN a ELSE @]

emptied(s) == [s EXCEPT !.queue = <<>>, !.current = NoApproval]

deleteApproval(s, a) ==
  IF a # NoApproval /\ Len(s.queue) > 1
  THEN [s EXCEPT !.queue = Without(@, a)] ELSE emptied(s)

\* this.currentApproval = this.approvals[0], or null.
firstCurrent(s) ==
  [s EXCEPT !.current = IF s.queue = <<>> THEN NoApproval ELSE Head(s.queue)]

\* Mutant: an approval that was answered is not taken off the queue.
dequeue_LastOnly(s, a) ==
  IF Len(s.queue) > 1 THEN firstCurrent(s) ELSE emptied(s)

dequeue(s, a) == firstCurrent(deleteApproval(s, a))

\* The flows of the requests in R hear that they were rejected.
rejecting(R) == [r \in Request |-> IF r \in R THEN Rejected ELSE settled[r]]

-----------------------------------------------------------------------------
(* The sheet.                                                              *)

Sheet == [id : 1 .. MaxSheets, shown : Approval \cup {NoApproval},
          ready : BOOLEAN]

\* What pending events and the service still refer to; an identifier that
\* nothing refers to may be used again.
InUse == {w.id : w \in sheets} \cup {svc.window, closing.win, task.win}

Fresh(id) == \A i \in InUse : i < id

\* openNotification: no sheet while another flow holds the lock.
openSheet(s) ==
  IF s.window # NoWindow \/ s.locked
  THEN svc' = s /\ UNCHANGED sheets
  ELSE /\ \E id \in 1 .. MaxSheets : Fresh(id)
       /\ LET id == CHOOSE i \in 1 .. MaxSheets : Fresh(i)
          IN  /\ svc' = [s EXCEPT !.locked = TRUE, !.window = id]
              /\ sheets' = sheets \cup {[id |-> id, shown |-> NoApproval,
                                         ready |-> FALSE]}

\* The executor of requestApproval for approval a.
requestApproval(s, a) ==
  /\ signing' = IF a.step = "approve" /\ Kind[a.req] = "tx"
                THEN signing \cup {a.req} ELSE signing
  /\ IF refuses(s, a) THEN svc' = s /\ UNCHANGED sheets
     ELSE openSheet(enqueue(s, a))

\* Mutant: only the approval in front hears that all are rejected.
rejectAllApprovals_Current(s, ss) ==
  /\ settled' = rejecting({a.req : a \in {s.current} \cap Queued(s)})
  /\ svc' = emptied(s)
  /\ signing' = {}
  /\ sheets' = ss

\* rejectAllApprovals, by the user or by a sheet that went away.
rejectAllApprovals(s, ss) ==
  /\ settled' = rejecting({a.req : a \in Queued(s)})
  /\ svc' = emptied(s)
  /\ signing' = {}
  /\ sheets' = ss

\* Mutant: a sheet that the user swipes away rejects nothing.
removeSheet_Forgets(s, id) ==
  /\ svc' = IF id = s.window THEN [s EXCEPT !.window = NoWindow] ELSE s
  /\ sheets' = {w \in sheets : w.id # id}
  /\ UNCHANGED <<signing, settled>>

\* handleRemove and handleDismiss: the sheet goes away, and if it is the one
\* the service has open then everything it could have shown is rejected.
removeSheet(s, id) ==
  LET rest == {w \in sheets : w.id # id}
  IN  IF id # NoWindow /\ id = s.window
      THEN rejectAllApprovals([s EXCEPT !.window = NoWindow], rest)
      ELSE svc' = s /\ sheets' = rest /\ UNCHANGED <<signing, settled>>

\* unLock, in the finally block of a flow that asked for an approval.
unLock(s, asked) == [s EXCEPT !.locked = @ /\ ~asked]

-----------------------------------------------------------------------------
(* Answers.                                                                *)

\* resolveApproval: settles whatever approval is current.  ui says that the
\* answer names a component to follow the signature with.
resolveApproval(ui, from) ==
  /\ settled' = [settled EXCEPT ![svc.current.req] = Resolved(ui, from)]
  /\ svc' = dequeue(svc, svc.current)
  /\ UNCHANGED <<sheets, signing, closing>>

\* Mutant: the transaction of a rejected approval stays on the signing list.
rejectNow_KeepsSigning(s, a) ==
  /\ settled' = rejecting({a.req})
  /\ svc' = IF Len(s.queue) > 1 THEN dequeue(s, a) ELSE emptied(s)
  /\ UNCHANGED signing

\* The part of rejectApproval behind `await this.clear(stay)`.
rejectNow(s, a) ==
  /\ settled' = rejecting({a.req})
  /\ svc' = IF Len(s.queue) > 1 THEN dequeue(s, a) ELSE emptied(s)
  /\ signing' = signing \ {a.req}

\* rejectApproval of the current approval.  When it is the last one, clear
\* empties the queue, has the sheet removed and waits for 300 ms.
rejectApproval(win) ==
  IF Len(svc.queue) <= 1 /\ svc.window # NoWindow
  THEN /\ closing' = [approval |-> svc.current, win |-> win]
       /\ removeSheet(emptied(svc), svc.window)
  ELSE /\ rejectNow(svc, svc.current)
       /\ UNCHANGED <<sheets, closing>>

\* 300 ms later: the window is forgotten, whichever it is by then, and with
\* one approval in the queue or none the queue is emptied again.
Closed ==
  /\ Calm /\ closing # NotClosing
  /\ rejectNow([svc EXCEPT !.window = NoWindow], closing.approval)
  /\ closing' = NotClosing
  /\ UNCHANGED sheets
=============================================================================
