------------------------------ MODULE FilePlans ------------------------------
(***************************************************************************)
(* Approval-gated file moves: FilesystemTools (app/mcp/filesystem.py) and  *)
(* the plan store behind /api/plans (app/api/routers/plans.py).            *)
(*                                                                         *)
(* Each plan is one POST /api/plans call; each element of Requests is one  *)
(* POST .../approve or .../reject call, run by a worker thread of the      *)
(* server's thread pool.  req[r].pc names the next statement of the        *)
(* request that touches shared state, so that the statements of several    *)
(* requests, the operator, other programs and a crash interleave.          *)
(*                                                                         *)
(* The process's memory is st, applied, decision, lock and everything a    *)
(* request holds; a crash loses it.  The directory, the ledger (burnt) and *)
(* the decision log (row) survive.                                         *)
(***************************************************************************)
EXTENDS Approvals, SecureFiles

CONSTANTS
  Requests,   \* approve / reject calls; each is made at most once
  NoRequest,  \* "nobody"
  NoCall,     \* contents of a request that was not made yet
  NoReview,   \* a plan without an entry in _reviews
  SrcOf,      \* the paths each plan proposes
  DstOf,
  Actions,    \* what clients ask for: a subset of {"approve", "reject"}
  Faults,     \* which calls to the environment may fail
  MaxCrashes  \* bound of the model: process crashes

AllFaults == {"log_write", "log_update", "ledger", "audit", "link", "unlink", "rollback"}
Calls == [plan : Plans, action : Actions, token : Grants \cup {NoGrant}]

ASSUME FilePlansAssumption ==
  /\ NoRequest \notin Requests
  /\ SrcOf \in [Plans -> Names]
  /\ DstOf \in [Plans -> Names]
  /\ Actions \subseteq {"approve", "reject"}
  /\ Faults \subseteq AllFaults
  /\ MaxCrashes \in Nat
  /\ NoCall \notin Calls
  /\ NoReview \notin Fingerprint

VARIABLES
  st,       \* unused, inserted (in plans, review not registered yet),
            \* reviewed, unreviewed (registration raised), lost (restart)
  review,   \* _reviews: the file state each plan was proposed for
  applied,  \* MovePlan.applied
  decision, \* PlanStore.decisions: the request whose record a plan shows
  lock,     \* FilesystemTools._mutation_lock
  req,      \* the local state of each request (Request below)
  row,      \* the request's row in plan_decisions (its result column)
  moves,    \* history: requests that removed their plan's source name
  crashes

planVars == <<st, review, applied, decision>>
localVars == <<now, ledgerVars, fileVars, planVars, lock, row, moves, crashes>>
vars == <<now, issued, burnt, names, stamp, dirs, edits, renamed, st, review, applied,
          decision, lock, req, row, moves, crashes>>

(* Statements that run while the mutation lock is held.                    *)
GatePcs == {"authorize", "verify", "consume", "intent", "mkdir", "link", "check_dst",
            "check_src", "unlink", "rollback", "mark", "audit_applied", "audit_rejected"}
BusyPcs == GatePcs \cup {"write", "decide", "acquire", "update"}
Results == {"pending", "applied", "refused", "failed", "rejected"}
Statuses == {"pending_approval", "applied", "rejected"}
Codes == {"403", "404", "409", "500", "503"}

Request == [
  pc : BusyPcs \cup {"new", "done", "lost"},
  call : Calls \cup {NoCall},            \* what the client asked for
  exc : {"none", "permission", "exists", "os", "other"}, \* exception in flight
  instant : Nat,                         \* the clock value consume() read
  auth : Grants \cup {NoGrant},          \* the grant it consumed
  intent : BOOLEAN,                      \* "authorized" row in the ledger's audit
  linked : Inodes \cup {NoInode},        \* history: the inode os.link gave a name
  result : Results,                      \* record["result"]
  reply : Statuses \cup Codes \cup {"none"}]

(* Every variable holds a value of its kind; a request in progress knows   *)
(* what it was asked, and a plan that counts as reviewed has a review.     *)
TypeOK ==
  /\ ApprovalsTypeOK
  /\ SecureFilesTypeOK
  /\ st \in [Plans -> {"unused", "inserted", "reviewed", "unreviewed", "lost"}]
  /\ review \in [Plans -> Fingerprint \cup {NoReview}]
  /\ applied \in [Plans -> BOOLEAN]
  /\ decision \in [Plans -> Requests \cup {NoRequest}]
  /\ lock \in Requests \cup {NoRequest}
  /\ req \in [Requests -> Request]
  /\ row \in [Requests -> Results \cup {"none"}]
  /\ moves \in SUBSET Requests
  /\ crashes \in Nat
  /\ \A r \in Requests : req[r].pc \in BusyPcs => req[r].call \in Calls
  /\ \A p \in Plans : st[p] = "reviewed" => review[p] \in Fingerprint

NewRequest == [pc |-> "new", call |-> NoCall, exc |-> "none", instant |-> 0, auth |-> NoGrant,
               intent |-> FALSE, linked |-> NoInode, result |-> "pending", reply |-> "none"]

Init ==
  /\ ApprovalsInit
  /\ SecureFilesInit
  /\ st = [p \in Plans |-> "unused"]
  /\ review = [p \in Plans |-> NoReview]
  /\ applied = [p \in Plans |-> FALSE]
  /\ decision = [p \in Plans |-> NoRequest]
  /\ lock = NoRequest
  /\ req = [r \in Requests |-> NewRequest]
  /\ row = [r \in Requests |-> "none"]
  /\ moves = {}
  /\ crashes = 0

-----------------------------------------------------------------------------
(* Proposing and reviewing.                                                *)

(* propose_move up to self.plans[...] = plan: the source must exist.       *)
ProposeInsert(p) ==
  /\ st[p] = "unused"
  /\ Exists(SrcOf[p])
  /\ st' = [st EXCEPT ![p] = "inserted"]
  /\ UNCHANGED <<now, ledgerVars, fileVars, review, applied, decision, lock, req, row, moves, crashes>>

(* _register_review: describe the current file state and keep it.  When    *)
(* _describe raises, the client is answered 404 or 409 and the plan stays  *)
(* in self.plans.                                                          *)
RegisterReview(p) ==
  /\ st[p] = "inserted"
  /\ \/ /\ Exists(SrcOf[p]) /\ ~Exists(DstOf[p])
        /\ review' = [review EXCEPT ![p] = FingerprintOf(SrcOf[p], DstOf[p])]
        /\ st' = [st EXCEPT ![p] = "reviewed"]
     \/ /\ ~Exists(SrcOf[p]) \/ Exists(DstOf[p])
        /\ st' = [st EXCEPT ![p] = "unreviewed"]
        /\ UNCHANGED review
  /\ UNCHANGED <<now, ledgerVars, fileVars, applied, decision, lock, req, row, moves, crashes>>

(* The operator signs a review he was shown, even one a restart forgot.    *)
SignReview(p, g) ==
  /\ review[p] \in Fingerprint
  /\ Sign(g, p)
  /\ UNCHANGED <<fileVars, planVars, lock, req, row, moves, crashes>>

-----------------------------------------------------------------------------
(* PlanStore.decide up to the tool call.                                   *)

At(r, here) == req[r].pc = here
Goto(r, there) == req' = [req EXCEPT ![r].pc = there]
Finish(r, answer) == req' = [req EXCEPT ![r].pc = "done", ![r].reply = answer]
PlanOf(r) == req[r].call.plan
TokenOf(r) == req[r].call.token

(* The plans in tools.plans, with or without a review.                     *)
Known(p) == st[p] \notin {"unused", "lost"}

(* PlanStore.view: what a plan shows.  (approved without applied lasts     *)
(* only from one assignment to the next.)                                  *)
Rejected(p) == decision[p] \in Requests /\ req[decision[p]].call.action = "reject"
StatusOf(p) ==
  IF applied[p] THEN "applied" ELSE IF Rejected(p) THEN "rejected" ELSE "pending_approval"

(* decide, first lines: an unknown plan is 404, a decided one 409; any     *)
(* other gets a record.  Clients never learned the id of a plan whose      *)
(* creation has not been answered with one.                                *)
Refusal(p) ==
  IF ~Known(p) THEN "404" ELSE IF StatusOf(p) # "pending_approval" THEN "409" ELSE "none"

Decide(r, c) ==
  /\ At(r, "new")
  /\ Known(c.plan) => st[c.plan] = "reviewed"
  /\ c.action = "reject" => c.token = NoGrant
  /\ req' = [req EXCEPT ![r].call = c, ![r].reply = Refusal(c.plan),
                        ![r].pc = IF Refusal(c.plan) = "none" THEN "write" ELSE "done"]
  /\ UNCHANGED localVars

(* DecisionLog.write: the intent is recorded first, or the action is       *)
(* refused with 503.                                                       *)
LogWrite(r) ==
  /\ At(r, "write")
  /\ \/ Goto(r, "decide") /\ row' = [row EXCEPT ![r] = "pending"]
     \/ "log_write" \in Faults /\ Finish(r, "503") /\ UNCHANGED row
  /\ UNCHANGED <<now, ledgerVars, fileVars, planVars, lock, moves, crashes>>

(* self.decisions[plan_id] = record; a rejection is complete with that.    *)
RecordDecision(r) ==
  /\ At(r, "decide")
  /\ decision' = [decision EXCEPT ![PlanOf(r)] = r]
  /\ \/ req[r].call.action = "approve" /\ Goto(r, "acquire")
     \/ /\ req[r].call.action = "reject"
        /\ req' = [req EXCEPT ![r].pc = "update", ![r].result = "rejected"]
  /\ UNCHANGED <<now, ledgerVars, fileVars, st, review, applied, lock, row, moves, crashes>>

-----------------------------------------------------------------------------
(* apply_plan, under the mutation lock (_serialized).                      *)

(* A statement that raises: _serialized audits the rejection next.         *)
Raise(r, e) == req' = [req EXCEPT ![r].pc = "audit_rejected", ![r].exc = e]

(* with self._mutation_lock                                                *)
Acquire(r) ==
  /\ At(r, "acquire")
  /\ lock = NoRequest
  /\ lock' = r
  /\ Goto(r, "authorize")
  /\ UNCHANGED <<now, ledgerVars, fileVars, planVars, row, moves, crashes>>

(* _authorize: is the reviewed file state still the current one?           *)
Fresh(p) ==
  /\ Exists(SrcOf[p])
  /\ ~Exists(DstOf[p])
  /\ FingerprintOf(SrcOf[p], DstOf[p]) = review[p]

(* What _authorize raises before it looks into the capability.             *)
AuthorizeError(p, g) ==
  IF g = NoGrant THEN "permission"
  ELSE IF ~Exists(SrcOf[p]) THEN "os"
  ELSE IF Exists(DstOf[p]) THEN "exists" ELSE "permission"

Authorize(r) ==
  /\ At(r, "authorize")
  /\ IF TokenOf(r) # NoGrant /\ Fresh(PlanOf(r)) THEN Goto(r, "verify")
     ELSE Raise(r, AuthorizeError(PlanOf(r), TokenOf(r)))
  /\ UNCHANGED localVars

(* consume: signature, binding and lifetime.                               *)
Verify(r) ==
  /\ At(r, "verify")
  /\ IF Admits(TokenOf(r), PlanOf(r), now)
     THEN req' = [req EXCEPT ![r].pc = "consume", ![r].instant = now]
     ELSE Raise(r, "permission")
  /\ UNCHANGED localVars

(* consume: INSERT INTO grants.  The ledger may be locked or unreachable,  *)
(* which raises an exception that decide does not expect.                  *)
Consume(r) ==
  /\ At(r, "consume")
  /\ \/ /\ Unspent(TokenOf(r))
        /\ Burn(TokenOf(r))
        /\ req' = [req EXCEPT ![r].pc = "intent", ![r].auth = TokenOf(r)]
     \/ ~Unspent(TokenOf(r)) /\ Raise(r, "permission") /\ UNCHANGED burnt
     \/ "ledger" \in Faults /\ Raise(r, "other") /\ UNCHANGED burnt
  /\ UNCHANGED <<now, issued, fileVars, planVars, lock, row, moves, crashes>>

(* _audit(..., "authorized"): durable intent before touching files.        *)
AuditIntent(r) ==
  /\ At(r, "intent")
  /\ \/ req' = [req EXCEPT ![r].pc = "mkdir", ![r].intent = TRUE]
     \/ "audit" \in Faults /\ Raise(r, "other")
  /\ UNCHANGED localVars

-----------------------------------------------------------------------------
(* move_file.                                                              *)

Src(r) == SrcOf[PlanOf(r)]
Dst(r) == DstOf[PlanOf(r)]
Reviewed(r) == review[PlanOf(r)].ino
nonFileVars == <<now, ledgerVars, planVars, lock, row, crashes>>

MakeDirectory(r) ==
  /\ At(r, "mkdir")
  /\ MakeParent(Dst(r))
  /\ Goto(r, "link")
  /\ UNCHANGED <<nonFileVars, moves>>

(* os.link, or ENOENT, EEXIST or any other failure of the file system:     *)
(* then nothing was linked and there is nothing to undo.                   *)
Link(r) ==
  /\ At(r, "link")
  /\ \/ /\ LinkName(Src(r), Dst(r))
        /\ req' = [req EXCEPT ![r].pc = "check_dst", ![r].linked = names[Src(r)]]
     \/ ~Exists(Src(r)) /\ Raise(r, "os") /\ UNCHANGED fileVars
     \/ Exists(Src(r)) /\ Exists(Dst(r)) /\ Raise(r, "exists") /\ UNCHANGED fileVars
     \/ "link" \in Faults /\ Raise(r, "os") /\ UNCHANGED fileVars
  /\ UNCHANGED <<nonFileVars, moves>>

(* A failure after the link: the destination name is removed again.        *)
Undo(r, e) == req' = [req EXCEPT ![r].pc = "rollback", ![r].exc = e]

(* Mutant: neither stat check.                                             *)
CheckNothing(r) == At(r, "check_dst") /\ Goto(r, "unlink") /\ UNCHANGED localVars

(* os.stat(dst): is it the reviewed inode that got the new name?           *)
CheckDst(r) ==
  /\ At(r, "check_dst")
  /\ IF names[Dst(r)] = Reviewed(r) THEN Goto(r, "check_src")
     ELSE Undo(r, IF Exists(Dst(r)) THEN "permission" ELSE "os")
  /\ UNCHANGED localVars

(* os.stat(src): does the old name still point to the same inode?          *)
CheckSrc(r) ==
  /\ At(r, "check_src")
  /\ IF names[Src(r)] = Reviewed(r) THEN Goto(r, "unlink")
     ELSE Undo(r, IF Exists(Src(r)) THEN "permission" ELSE "os")
  /\ UNCHANGED localVars

(* os.unlink(src) completes the move, or fails.                            *)
Unlink(r) ==
  /\ At(r, "unlink")
  /\ \/ UnlinkName(Src(r)) /\ moves' = moves \cup {r} /\ Goto(r, "mark")
     \/ /\ ~Exists(Src(r)) \/ "unlink" \in Faults
        /\ Undo(r, "os")
        /\ UNCHANGED <<fileVars, moves>>
  /\ UNCHANGED nonFileVars

(* Mutant: the except clause re-raises without removing the new name.      *)
RollbackSkipped(r) ==
  At(r, "rollback") /\ Goto(r, "audit_rejected") /\ UNCHANGED localVars

(* os.unlink(dst) in the except clause; a failure of its own replaces the  *)
(* exception that led there.                                               *)
Rollback(r) ==
  /\ At(r, "rollback")
  /\ \/ UnlinkName(Dst(r)) /\ Goto(r, "audit_rejected")
     \/ /\ ~Exists(Dst(r)) \/ "rollback" \in Faults
        /\ Raise(r, "os")
        /\ UNCHANGED fileVars
  /\ UNCHANGED <<nonFileVars, moves>>

-----------------------------------------------------------------------------
(* Back in apply_plan, _serialized and decide.                             *)

afterVars == <<now, ledgerVars, fileVars, st, review, decision, moves, crashes>>

(* plan.approved = plan.applied = True                                     *)
MarkApplied(r) ==
  /\ At(r, "mark")
  /\ applied' = [applied EXCEPT ![PlanOf(r)] = TRUE]
  /\ Goto(r, "audit_applied")
  /\ UNCHANGED <<afterVars, lock, row>>

(* Mutant: decide takes the audit's failure for a failed move.             *)
AuditFailureIsMoveFailure(r) ==
  /\ At(r, "audit_applied")
  /\ lock' = NoRequest
  /\ req' = [req EXCEPT ![r].pc = "update", ![r].exc = "os", ![r].result = "failed"]
  /\ UNCHANGED <<afterVars, applied, row>>

(* The audit row of a success; leaving the method releases the lock.  If   *)
(* the row cannot be written, sqlite3.OperationalError is none of the      *)
(* exceptions decide handles: 500, and the record stays pending.           *)
AuditApplied(r) ==
  /\ At(r, "audit_applied")
  /\ lock' = NoRequest
  /\ \/ req' = [req EXCEPT ![r].pc = "update", ![r].result = "applied"]
     \/ "audit" \in Faults /\ Finish(r, "500")
  /\ UNCHANGED <<afterVars, applied, row>>

(* Mutant: the lock is not released on the way out of an exception.        *)
RejectedKeepsLock(r) ==
  /\ At(r, "audit_rejected")
  /\ req' = [req EXCEPT ![r].pc = "update", ![r].result = "refused"]
  /\ UNCHANGED localVars

(* The audit row of an exception (which may fail too), then the except     *)
(* clause of decide that matches the exception's class.                    *)
AuditRejected(r) ==
  /\ At(r, "audit_rejected")
  /\ lock' = NoRequest
  /\ \/ /\ req[r].exc # "other"
        /\ req' = [req EXCEPT ![r].pc = "update",
                              ![r].result = IF req[r].exc = "os" THEN "failed" ELSE "refused"]
     \/ (req[r].exc = "other" \/ "audit" \in Faults) /\ Finish(r, "500")
  /\ UNCHANGED <<afterVars, applied, row>>

(* UPDATE plan_decisions ... WHERE plan_id AND action.                     *)
SameDecision(r, q) ==
  row[q] # "none" /\ PlanOf(q) = PlanOf(r) /\ req[q].call.action = req[r].call.action

(* What decide answers once the log is up to date: the plan's view, or the *)
(* status code of the exception.                                           *)
Answer(r) ==
  CASE req[r].exc = "none" -> StatusOf(PlanOf(r))
    [] req[r].exc = "permission" -> "403"
    [] req[r].exc = "exists" -> "409"
    [] OTHER -> "500"

LogUpdate(r) ==
  /\ At(r, "update")
  /\ \/ /\ row' = [q \in Requests |-> IF SameDecision(r, q) THEN req[r].result ELSE row[q]]
        /\ Finish(r, Answer(r))
     \/ "log_update" \in Faults /\ Finish(r, "500") /\ UNCHANGED row
  /\ UNCHANGED <<afterVars, applied, lock>>

-----------------------------------------------------------------------------
(* The process dies and is started again: memory is gone, requests in      *)
(* flight are never answered, files, ledger and decision log remain.  (The *)
(* text of a review lives on with the operator, so review is kept.)        *)
Crash ==
  /\ crashes < MaxCrashes
  /\ crashes' = crashes + 1
  /\ st' = [p \in Plans |-> IF st[p] = "unused" THEN "unused" ELSE "lost"]
  /\ applied' = [p \in Plans |-> FALSE]
  /\ decision' = [p \in Plans |-> NoRequest]
  /\ lock' = NoRequest
  /\ req' = [r \in Requests |-> IF req[r].pc \in BusyPcs THEN [req[r] EXCEPT !.pc = "lost"] ELSE req[r]]
  /\ UNCHANGED <<now, ledgerVars, fileVars, review, row, moves>>

(* No request is in progress: the server waits for the next one.           *)
Idle ==
  /\ \A r \in Requests : req[r].pc \notin BusyPcs
  /\ \A p \in Plans : st[p] # "inserted"
  /\ UNCHANGED vars

Gate(r) ==
  \/ Authorize(r) \/ Verify(r) \/ Consume(r) \/ AuditIntent(r)
  \/ MakeDirectory(r) \/ Link(r) \/ CheckDst(r) \/ CheckSrc(r) \/ Unlink(r) \/ Rollback(r)
  \/ MarkApplied(r) \/ AuditApplied(r) \/ AuditRejected(r)

Serve(r) ==
  LogWrite(r) \/ RecordDecision(r) \/ Acquire(r) \/ Gate(r) \/ LogUpdate(r)

serverVars == <<planVars, lock, req, row, moves, crashes>>
Environment ==
  \/ Tick /\ UNCHANGED <<fileVars, serverVars>>
  \/ OtherPrograms /\ UNCHANGED <<now, ledgerVars, serverVars>>

Next ==
  \/ \E p \in Plans : ProposeInsert(p) \/ RegisterReview(p)
  \/ \E p \in Plans, g \in Grants : SignReview(p, g)
  \/ \E r \in Requests, c \in Calls : Decide(r, c)
  \/ \E r \in Requests : Serve(r)
  \/ Environment
  \/ Crash
  \/ Idle

(* Worker threads run: a request that was accepted takes its next step.    *)
(* Nothing is assumed of clients, the operator, other programs, the clock. *)
Fairness ==
  /\ \A r \in Requests : WF_vars(Serve(r))
  /\ \A p \in Plans : WF_vars(RegisterReview(p))

Spec == Init /\ [][Next]_vars
FairSpec == Spec /\ Fairness

-----------------------------------------------------------------------------
(* Properties.                                                             *)

(* A source name is removed only by a request that consumed a grant the    *)
(* operator signed for that very plan, inside the grant's lifetime, with   *)
(* the durable "authorized" row and the decision row already written       *)
(* (_authorize, consume, DecisionLog.write: "never runs unrecorded").      *)
EveryMoveAuthorized ==
  \A r \in moves :
    LET g == req[r].auth IN
    /\ g \in burnt
    /\ Signed(g)
    /\ issued[g].plan = PlanOf(r)
    /\ issued[g].at <= req[r].instant + Skew
    /\ req[r].instant < issued[g].expires
    /\ req[r].intent
    /\ row[r] # "none"

(* One grant, one execution: no two requests ever hold the same grant,     *)
(* however their threads interleave and across restarts (the grants table  *)
(* has a primary key; a failed mutation burns the grant).                  *)
GrantsSingleUse ==
  \A r, q \in Requests : req[r].auth # NoGrant /\ req[r].auth = req[q].auth => r = q

(* A plan is carried out at most once, even when the operator signs it     *)
(* twice and somebody puts the file back: link and unlink change the       *)
(* ctime the review is bound to.                                           *)
PlanMovesOnce == \A r, q \in moves : PlanOf(r) = PlanOf(q) => r = q

(* A completed move moved the file the operator reviewed, unless other     *)
(* programs worked on its names five times or more: the two stat checks of *)
(* move_file miss another file only if it replaced the old name before the *)
(* link, and the reviewed file then took the new name's place before the   *)
(* first stat and the old name's before the second.                        *)
RightFileMoved == \A r \in moves : edits < 5 => req[r].linked = Reviewed(r)

(* Until another program renames or removes files, every file of the       *)
(* corpus keeps a name through moves, failures, rollbacks and crashes; and *)
(* without a crash or a failed rollback it has two names only while a move *)
(* is in progress, since a failed move undoes its link.                    *)
NothingLost ==
  ~renamed => \A n \in Names : InitNames[n] \in Inodes => Linked(InitNames[n])
NoLeftovers ==
  ~renamed /\ crashes = 0 /\ "rollback" \notin Faults /\ lock = NoRequest =>
    \A n, m \in Names : Exists(n) /\ names[n] = names[m] => n = m
FilesKeepOneName == NothingLost /\ NoLeftovers

(* Once a request linked the file, its plan is stale for good when the     *)
(* request leaves the gate: after a rolled back or half finished move the  *)
(* operator has to review a new proposal.                                  *)
TouchedPlansGoStale ==
  \A r \in Requests : req[r].linked \in Inodes /\ lock # r => ~Fresh(PlanOf(r))

(* What is on record and what happened to the files are one.  The decision *)
(* log claims a move only if there was one; a request whose record ends    *)
(* refused, failed or rejected did not move the file, since no exception   *)
(* path of decide follows the unlink; and as soon as the mutation lock is  *)
(* free again PlanView says applied exactly for the moved plans of this    *)
(* process, also when the audit of the success failed and the client was   *)
(* told 500.                                                               *)
LogTellsApplied ==
  \A r \in Requests :
    row[r] = "applied" => \E q \in moves : PlanOf(q) = PlanOf(r)
RefusedDidNotMove ==
  \A r \in moves : req[r].result \in {"pending", "applied"}
ViewTellsMoved ==
  lock = NoRequest =>
    \A p \in Plans : st[p] = "reviewed" =>
      (applied[p] <=> \E r \in moves : PlanOf(r) = p)
RecordsTellMoved == LogTellsApplied /\ RefusedDidNotMove /\ ViewTellsMoved

(* Every request that was accepted is answered, unless the process dies:   *)
(* every way out of apply_plan releases the mutation lock.                 *)
EveryRequestAnswered ==
  \A r \in Requests : req[r].pc \in BusyPcs ~> req[r].pc \in {"done", "lost"}

(* The gate, threads, files and logs together implement MoveGate.          *)
Gatekeeper == INSTANCE MoveGate WITH
  NoPlan <- NoGrant,
  signed <- [g \in Grants |-> IF Signed(g) THEN issued[g].plan ELSE NoGrant],
  spent <- burnt,
  moved <- {<<PlanOf(r), req[r].auth>> : r \in moves}
ImplementsMoveGate == Gatekeeper!Spec

-----------------------------------------------------------------------------
(* What the documentation says and the code does not do.                   *)

(* plans.py:6, "mark rejected; the file is never touched": once a client   *)
(* was answered that a plan is rejected, the plan's move never happens.    *)
RejectedNeverMoves ==
  \A r \in Requests :
    req[r].reply = "rejected" => \A q \in moves : PlanOf(q) # PlanOf(r)
=============================================================================
