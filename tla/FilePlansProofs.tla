--------------------------- MODULE FilePlansProofs ---------------------------
(***************************************************************************)
(* Safety of FilePlans, proved for any sets of plans, grants, requests,    *)
(* names and inodes, any faults and any bounds: the types; the inductive  *)
(* invariant GateInv and what follows from it; the invariants of what a    *)
(* move leaves behind (LinkedInv), of the records (TellsInv), of the moved *)
(* file (SwapInv) and of the corpus (FilesInv); the refinement of MoveGate.*)
(***************************************************************************)
EXTENDS FilePlans, TLAPS

-----------------------------------------------------------------------------
(* Types.  The requests' records are kept apart from everything else.      *)

RequestsOK ==
  /\ req \in [Requests -> Request]
  /\ \A r \in Requests :
       /\ req[r].pc \in BusyPcs => req[r].call \in Calls
       /\ req[r].pc \in {"verify", "consume"} => TokenOf(r) \in Grants

SharedOK ==
  /\ ApprovalsTypeOK
  /\ SecureFilesTypeOK
  /\ st \in [Plans -> {"unused", "inserted", "reviewed", "unreviewed", "lost"}]
  /\ review \in [Plans -> Fingerprint \cup {NoReview}]
  /\ applied \in [Plans -> BOOLEAN]
  /\ decision \in [Plans -> Requests \cup {NoRequest}]
  /\ lock \in Requests \cup {NoRequest}
  /\ row \in [Requests -> Results \cup {"none"}]
  /\ moves \in SUBSET Requests
  /\ crashes \in Nat
  /\ \A p \in Plans : st[p] = "reviewed" => review[p] \in Fingerprint

(* The record of the request that takes a step, seen from outside: its     *)
(* call does not change, and nobody else's record does.                    *)
LEMMA ServeFrame ==
  ASSUME RequestsOK, NEW r \in Requests, Serve(r)
  PROVE  /\ req[r].pc \in BusyPcs
         /\ req'[r].call = req[r].call
         /\ req'[r].pc = "verify" => TokenOf(r) \in Grants
         /\ req'[r].pc = "consume" => req[r].pc = "verify"
         /\ \A q \in Requests : q # r => req'[q] = req[q]
<1> DEFINE Frame ==
      /\ req[r].pc \in BusyPcs
      /\ req'[r].call = req[r].call
      /\ req'[r].pc = "verify" => TokenOf(r) \in Grants
      /\ req'[r].pc = "consume" => req[r].pc = "verify"
      /\ \A q \in Requests : q # r => req'[q] = req[q]
<1> USE DEF RequestsOK, At, Request, BusyPcs, GatePcs
<1>1. CASE LogWrite(r)
  BY <1>1, SMTT(60) DEF LogWrite, Goto, Finish
<1>2. CASE RecordDecision(r)
  BY <1>2, SMTT(60) DEF RecordDecision, Goto
<1>3. CASE Acquire(r)
  BY <1>3, SMTT(60) DEF Acquire, Goto
<1>4. CASE Authorize(r)
  <2>1. req[r].pc = "authorize" /\ req[r].call \in Calls
    BY <1>4 DEF Authorize
  <2>2. CASE TokenOf(r) # NoGrant /\ Goto(r, "verify")
    BY <2>1, <2>2, SMTT(60) DEF Goto, TokenOf, Calls
  <2>3. CASE \E e : Raise(r, e)
    BY <2>1, <2>3, SMTT(60) DEF Raise
  <2> QED
    BY <1>4, <2>2, <2>3, Zenon DEF Authorize
<1>5. CASE Verify(r)
  BY <1>5, SMTT(60) DEF Verify, Raise
<1>6. CASE Consume(r)
  BY <1>6, SMTT(60) DEF Consume, Raise
<1>7. CASE AuditIntent(r)
  BY <1>7, SMTT(60) DEF AuditIntent, Raise
<1>8. CASE MakeDirectory(r)
  BY <1>8, SMTT(60) DEF MakeDirectory, Goto
<1>9. CASE Link(r)
  BY <1>9, SMTT(60) DEF Link, Raise
<1>10. CASE CheckDst(r) \/ CheckSrc(r)
  BY <1>10, SMTT(60) DEF CheckDst, CheckSrc, Goto, Undo
<1>11. CASE Unlink(r)
  BY <1>11, SMTT(60) DEF Unlink, Goto, Undo
<1>12. CASE Rollback(r)
  BY <1>12, SMTT(60) DEF Rollback, Goto, Raise
<1>13. CASE MarkApplied(r)
  BY <1>13, SMTT(60) DEF MarkApplied, Goto
<1>14. CASE AuditApplied(r)
  BY <1>14, SMTT(60) DEF AuditApplied, Finish
<1>15. CASE AuditRejected(r)
  BY <1>15, SMTT(60) DEF AuditRejected, Finish
<1>16. CASE LogUpdate(r)
  BY <1>16, SMTT(60) DEF LogUpdate, Finish
<1>17. Frame
  BY <1>1, <1>2, <1>3, <1>4, <1>5, <1>6, <1>7, <1>8, <1>9, <1>10, <1>11, <1>12, <1>13,
     <1>14, <1>15, <1>16, Zenon DEF Serve, Gate
<1> QED
  BY <1>17

(* The grant that consume hands to a request keeps its record well formed. *)
LEMMA GrantTaken ==
  ASSUME NEW q \in Request, NEW g \in Grants
  PROVE  [q EXCEPT !.pc = "intent", !.auth = g] \in Request
<1>1. [q EXCEPT !.auth = g] \in Request
  BY DEF Request
<1>2. [[q EXCEPT !.auth = g] EXCEPT !.pc = "intent"] \in Request
  BY <1>1 DEF Request, BusyPcs, GatePcs
<1>3. [[q EXCEPT !.auth = g] EXCEPT !.pc = "intent"] = [q EXCEPT !.pc = "intent", !.auth = g]
  BY DEF Request
<1> QED
  BY <1>2, <1>3

(* The call and the answer of a request that decide just accepted or       *)
(* refused keep its record well formed.                                    *)
LEMMA CallAnswered ==
  ASSUME NEW q \in Request, NEW c \in Calls, NEW code \in Codes \cup {"none"},
         NEW l \in {"write", "done"}
  PROVE  [q EXCEPT !.call = c, !.reply = code, !.pc = l] \in Request
<1>1. [q EXCEPT !.call = c] \in Request
  BY DEF Request
<1>2. [[q EXCEPT !.call = c] EXCEPT !.reply = code] \in Request
  BY <1>1 DEF Request
<1>3. [[[q EXCEPT !.call = c] EXCEPT !.reply = code] EXCEPT !.pc = l] \in Request
  <2>1. l \in BusyPcs \cup {"new", "done", "lost"}
    BY DEF BusyPcs
  <2> QED BY <1>2, <2>1 DEF Request
<1>4. [[[q EXCEPT !.call = c] EXCEPT !.reply = code] EXCEPT !.pc = l]
        = [q EXCEPT !.call = c, !.reply = code, !.pc = l]
  BY DEF Request
<1> QED
  BY <1>3, <1>4

(* A request's step leaves all records well formed.                        *)
LEMMA ServeTyped ==
  ASSUME RequestsOK, now \in Nat, NEW r \in Requests, Serve(r)
  PROVE  req' \in [Requests -> Request]
<1>0. req \in [Requests -> Request]
  BY DEF RequestsOK
<1> USE DEF At, Request, BusyPcs, GatePcs
<1>1. CASE LogWrite(r)
  BY <1>0, <1>1, SMTT(60) DEF LogWrite, Goto, Finish, Codes, Statuses
<1>2. CASE RecordDecision(r)
  BY <1>0, <1>2, SMTT(60) DEF RecordDecision, Goto, Results
<1>3. CASE Acquire(r)
  BY <1>0, <1>3, SMTT(60) DEF Acquire, Goto
<1>4. CASE Authorize(r)
  BY <1>0, <1>4, SMTT(60) DEF Authorize, Goto, Raise, AuthorizeError
<1>5. CASE Verify(r)
  BY <1>0, <1>5, SMTT(60) DEF Verify, Raise
<1>6. CASE Consume(r)
  <2>1. TokenOf(r) \in Grants
    BY <1>6 DEF Consume, RequestsOK
  <2>2. [req[r] EXCEPT !.pc = "intent", !.auth = TokenOf(r)] \in Request
    BY <1>0, <2>1, GrantTaken
  <2>3. CASE req' = [req EXCEPT ![r].pc = "intent", ![r].auth = TokenOf(r)]
    <3>1. req' = [req EXCEPT ![r] = [req[r] EXCEPT !.pc = "intent", !.auth = TokenOf(r)]]
      BY <2>3
    <3> HIDE DEF Request
    <3> QED BY <1>0, <2>2, <3>1
  <2>4. CASE Raise(r, "permission") \/ Raise(r, "other")
    BY <1>0, <2>4, SMTT(60) DEF Raise
  <2> QED
    BY <1>6, <2>3, <2>4 DEF Consume
<1>7. CASE AuditIntent(r)
  BY <1>0, <1>7, SMTT(60) DEF AuditIntent, Raise
<1>8. CASE MakeDirectory(r)
  BY <1>0, <1>8, SMTT(60) DEF MakeDirectory, Goto
<1>9. CASE Link(r)
  BY <1>0, <1>9, SMTT(60) DEF Link, LinkName, Exists, Raise
<1>10. CASE CheckDst(r) \/ CheckSrc(r)
  BY <1>0, <1>10, SMTT(60) DEF CheckDst, CheckSrc, Goto, Undo
<1>11. CASE Unlink(r)
  BY <1>0, <1>11, SMTT(60) DEF Unlink, Goto, Undo
<1>12. CASE Rollback(r)
  BY <1>0, <1>12, SMTT(60) DEF Rollback, Goto, Raise
<1>13. CASE MarkApplied(r)
  BY <1>0, <1>13, SMTT(60) DEF MarkApplied, Goto
<1>14. CASE AuditApplied(r)
  BY <1>0, <1>14, SMTT(60) DEF AuditApplied, Finish, Results, Codes
<1>15. CASE AuditRejected(r)
  BY <1>0, <1>15, SMTT(60) DEF AuditRejected, Finish, Results, Codes
<1>16. CASE LogUpdate(r)
  BY <1>0, <1>16, SMTT(60) DEF LogUpdate, Finish, Answer, StatusOf, Codes, Statuses
<1> QED
  BY <1>1, <1>2, <1>3, <1>4, <1>5, <1>6, <1>7, <1>8, <1>9, <1>10, <1>11, <1>12, <1>13,
     <1>14, <1>15, <1>16 DEF Serve, Gate

(* So a step of a request keeps RequestsOK.                                *)
LEMMA ServeKeepsRequests ==
  ASSUME RequestsOK, now \in Nat, NEW r \in Requests, Serve(r)
  PROVE  RequestsOK'
<1>1. req' \in [Requests -> Request]
  BY ServeTyped
<1>2. ASSUME NEW q \in Requests
      PROVE  /\ req'[q].pc \in BusyPcs => req'[q].call \in Calls
             /\ req'[q].pc \in {"verify", "consume"} => req'[q].call.token \in Grants
  <2>1. CASE q = r
    BY <2>1, ServeFrame DEF RequestsOK, TokenOf
  <2>2. CASE q # r
    BY <2>2, ServeFrame DEF RequestsOK, TokenOf
  <2> QED BY <2>1, <2>2
<1> QED
  BY <1>1, <1>2 DEF RequestsOK, TokenOf

USE ApprovalsAssumption, SecureFilesAssumption, FilePlansAssumption

(* The two halves make up TypeOK.                                          *)
LEMMA TypeSplit == RequestsOK /\ SharedOK => TypeOK
  BY DEF TypeOK, RequestsOK, SharedOK

(* The server starts well typed.                                           *)
LEMMA TypeInit == Init => RequestsOK /\ SharedOK
<1> SUFFICES ASSUME Init PROVE RequestsOK /\ SharedOK
  OBVIOUS
<1>1. NewRequest \in Request
  BY DEF NewRequest, Request, Results, Statuses, Codes
<1>2. RequestsOK
  BY <1>1, SMTT(60) DEF Init, RequestsOK, TokenOf, NewRequest, BusyPcs, GatePcs
<1>3. ApprovalsTypeOK
  BY DEF Init, ApprovalsInit, ApprovalsTypeOK
<1>4. SecureFilesTypeOK
  BY DEF Init, SecureFilesInit, SecureFilesTypeOK
<1>5. SharedOK
  BY <1>3, <1>4 DEF Init, SharedOK
<1> QED
  BY <1>2, <1>5

(* Names and stamps stay well typed through the file system's operations.  *)
LEMMA FilesTyped ==
  ASSUME SecureFilesTypeOK, NEW n \in Names, NEW m \in Names,
         MakeParent(n) \/ LinkName(n, m) \/ UnlinkName(n)
  PROVE  SecureFilesTypeOK'
  BY DEF SecureFilesTypeOK, MakeParent, LinkName, UnlinkName, Exists

(* Other programs leave the directory well typed.                          *)
LEMMA OthersTyped ==
  ASSUME SecureFilesTypeOK, OtherPrograms
  PROVE  SecureFilesTypeOK'
<1> USE DEF SecureFilesTypeOK, Exists
<1>1. ASSUME NEW n \in Names, EditInPlace(n)
      PROVE  SecureFilesTypeOK'
  BY <1>1 DEF EditInPlace
<1>2. ASSUME NEW n \in Names, SaveOver(n)
      PROVE  SecureFilesTypeOK'
  BY <1>2 DEF SaveOver
<1>3. ASSUME NEW n \in Names, Remove(n)
      PROVE  SecureFilesTypeOK'
  BY <1>3 DEF Remove
<1>4. ASSUME NEW n \in Names, NEW m \in Names, RenameTo(n, m)
      PROVE  SecureFilesTypeOK'
  BY <1>4 DEF RenameTo
<1> QED
  BY <1>1, <1>2, <1>3, <1>4 DEF OtherPrograms

(* The rest of the state stays well typed through a request's steps.       *)
LEMMA ServeKeepsShared ==
  ASSUME RequestsOK, SharedOK, NEW r \in Requests, Serve(r)
  PROVE  SharedOK'
<1>1. req[r].pc \in BusyPcs => PlanOf(r) \in Plans /\ Src(r) \in Names /\ Dst(r) \in Names
  BY DEF RequestsOK, PlanOf, Src, Dst, Calls
<1>2. CASE LogWrite(r)
  BY <1>2 DEF LogWrite, SharedOK, ApprovalsTypeOK, SecureFilesTypeOK, ledgerVars, fileVars,
     planVars, Results
<1>3. CASE RecordDecision(r)
  BY <1>3, <1>1 DEF RecordDecision, SharedOK, ApprovalsTypeOK, SecureFilesTypeOK, ledgerVars, fileVars,
     At, BusyPcs
<1>4. CASE Acquire(r)
  BY <1>4 DEF Acquire, SharedOK, ApprovalsTypeOK, SecureFilesTypeOK, ledgerVars, fileVars, planVars
<1>5. CASE UNCHANGED localVars
  BY <1>5 DEF localVars, SharedOK, ApprovalsTypeOK, SecureFilesTypeOK, ledgerVars, fileVars, planVars
<1>6. CASE Consume(r)
  <2>1. TokenOf(r) \in Grants
    BY <1>6 DEF Consume, At, RequestsOK
  <2> QED
    BY <1>6, <2>1 DEF Consume, SharedOK, ApprovalsTypeOK, SecureFilesTypeOK, fileVars, planVars, Burn, Unspent
<1>7. ASSUME SecureFilesTypeOK', UNCHANGED nonFileVars, moves' \in SUBSET Requests
      PROVE  SharedOK'
  BY <1>7 DEF nonFileVars, SharedOK, ApprovalsTypeOK, ledgerVars, planVars
<1>8. CASE MakeDirectory(r)
  <2>1. SecureFilesTypeOK'
    BY <1>1, <1>8, FilesTyped DEF MakeDirectory, SharedOK, At, BusyPcs, GatePcs
  <2> QED BY <1>7, <1>8, <2>1 DEF MakeDirectory, SharedOK
<1>9. CASE Link(r)
  <2>1. SecureFilesTypeOK'
    BY <1>1, <1>9, FilesTyped DEF Link, SharedOK, At, BusyPcs, GatePcs, fileVars, SecureFilesTypeOK
  <2> QED BY <1>7, <1>9, <2>1 DEF Link, SharedOK
<1>10. CASE Unlink(r)
  <2>1. SecureFilesTypeOK'
    BY <1>1, <1>10, FilesTyped DEF Unlink, SharedOK, At, BusyPcs, GatePcs, fileVars, SecureFilesTypeOK
  <2> QED BY <1>7, <1>10, <2>1 DEF Unlink, SharedOK
<1>11. CASE Rollback(r)
  <2>1. SecureFilesTypeOK'
    BY <1>1, <1>11, FilesTyped DEF Rollback, SharedOK, At, BusyPcs, GatePcs, fileVars, SecureFilesTypeOK
  <2> QED BY <1>7, <1>11, <2>1 DEF Rollback, SharedOK
<1>12. CASE MarkApplied(r)
  BY <1>1, <1>12 DEF MarkApplied, afterVars, SharedOK, ApprovalsTypeOK, SecureFilesTypeOK,
     ledgerVars, fileVars, At, BusyPcs, GatePcs
<1>13. CASE AuditApplied(r) \/ AuditRejected(r)
  BY <1>13 DEF AuditApplied, AuditRejected, afterVars, SharedOK, ApprovalsTypeOK,
     SecureFilesTypeOK, ledgerVars, fileVars
<1>14. CASE LogUpdate(r)
  <2>1. row' \in [Requests -> Results \cup {"none"}]
    BY <1>14 DEF LogUpdate, At, RequestsOK, Request, SharedOK
  <2> QED
    BY <1>14, <2>1 DEF LogUpdate, afterVars, SharedOK, ApprovalsTypeOK, SecureFilesTypeOK, ledgerVars,
     fileVars
<1> QED
  BY <1>2, <1>3, <1>4, <1>5, <1>6, <1>8, <1>9, <1>10, <1>11, <1>12, <1>13, <1>14
     DEF Serve, Gate, Authorize, Verify, AuditIntent, CheckDst, CheckSrc

(* Every step leaves the state well typed.                                 *)
LEMMA TypeNext == RequestsOK /\ SharedOK /\ [Next]_vars => RequestsOK' /\ SharedOK'
<1> SUFFICES ASSUME RequestsOK, SharedOK, [Next]_vars
             PROVE  RequestsOK' /\ SharedOK'
  OBVIOUS
<1>1. ASSUME NEW p \in Plans, ProposeInsert(p) \/ RegisterReview(p)
      PROVE  RequestsOK' /\ SharedOK'
  <2>1. RequestsOK'
    BY <1>1 DEF ProposeInsert, RegisterReview, RequestsOK, TokenOf
  <2>2. Exists(SrcOf[p]) => FingerprintOf(SrcOf[p], DstOf[p]) \in Fingerprint
    BY DEF Exists, FingerprintOf, Fingerprint, SharedOK, SecureFilesTypeOK
  <2>3. SharedOK'
    BY <1>1, <2>2 DEF ProposeInsert, RegisterReview, SharedOK, ApprovalsTypeOK,
       SecureFilesTypeOK, ledgerVars, fileVars
  <2> QED BY <2>1, <2>3
<1>2. ASSUME NEW p \in Plans, NEW g \in Grants, SignReview(p, g)
      PROVE  RequestsOK' /\ SharedOK'
  <2>1. RequestsOK'
    BY <1>2 DEF SignReview, RequestsOK, TokenOf
  <2>2. ApprovalsTypeOK'
    BY <1>2 DEF SignReview, Sign, SharedOK, ApprovalsTypeOK, Capability
  <2> QED
    BY <1>2, <2>1, <2>2 DEF SignReview, SharedOK, SecureFilesTypeOK, fileVars, planVars
<1>3. ASSUME NEW r \in Requests, NEW c \in Calls, Decide(r, c)
      PROVE  RequestsOK' /\ SharedOK'
  <2>1. req' \in [Requests -> Request]
    <3> DEFINE code == Refusal(c.plan)
               asked == [req[r] EXCEPT !.call = c, !.reply = code,
                                       !.pc = IF code = "none" THEN "write" ELSE "done"]
    <3>1. code \in Codes \cup {"none"}
      BY DEF Refusal, Codes
    <3>2. asked \in Request
      BY <3>1, CallAnswered DEF RequestsOK
    <3>3. req' = [req EXCEPT ![r] = asked]
      BY <1>3 DEF Decide
    <3> HIDE DEF asked
    <3> QED BY <3>2, <3>3 DEF RequestsOK
  <2>2. \A q \in Requests : q # r => req'[q] = req[q]
    BY <1>3 DEF Decide, RequestsOK, Request
  <2>3. req'[r].call = c /\ req'[r].pc \in {"write", "done"}
    BY <1>3 DEF Decide, RequestsOK, Request
  <2>4. RequestsOK'
    BY <2>1, <2>2, <2>3, SMTT(60) DEF RequestsOK, TokenOf
  <2> QED
    BY <1>3, <2>4 DEF Decide, localVars, SharedOK, ApprovalsTypeOK, SecureFilesTypeOK,
       ledgerVars, fileVars, planVars
<1>4. ASSUME NEW r \in Requests, Serve(r)
      PROVE  RequestsOK' /\ SharedOK'
  BY <1>4, ServeKeepsRequests, ServeKeepsShared DEF SharedOK, ApprovalsTypeOK
<1>5. CASE Environment
  <2>1. RequestsOK'
    BY <1>5 DEF Environment, serverVars, RequestsOK, TokenOf
  <2>2. CASE Tick /\ UNCHANGED <<fileVars, serverVars>>
    BY <2>1, <2>2 DEF Tick, serverVars, SharedOK, ApprovalsTypeOK, SecureFilesTypeOK,
       ledgerVars, fileVars, planVars
  <2>3. CASE OtherPrograms /\ UNCHANGED <<now, ledgerVars, serverVars>>
    BY <2>1, <2>3, OthersTyped DEF serverVars, SharedOK, ApprovalsTypeOK, ledgerVars, planVars
  <2> QED BY <1>5, <2>2, <2>3 DEF Environment
<1>6. CASE Crash
  <2>1. RequestsOK'
    BY <1>6, SMTT(60) DEF Crash, RequestsOK, TokenOf, Request
  <2> QED
    BY <1>6, <2>1 DEF Crash, SharedOK, ApprovalsTypeOK, SecureFilesTypeOK, ledgerVars, fileVars
<1>7. CASE UNCHANGED vars
  BY <1>7 DEF vars, RequestsOK, TokenOf, SharedOK, ApprovalsTypeOK, SecureFilesTypeOK
<1> QED
  BY <1>1, <1>2, <1>3, <1>4, <1>5, <1>6, <1>7 DEF Next, Idle

(* Every reachable state is well typed, for any constants: a request in    *)
(* progress knows its call, a plan that can be approved has a review       *)
(* (_register_review precedes the answer that carries the plan's id).      *)
THEOREM TypeCorrect == Spec => []TypeOK
  BY TypeInit, TypeNext, TypeSplit, PTL DEF Spec

-----------------------------------------------------------------------------
(* The inductive invariant.                                                *)

(* Before a request has a grant, and while its grant is good for the move. *)
PreGrantPcs == {"new", "write", "decide", "acquire", "authorize", "verify", "consume"}
IntentPcs == {"mkdir", "link", "check_dst", "check_src", "unlink", "mark", "audit_applied"}
(* Before a request reaches the gate.                                      *)
EarlyPcs == {"new", "write", "decide", "acquire"}
(* The plan was found fresh and its source name is still to be removed.    *)
PreLinkPcs == {"verify", "consume", "intent", "mkdir", "link"}
MovingPcs == PreLinkPcs \cup {"check_dst", "check_src", "unlink"}
MovedPcs == {"mark", "audit_applied", "update", "done", "lost"}

(* The statements of apply_plan run one request at a time.                 *)
LockInv == \A r \in Requests : req[r].pc \in GatePcs <=> lock = r

(* What the ledger knows about a grant g that request r may use.           *)
Covers(g, r) ==
  /\ g \in Grants
  /\ Signed(g)
  /\ issued[g].plan = PlanOf(r)
  /\ issued[g].at <= req[r].instant + Skew
  /\ req[r].instant < issued[g].expires

(* A request that holds a grant consumed it, and it covers the request.    *)
GrantInv ==
  \A r \in Requests :
    /\ req[r].pc = "consume" => Covers(TokenOf(r), r)
    /\ req[r].pc \in PreGrantPcs => req[r].auth = NoGrant
    /\ req[r].auth # NoGrant => Covers(req[r].auth, r) /\ req[r].auth \in burnt

(* What is on record before a source name may be removed.                  *)
RecordInv ==
  \A r \in Requests :
    /\ req[r].pc \in BusyPcs \ {"write"} => row[r] # "none"
    /\ req[r].pc \in IntentPcs \cup {"intent"} => req[r].auth # NoGrant
    /\ req[r].pc \in IntentPcs => req[r].intent
    /\ req[r].pc \in EarlyPcs \cup GatePcs => req[r].result = "pending"

(* What stays true of a request that removed its source name.              *)
MovesInv ==
  \A r \in moves :
    /\ req[r].pc \in MovedPcs /\ req[r].call \in Calls
    /\ req[r].auth # NoGrant /\ req[r].intent /\ row[r] # "none"
    /\ req[r].result \in {"pending", "applied"}

(* Reviews never change, and stamps only grow past them: the reviewed file *)
(* of a plan that was found fresh keeps its name or changes its stamp, and *)
(* it has changed it once the plan was linked.                             *)
Untouched(p) == stamp[review[p].ino] >= review[p].stamp
Touched(p) == stamp[review[p].ino] > review[p].stamp
OnTrack(r) ==
  /\ req[r].pc \in MovingPcs \/ r \in moves => review[PlanOf(r)] \in Fingerprint
  /\ req[r].pc \in PreLinkPcs => names[Src(r)] = Reviewed(r) \/ Touched(PlanOf(r))
  /\ req[r].pc \in MovingPcs \ PreLinkPcs \/ r \in moves => Touched(PlanOf(r))
StampInv ==
  /\ \A p \in Plans : st[p] \in {"unused", "inserted"} => review[p] = NoReview
  /\ \A p \in Plans : review[p] \in Fingerprint => Untouched(p)
  /\ \A r \in Requests : OnTrack(r)

(* A request on its way to a move is the first one for its plan.           *)
OnceInv ==
  \A r \in moves, q \in Requests :
    q # r /\ (req[q].pc \in MovingPcs \/ q \in moves) => PlanOf(q) # PlanOf(r)

GateInv == LockInv /\ GrantInv /\ GrantsSingleUse /\ RecordInv /\ MovesInv /\ StampInv /\ OnceInv
-----------------------------------------------------------------------------
(* What a step of request r does to its own record, to the lock, the       *)
(* ledger, the decision log and the moves made.                            *)

LockStep(r) ==
  \/ req[r].pc \notin GatePcs /\ req'[r].pc \notin GatePcs /\ lock' = lock
  \/ req[r].pc \notin GatePcs /\ req'[r].pc \in GatePcs /\ lock = NoRequest /\ lock' = r
  \/ req[r].pc \in GatePcs /\ req'[r].pc \in GatePcs /\ lock' = lock
  \/ req[r].pc \in GatePcs /\ req'[r].pc \notin GatePcs /\ lock' = NoRequest

GrantStep(r) ==
  /\ issued' = issued
  /\ req[r].pc = "verify" \/ req'[r].instant = req[r].instant
  /\ req'[r].pc = "consume" => Admits(TokenOf(r), PlanOf(r), req'[r].instant)
  /\ \/ /\ req'[r].auth = req[r].auth /\ burnt' = burnt
        /\ req'[r].pc \in PreGrantPcs => req[r].pc \in PreGrantPcs
        /\ req'[r].pc \in IntentPcs => req[r].pc \in IntentPcs \cup {"intent"}
        /\ req'[r].pc # "intent"
     \/ /\ req[r].pc = "consume" /\ req'[r].pc = "intent"
        /\ req'[r].auth = TokenOf(r)
        /\ TokenOf(r) \in Grants \ burnt
        /\ burnt' = burnt \cup {TokenOf(r)}

RecordStep(r) ==
  /\ req'[r].pc # "write"
  /\ req[r].pc = "write" /\ req'[r].pc \in BusyPcs => row'[r] # "none"
  /\ \A q \in Requests : row[q] # "none" => row'[q] # "none"
  /\ req[r].intent => req'[r].intent
  /\ req'[r].pc \in IntentPcs => req[r].pc \in IntentPcs \/ req'[r].intent
  /\ req'[r].pc \in EarlyPcs \cup GatePcs =>
       req[r].pc \in EarlyPcs \cup GatePcs /\ req'[r].result = req[r].result

MoveStep(r) ==
  /\ req'[r].pc \in MovingPcs => req[r].pc \in MovingPcs \/ Fresh(PlanOf(r))
  /\ \/ req[r].pc \notin MovedPcs /\ req'[r].pc # "mark"
     \/ req[r].pc = "unlink" /\ req'[r].pc = "mark"
     \/ req[r].pc \in MovedPcs /\ req'[r].pc \in MovedPcs /\
        req'[r].result \in {req[r].result, "applied"}
  /\ \/ moves' = moves
     \/ req[r].pc = "unlink" /\ req'[r].pc = "mark" /\ moves' = moves \cup {r}

(* Every statement of a request obeys these four descriptions.             *)
LEMMA ServeSteps ==
  ASSUME RequestsOK, SharedOK, NEW r \in Requests, Serve(r)
  PROVE  LockStep(r) /\ GrantStep(r) /\ RecordStep(r) /\ MoveStep(r)
<1> DEFINE Steps == LockStep(r) /\ GrantStep(r) /\ RecordStep(r) /\ MoveStep(r)
<1>0. req \in [Requests -> Request] /\ lock \in Requests \cup {NoRequest}
  BY DEF RequestsOK, SharedOK
<1> USE <1>0 DEF At, Request, BusyPcs, GatePcs, PreGrantPcs, IntentPcs, EarlyPcs, PreLinkPcs,
    MovingPcs, MovedPcs, LockStep, GrantStep, RecordStep, MoveStep, ledgerVars, planVars, localVars,
    nonFileVars, afterVars
<1>1. CASE LogWrite(r)
  BY <1>1, SMTT(60) DEF LogWrite, Goto, Finish, SharedOK
<1>2. CASE RecordDecision(r)
  BY <1>2, SMTT(60) DEF RecordDecision, Goto
<1>3. CASE Acquire(r)
  BY <1>3, SMTT(60) DEF Acquire, Goto
<1>4. CASE Authorize(r)
  BY <1>4, SMTT(60) DEF Authorize, Goto, Raise
<1>5. CASE Verify(r)
  BY <1>5, SMTT(60) DEF Verify, Raise, TokenOf, PlanOf
<1>6. CASE Consume(r)
  BY <1>6, SMTT(60) DEF Consume, Raise, Unspent, Burn, RequestsOK
<1>7. CASE AuditIntent(r)
  BY <1>7, SMTT(60) DEF AuditIntent, Raise
<1>8. CASE MakeDirectory(r)
  BY <1>8, SMTT(60) DEF MakeDirectory, Goto
<1>9. CASE Link(r)
  BY <1>9, SMTT(60) DEF Link, Raise
<1>10. CASE CheckDst(r) \/ CheckSrc(r)
  BY <1>10, SMTT(60) DEF CheckDst, CheckSrc, Goto, Undo
<1>11. CASE Unlink(r)
  BY <1>11, SMTT(60) DEF Unlink, Goto, Undo
<1>12. CASE Rollback(r)
  BY <1>12, SMTT(60) DEF Rollback, Goto, Raise
<1>13. CASE MarkApplied(r)
  BY <1>13, SMTT(60) DEF MarkApplied, Goto
<1>14. CASE AuditApplied(r)
  BY <1>14, SMTT(60) DEF AuditApplied, Finish
<1>15. CASE AuditRejected(r)
  BY <1>15, SMTT(60) DEF AuditRejected, Finish
<1>16. CASE LogUpdate(r)
  BY <1>16, SMTT(60) DEF LogUpdate, Finish, SameDecision, Results
<1>17. Steps
  BY <1>1, <1>2, <1>3, <1>4, <1>5, <1>6, <1>7, <1>8, <1>9, <1>10, <1>11, <1>12, <1>13,
     <1>14, <1>15, <1>16, Zenon DEF Serve, Gate
<1> QED
  BY <1>17
(* What the arrival of a request and a crash do to the records.            *)
LEMMA DecideFrame ==
  ASSUME RequestsOK, NEW r \in Requests, NEW c \in Calls, Decide(r, c)
  PROVE  /\ req[r].pc = "new" /\ req'[r].pc \in {"write", "done"} /\ req'[r].call = c
         /\ req'[r].auth = req[r].auth /\ req'[r].instant = req[r].instant
         /\ req'[r].intent = req[r].intent /\ req'[r].result = req[r].result
         /\ \A q \in Requests : q # r => req'[q] = req[q]
         /\ UNCHANGED localVars
  BY DEF RequestsOK, Request, Decide, At

(* A crash only ends the requests in flight.                               *)
LEMMA CrashFrame ==
  ASSUME RequestsOK, Crash, NEW r \in Requests
  PROVE  /\ req'[r].pc = IF req[r].pc \in BusyPcs THEN "lost" ELSE req[r].pc
         /\ req'[r].call = req[r].call
         /\ req'[r].auth = req[r].auth /\ req'[r].instant = req[r].instant
         /\ req'[r].intent = req[r].intent /\ req'[r].result = req[r].result
  BY DEF RequestsOK, Request, Crash

(* The remaining actions leave the requests, the lock and the logs alone.  *)
Outside ==
  \/ \E p \in Plans : ProposeInsert(p) \/ RegisterReview(p)
  \/ \E p \in Plans, g \in Grants : SignReview(p, g)
  \/ Environment
  \/ UNCHANGED vars

(* A step is a request's, an arrival, a crash, or none of them.            *)
LEMMA StepKinds ==
  ASSUME [Next]_vars
  PROVE  \/ \E r \in Requests : Serve(r)
         \/ \E r \in Requests, c \in Calls : Decide(r, c)
         \/ Crash
         \/ Outside
  BY DEF Next, Outside, Idle

(* None of the actions outside changes a signature once it was given.      *)
LEMMA OutsideFrame ==
  ASSUME RequestsOK, SharedOK, Outside
  PROVE  /\ UNCHANGED <<req, lock, row, moves, burnt>>
         /\ \A g \in Grants : Signed(g) => issued'[g] = issued[g]
<1>1. ASSUME NEW p \in Plans, ProposeInsert(p) \/ RegisterReview(p)
      PROVE  UNCHANGED <<req, lock, row, moves, burnt, issued>>
  BY <1>1 DEF ProposeInsert, RegisterReview, ledgerVars
<1>2. ASSUME NEW p \in Plans, NEW g \in Grants, SignReview(p, g)
      PROVE  /\ UNCHANGED <<req, lock, row, moves, burnt>>
             /\ \A h \in Grants : Signed(h) => issued'[h] = issued[h]
  BY <1>2 DEF SignReview, Sign, Signed, SharedOK, ApprovalsTypeOK
<1>3. CASE Environment
  BY <1>3 DEF Environment, serverVars, ledgerVars, Tick
<1>4. CASE UNCHANGED vars
  BY <1>4 DEF vars
<1> QED
  BY <1>1, <1>2, <1>3, <1>4 DEF Outside

-----------------------------------------------------------------------------
(* The invariant is inductive, one part after the other.                   *)

(* The mutation lock: statements of apply_plan run for its holder only.    *)
LEMMA LockNext ==
  ASSUME RequestsOK, SharedOK, LockInv, [Next]_vars
  PROVE  LockInv'
<1> USE DEF LockInv
<1>1. ASSUME NEW r \in Requests, Serve(r)
      PROVE  LockInv'
  <2>1. LockStep(r)
    BY <1>1, ServeSteps
  <2>2. \A q \in Requests : q # r => req'[q] = req[q]
    BY <1>1, ServeFrame
  <2> QED
    BY <2>1, <2>2 DEF LockStep
<1>2. ASSUME NEW r \in Requests, NEW c \in Calls, Decide(r, c)
      PROVE  LockInv'
  BY <1>2, DecideFrame DEF localVars, GatePcs
<1>3. CASE Crash
  <2>1. lock' = NoRequest
    BY <1>3 DEF Crash
  <2>2. \A r \in Requests : req'[r].pc \notin GatePcs
    BY <1>3, CrashFrame DEF GatePcs, BusyPcs
  <2> QED
    BY <2>1, <2>2
<1>4. CASE Outside
  BY <1>4, OutsideFrame
<1> QED
  BY <1>1, <1>2, <1>3, <1>4, StepKinds

(* Grants: what a request consumed stays signed, valid at its instant and  *)
(* in the ledger.                                                          *)
LEMMA GrantNext ==
  ASSUME RequestsOK, SharedOK, GrantInv, [Next]_vars
  PROVE  GrantInv'
<1> USE DEF GrantInv
<1>1. ASSUME NEW r \in Requests, Serve(r), NEW q \in Requests
      PROVE  /\ req'[q].pc = "consume" => Covers(TokenOf(q), q)'
             /\ req'[q].pc \in PreGrantPcs => req'[q].auth = NoGrant
             /\ req'[q].auth # NoGrant => Covers(req[q].auth, q)' /\ req'[q].auth \in burnt'
  <2>1. GrantStep(r)
    BY <1>1, ServeSteps
  <2>2. CASE q # r
    <3>1. req'[q] = req[q]
      BY <1>1, <2>2, ServeFrame
    <3>2. issued' = issued /\ burnt \subseteq burnt'
      BY <2>1 DEF GrantStep
    <3> QED
      BY <3>1, <3>2 DEF Covers, Signed, TokenOf, PlanOf
  <2>3. CASE q = r
    <3>1. req'[r].call = req[r].call /\ issued' = issued
      BY <1>1, <2>1, ServeFrame DEF GrantStep
    <3>2. ASSUME req'[r].pc = "consume"
          PROVE  Covers(TokenOf(r), r)'
      <4>1. Admits(TokenOf(r), PlanOf(r), req'[r].instant)
        BY <2>1, <3>2 DEF GrantStep
      <4>2. /\ Signed(TokenOf(r)) /\ issued[TokenOf(r)].plan = PlanOf(r)
            /\ issued[TokenOf(r)].at <= req'[r].instant + Skew
            /\ req'[r].instant < issued[TokenOf(r)].expires
        BY <4>1 DEF Admits
      <4>3. TokenOf(r) \in Grants
        <5>1. req[r].pc = "verify"
          BY <1>1, <3>2, ServeFrame
        <5> QED
          BY <5>1 DEF RequestsOK
      <4> QED
        BY <3>1, <4>2, <4>3 DEF Covers, Signed, TokenOf, PlanOf
    <3>3. req'[r].pc \in PreGrantPcs => req'[r].auth = NoGrant
      BY <2>1 DEF GrantStep, PreGrantPcs
    <3>4. ASSUME req'[r].auth # NoGrant
          PROVE  Covers(req[r].auth, r)' /\ req'[r].auth \in burnt'
      <4>1. CASE req'[r].auth = req[r].auth /\ burnt' = burnt
        <5>1. Covers(req[r].auth, r) /\ req[r].pc # "verify"
          BY <3>4, <4>1 DEF PreGrantPcs
        <5> QED
          BY <2>1, <3>1, <3>4, <4>1, <5>1 DEF GrantStep, Covers, Signed, PlanOf
      <4>2. CASE /\ req[r].pc = "consume" /\ req'[r].auth = TokenOf(r)
                 /\ burnt' = burnt \cup {TokenOf(r)}
        <5>1. Covers(TokenOf(r), r) /\ req'[r].instant = req[r].instant
          BY <2>1, <4>2 DEF GrantStep
        <5> QED
          BY <3>1, <4>2, <5>1 DEF Covers, Signed, PlanOf
      <4> QED
        BY <2>1, <4>1, <4>2 DEF GrantStep
    <3> QED
      BY <2>3, <3>2, <3>3, <3>4
  <2> QED
    BY <2>2, <2>3
<1>2. ASSUME NEW r \in Requests, NEW c \in Calls, Decide(r, c), NEW q \in Requests
      PROVE  /\ req'[q].pc = "consume" => Covers(TokenOf(q), q)'
             /\ req'[q].pc \in PreGrantPcs => req'[q].auth = NoGrant
             /\ req'[q].auth # NoGrant => Covers(req[q].auth, q)' /\ req'[q].auth \in burnt'
  BY <1>2, DecideFrame DEF localVars, ledgerVars, Covers, Signed, TokenOf, PlanOf, PreGrantPcs
<1>3. ASSUME Crash, NEW q \in Requests
      PROVE  /\ req'[q].pc = "consume" => Covers(TokenOf(q), q)'
             /\ req'[q].pc \in PreGrantPcs => req'[q].auth = NoGrant
             /\ req'[q].auth # NoGrant => Covers(req[q].auth, q)' /\ req'[q].auth \in burnt'
  <2>1. issued' = issued /\ burnt' = burnt
    BY <1>3 DEF Crash, ledgerVars
  <2> QED
    BY <1>3, <2>1, CrashFrame DEF Covers, Signed, TokenOf, PlanOf, PreGrantPcs, BusyPcs, GatePcs
<1>4. CASE Outside
  BY <1>4, OutsideFrame DEF Covers, Signed, TokenOf, PlanOf
<1> QED
  BY <1>1, <1>2, <1>3, <1>4, StepKinds

(* Grants: the ledger's primary key keeps two requests from one grant.     *)
LEMMA SingleUseNext ==
  ASSUME RequestsOK, SharedOK, GrantInv, GrantsSingleUse, [Next]_vars
  PROVE  GrantsSingleUse'
<1> USE DEF GrantsSingleUse
<1>1. ASSUME NEW r \in Requests, Serve(r)
      PROVE  GrantsSingleUse'
  BY <1>1, ServeSteps, ServeFrame DEF GrantStep, GrantInv
<1>2. ASSUME NEW r \in Requests, NEW c \in Calls, Decide(r, c)
      PROVE  GrantsSingleUse'
  BY <1>2, DecideFrame
<1>3. CASE Crash
  BY <1>3, CrashFrame
<1>4. CASE Outside
  BY <1>4, OutsideFrame
<1> QED
  BY <1>1, <1>2, <1>3, <1>4, StepKinds

(* Records: the decision row and the "authorized" row precede the files.   *)
LEMMA RecordNext ==
  ASSUME RequestsOK, SharedOK, RecordInv, [Next]_vars
  PROVE  RecordInv'
<1> USE DEF RecordInv
<1>1. ASSUME NEW r \in Requests, Serve(r)
      PROVE  RecordInv'
  <2>1. GrantStep(r) /\ RecordStep(r)
    BY <1>1, ServeSteps
  <2>2. req[r].pc \in BusyPcs /\ \A q \in Requests : q # r => req'[q] = req[q]
    BY <1>1, ServeFrame
  <2>3. ASSUME NEW q \in Requests
        PROVE  /\ req'[q].pc \in BusyPcs \ {"write"} => row'[q] # "none"
               /\ req'[q].pc \in EarlyPcs \cup GatePcs => req'[q].result = "pending"
    BY <2>1, <2>2 DEF RecordStep
  <2>4. ASSUME NEW q \in Requests
        PROVE  /\ req'[q].pc \in IntentPcs \cup {"intent"} => req'[q].auth # NoGrant
               /\ req'[q].pc \in IntentPcs => req'[q].intent
    BY <2>1, <2>2 DEF GrantStep, RecordStep
  <2> QED
    BY <2>3, <2>4
<1>2. ASSUME NEW r \in Requests, NEW c \in Calls, Decide(r, c)
      PROVE  RecordInv'
  BY <1>2, DecideFrame DEF localVars, IntentPcs, EarlyPcs, GatePcs, BusyPcs
<1>3. CASE Crash
  BY <1>3, CrashFrame DEF Crash, IntentPcs, EarlyPcs, GatePcs, BusyPcs
<1>4. CASE Outside
  BY <1>4, OutsideFrame
<1> QED
  BY <1>1, <1>2, <1>3, <1>4, StepKinds

(* Moves: what a request had when it removed its source name, it keeps.    *)
LEMMA MovesNext ==
  ASSUME RequestsOK, SharedOK, RecordInv, MovesInv, [Next]_vars
  PROVE  MovesInv'
<1> USE DEF MovesInv
<1>1. ASSUME NEW r \in Requests, Serve(r)
      PROVE  MovesInv'
  <2>1. GrantStep(r) /\ RecordStep(r) /\ MoveStep(r)
    BY <1>1, ServeSteps
  <2>2. req[r].pc \in BusyPcs /\ \A q \in Requests : q # r => req'[q] = req[q]
    BY <1>1, ServeFrame
  <2>3. CASE moves' = moves
    <3>1. ASSUME NEW q \in moves
          PROVE  /\ req'[q].pc \in MovedPcs /\ req'[q].call \in Calls
                 /\ req'[q].auth # NoGrant /\ req'[q].intent /\ row'[q] # "none"
                 /\ req'[q].result \in {"pending", "applied"}
      <4>1. CASE q # r
        BY <2>1, <2>2, <4>1 DEF RecordStep, SharedOK
      <4>2. CASE q = r
        BY <1>1, <2>1, <4>2, ServeFrame DEF GrantStep, RecordStep, MoveStep, MovedPcs
      <4> QED BY <4>1, <4>2
    <3> QED BY <2>3, <3>1
  <2>4. CASE req[r].pc = "unlink" /\ req'[r].pc = "mark" /\ moves' = moves \cup {r}
    <3>1. /\ req'[r].auth # NoGrant /\ req'[r].intent /\ row'[r] # "none"
          /\ req'[r].result = "pending" /\ req'[r].call \in Calls
      BY <1>1, <2>1, <2>4, ServeFrame DEF GrantStep, RecordStep, RecordInv, RequestsOK, IntentPcs, BusyPcs, GatePcs
    <3>2. \A q \in moves \ {r} : row'[q] # "none"
      BY <2>1 DEF RecordStep, SharedOK
    <3> QED
      BY <2>2, <2>4, <3>1, <3>2 DEF MovedPcs, SharedOK
  <2> QED
    BY <2>1, <2>3, <2>4 DEF MoveStep
<1>2. ASSUME NEW r \in Requests, NEW c \in Calls, Decide(r, c)
      PROVE  MovesInv'
  BY <1>2, DecideFrame DEF localVars, MovedPcs, SharedOK
<1>3. CASE Crash
  BY <1>3, CrashFrame DEF Crash, MovedPcs, SharedOK
<1>4. CASE Outside
  BY <1>4, OutsideFrame
<1> QED
  BY <1>1, <1>2, <1>3, <1>4, StepKinds
-----------------------------------------------------------------------------
(* Stamps only grow, and a name never lets go of a file silently.          *)

StampsAdvance ==
  /\ \A i \in Inodes : stamp'[i] >= stamp[i]
  /\ \A n \in Names : Exists(n) /\ names'[n] # names[n] => stamp'[names[n]] > stamp[names[n]]

(* Every operation on the directory advances stamps in this sense.         *)
LEMMA FilesAdvance ==
  ASSUME SecureFilesTypeOK, NEW n \in Names, NEW m \in Names,
         \/ UNCHANGED fileVars \/ MakeParent(n) \/ LinkName(n, m) \/ UnlinkName(n)
         \/ EditInPlace(n) \/ SaveOver(n) \/ Remove(n) \/ RenameTo(n, m)
  PROVE  StampsAdvance
<1> USE DEF SecureFilesTypeOK, StampsAdvance, Exists
<1>1. CASE UNCHANGED fileVars \/ MakeParent(n)
  BY <1>1 DEF fileVars, MakeParent
<1>2. CASE LinkName(n, m)
  BY <1>2 DEF LinkName
<1>3. CASE UnlinkName(n) \/ Remove(n)
  BY <1>3 DEF UnlinkName, Remove
<1>4. CASE EditInPlace(n)
  BY <1>4 DEF EditInPlace
<1>5. CASE SaveOver(n)
  BY <1>5 DEF SaveOver
<1>6. CASE RenameTo(n, m)
  BY <1>6 DEF RenameTo
<1> QED
  BY <1>1, <1>2, <1>3, <1>4, <1>5, <1>6

(* What a request's step does to the files: nothing, unless it is one of   *)
(* the four statements of move_file that call the file system.             *)
FileStep(r) ==
  \/ UNCHANGED fileVars
  \/ MakeParent(Dst(r))
  \/ req[r].pc = "link" /\ LinkName(Src(r), Dst(r))
  \/ req[r].pc = "unlink" /\ UnlinkName(Src(r))
  \/ UnlinkName(Dst(r))

(* A request is on its way to a move only through a fresh plan, and past   *)
(* the link only by linking.                                               *)
LEMMA ServeFiles ==
  ASSUME RequestsOK, NEW r \in Requests, Serve(r)
  PROVE  /\ FileStep(r)
         /\ UNCHANGED <<st, review>>
         /\ req'[r].pc \in PreLinkPcs => req[r].pc \in PreLinkPcs \/ Fresh(PlanOf(r))
         /\ req'[r].pc \in MovingPcs \ PreLinkPcs =>
              \/ req[r].pc \in MovingPcs \ PreLinkPcs
              \/ req[r].pc = "link" /\ LinkName(Src(r), Dst(r))
<1> DEFINE Steps ==
      /\ FileStep(r)
      /\ UNCHANGED <<st, review>>
      /\ req'[r].pc \in PreLinkPcs => req[r].pc \in PreLinkPcs \/ Fresh(PlanOf(r))
      /\ req'[r].pc \in MovingPcs \ PreLinkPcs =>
           \/ req[r].pc \in MovingPcs \ PreLinkPcs
           \/ req[r].pc = "link" /\ LinkName(Src(r), Dst(r))
<1>0. req \in [Requests -> Request]
  BY DEF RequestsOK
<1> USE <1>0 DEF At, Request, PreLinkPcs, MovingPcs, FileStep, planVars, localVars, nonFileVars, afterVars
<1>1. CASE LogWrite(r) \/ RecordDecision(r) \/ Acquire(r)
  BY <1>1, SMTT(60) DEF LogWrite, RecordDecision, Acquire, Goto, Finish
<1>2. CASE Authorize(r)
  BY <1>2, SMTT(60) DEF Authorize, Goto, Raise
<1>3. CASE Verify(r) \/ Consume(r) \/ AuditIntent(r)
  BY <1>3, SMTT(60) DEF Verify, Consume, AuditIntent, Raise
<1>4. CASE MakeDirectory(r)
  BY <1>4, SMTT(60) DEF MakeDirectory, Goto
<1>5. CASE Link(r)
  BY <1>5, SMTT(60) DEF Link, Raise
<1>6. CASE CheckDst(r) \/ CheckSrc(r)
  BY <1>6, SMTT(60) DEF CheckDst, CheckSrc, Goto, Undo
<1>7. CASE Unlink(r)
  BY <1>7, SMTT(60) DEF Unlink, Goto, Undo
<1>8. CASE Rollback(r)
  BY <1>8, SMTT(60) DEF Rollback, Goto, Raise
<1>9. CASE MarkApplied(r)
  BY <1>9, SMTT(60) DEF MarkApplied, Goto
<1>10. CASE AuditApplied(r) \/ AuditRejected(r) \/ LogUpdate(r)
  BY <1>10, SMTT(60) DEF AuditApplied, AuditRejected, LogUpdate, Finish
<1>11. Steps
  BY <1>1, <1>2, <1>3, <1>4, <1>5, <1>6, <1>7, <1>8, <1>9, <1>10, Zenon DEF Serve, Gate
<1> QED
  BY <1>11

(* Every step of the system advances stamps.                               *)
LEMMA StampsNext ==
  ASSUME RequestsOK, SharedOK, [Next]_vars
  PROVE  StampsAdvance
<1>0. SecureFilesTypeOK
  BY DEF SharedOK
<1>1. UNCHANGED fileVars => StampsAdvance
  BY <1>0 DEF fileVars, SecureFilesTypeOK, StampsAdvance
<1>2. ASSUME NEW r \in Requests, Serve(r)
      PROVE  StampsAdvance
  <2>1. PlanOf(r) \in Plans /\ Src(r) \in Names /\ Dst(r) \in Names
    BY <1>2, ServeFrame DEF RequestsOK, PlanOf, Src, Dst, Calls
  <2>2. FileStep(r)
    BY <1>2, ServeFiles
  <2> QED
    BY <1>0, <1>1, <2>1, <2>2, FilesAdvance DEF FileStep
<1>3. ASSUME NEW r \in Requests, NEW c \in Calls, Decide(r, c)
      PROVE  StampsAdvance
  BY <1>1, <1>3 DEF Decide, localVars
<1>4. CASE Crash
  BY <1>1, <1>4 DEF Crash
<1>5. CASE Environment
  BY <1>0, <1>1, <1>5, FilesAdvance DEF Environment, OtherPrograms
<1>6. CASE Outside
  BY <1>1, <1>5, <1>6 DEF Outside, ProposeInsert, RegisterReview, SignReview, vars, fileVars
<1> QED
  BY <1>2, <1>3, <1>4, <1>6, StepKinds

(* A review, once registered, is final; a new one describes the present.   *)
LEMMA ReviewsFinal ==
  ASSUME RequestsOK, SharedOK, StampInv, [Next]_vars, NEW p \in Plans
  PROVE  /\ review[p] \in Fingerprint => review'[p] = review[p]
         /\ review'[p] \in Fingerprint /\ review'[p] # review[p] =>
              UNCHANGED fileVars /\ review'[p] = FingerprintOf(SrcOf[p], DstOf[p])
         /\ st'[p] \in {"unused", "inserted"} => review'[p] = NoReview
<1> USE DEF StampInv
<1>1. ASSUME NEW r \in Requests, Serve(r)
      PROVE  UNCHANGED <<st, review>>
  BY <1>1, ServeFiles
<1>2. ASSUME NEW r \in Requests, NEW c \in Calls, Decide(r, c)
      PROVE  UNCHANGED <<st, review>>
  BY <1>2 DEF Decide, localVars, planVars
<1>3. CASE Crash
  BY <1>3 DEF Crash, SharedOK
<1>4. CASE Environment \/ UNCHANGED vars
  BY <1>4 DEF Environment, serverVars, planVars, vars
<1>5. ASSUME NEW q \in Plans, NEW g \in Grants, SignReview(q, g)
      PROVE  UNCHANGED <<st, review>>
  BY <1>5 DEF SignReview, planVars
<1>6. ASSUME NEW q \in Plans, ProposeInsert(q)
      PROVE  review' = review /\ (st'[p] = st[p] \/ st[p] = "unused")
  BY <1>6 DEF ProposeInsert, SharedOK
<1>7. ASSUME NEW q \in Plans, RegisterReview(q)
      PROVE  \/ review'[p] = review[p] /\ st'[p] = st[p]
             \/ review'[p] = review[p] /\ st'[p] = "unreviewed"
             \/ /\ st[p] = "inserted" /\ st'[p] = "reviewed"
                /\ UNCHANGED fileVars
                /\ review'[p] = FingerprintOf(SrcOf[p], DstOf[p])
  BY <1>7 DEF RegisterReview, SharedOK
<1> QED
  BY <1>1, <1>2, <1>3, <1>4, <1>5, <1>6, <1>7, StepKinds DEF Outside
(* Stamps: a plan found fresh keeps its file or becomes stale, and every   *)
(* plan that was linked or moved is stale.                                 *)
LEMMA StampNext ==
  ASSUME RequestsOK, SharedOK, MovesInv, StampInv, [Next]_vars
  PROVE  StampInv'
<1>0. /\ StampsAdvance
      /\ stamp \in [Inodes -> Nat] /\ stamp' \in [Inodes -> Nat]
      /\ names \in [Names -> Inodes \cup {NoInode}]
  BY StampsNext, TypeNext DEF SharedOK, SecureFilesTypeOK
<1>1. \A p \in Plans : st'[p] \in {"unused", "inserted"} => review'[p] = NoReview
  BY ReviewsFinal
<1>2. ASSUME NEW p \in Plans, review'[p] \in Fingerprint
      PROVE  stamp'[review'[p].ino] >= review'[p].stamp
  <2>1. CASE review'[p] = review[p]
    BY <1>0, <1>2, <2>1 DEF StampInv, Untouched, StampsAdvance, Fingerprint
  <2>2. CASE review'[p] # review[p]
    <3>1. UNCHANGED fileVars /\ review'[p] = FingerprintOf(SrcOf[p], DstOf[p])
      BY <1>2, <2>2, ReviewsFinal
    <3> QED
      BY <1>0, <1>2, <3>1 DEF FingerprintOf, Fingerprint, fileVars
  <2> QED
    BY <2>1, <2>2
(* What holds of a plan under way stays true of it.                        *)
<1>3. ASSUME NEW p \in Plans, review[p] \in Fingerprint
      PROVE  /\ review'[p] = review[p]
             /\ Touched(p) => Touched(p)'
             /\ names[SrcOf[p]] = review[p].ino => names'[SrcOf[p]] = review[p].ino \/ Touched(p)'
  <2>1. review'[p] = review[p] /\ review[p].ino \in Inodes /\ review[p].stamp \in Nat
        /\ SrcOf[p] \in Names /\ Untouched(p)
    BY <1>3, ReviewsFinal DEF Fingerprint, StampInv
  <2> QED
    BY <1>0, <2>1 DEF StampsAdvance, Touched, Untouched, Exists
<1>4. ASSUME NEW q \in Requests, req[q].pc \in BusyPcs \/ q \in moves
      PROVE  PlanOf(q) \in Plans
  BY <1>4 DEF RequestsOK, MovesInv, PlanOf, Calls
<1>5. MovingPcs \subseteq BusyPcs /\ PreLinkPcs \subseteq MovingPcs
  BY DEF MovingPcs, PreLinkPcs, BusyPcs, GatePcs
(* A request that made no progress of its own.                             *)
<1>6. ASSUME NEW q \in Requests, q \in moves' => q \in moves,
             req'[q].call = req[q].call,
             req'[q].pc = req[q].pc \/ req'[q].pc \notin MovingPcs
      PROVE  OnTrack(q)'
  <2>1. CASE req[q].pc \in BusyPcs \/ q \in moves
    <3>1. PlanOf(q) \in Plans /\ PlanOf(q)' = PlanOf(q) /\ OnTrack(q)
      BY <1>4, <1>6, <2>1 DEF PlanOf, StampInv
    <3> QED
      BY <1>3, <1>5, <1>6, <3>1 DEF OnTrack, Src, Reviewed
  <2>2. CASE req[q].pc \notin BusyPcs /\ q \notin moves
    BY <1>5, <1>6, <2>2 DEF OnTrack
  <2> QED
    BY <2>1, <2>2
<1>7. ASSUME NEW r \in Requests, Serve(r)
      PROVE  OnTrack(r)'
  <2>1. PICK p \in Plans : PlanOf(r) = p /\ PlanOf(r)' = p /\ OnTrack(r)
    BY <1>4, <1>7, ServeFrame DEF StampInv, PlanOf
  <2>2. SrcOf[p] \in Names /\ DstOf[p] \in Names /\ Src(r) = SrcOf[p] /\ Src(r)' = SrcOf[p]
        /\ Reviewed(r) = review[p].ino /\ Reviewed(r)' = review'[p].ino
    BY <2>1 DEF Src, Reviewed
  <2>3. ASSUME Fresh(p)
        PROVE  review[p] \in Fingerprint /\ names[SrcOf[p]] = review[p].ino
    <3>1. Exists(SrcOf[p]) /\ review[p] = FingerprintOf(SrcOf[p], DstOf[p])
      BY <2>3 DEF Fresh
    <3>2. FingerprintOf(SrcOf[p], DstOf[p]) \in Fingerprint
      BY <1>0, <2>2, <3>1 DEF Exists, FingerprintOf, Fingerprint
    <3>3. FingerprintOf(SrcOf[p], DstOf[p]).ino = names[SrcOf[p]]
      BY DEF FingerprintOf
    <3> QED BY <3>1, <3>2, <3>3
  <2>4. r \in moves' => r \in moves \/ req[r].pc = "unlink"
    BY <1>7, ServeSteps DEF MoveStep
  <2>5. req'[r].pc \in MovingPcs \/ r \in moves' => review[p] \in Fingerprint
    <3>1. req'[r].pc \in MovingPcs => req[r].pc \in MovingPcs \/ Fresh(p)
      BY <1>7, <2>1, ServeSteps DEF MoveStep
    <3> QED
      BY <2>1, <2>3, <2>4, <3>1 DEF OnTrack, MovingPcs
  <2>6. ASSUME req'[r].pc \in PreLinkPcs
        PROVE  names'[SrcOf[p]] = review[p].ino \/ Touched(p)'
    <3>1. names[SrcOf[p]] = review[p].ino \/ Touched(p)
      BY <1>7, <2>1, <2>2, <2>3, <2>6, ServeFiles DEF OnTrack
    <3> QED
      BY <1>3, <1>5, <2>1, <2>5, <2>6, <3>1
  <2>7. ASSUME req'[r].pc \in MovingPcs \ PreLinkPcs \/ r \in moves'
        PROVE  Touched(p)'
    <3>1. review[p] \in Fingerprint /\ review'[p] = review[p] /\ (Touched(p) => Touched(p)')
      BY <1>3, <2>1, <2>5, <2>7
    <3>2. CASE req[r].pc \in MovingPcs \ PreLinkPcs \/ r \in moves
      BY <2>1, <3>1, <3>2 DEF OnTrack
    <3>3. CASE req[r].pc = "link" /\ LinkName(Src(r), Dst(r))
      <4>1. names[SrcOf[p]] = review[p].ino \/ Touched(p)
        BY <2>1, <2>2, <3>3 DEF OnTrack, PreLinkPcs
      <4>2. stamp'[names[SrcOf[p]]] = stamp[names[SrcOf[p]]] + 1 /\ names[SrcOf[p]] \in Inodes
        BY <1>0, <2>2, <3>3 DEF LinkName, Exists
      <4>3. Untouched(p) /\ review[p].stamp \in Nat
        BY <2>1, <3>1 DEF StampInv, Fingerprint
      <4>4. CASE names[SrcOf[p]] = review[p].ino
        <5>1. stamp[review[p].ino] \in Nat /\ stamp[review[p].ino] >= review[p].stamp
          BY <1>0, <4>2, <4>3, <4>4 DEF Untouched
        <5>2. stamp'[review[p].ino] = stamp[review[p].ino] + 1
          BY <4>2, <4>4
        <5>3. stamp'[review[p].ino] > review[p].stamp
          BY <4>3, <5>1, <5>2
        <5> QED
          BY <3>1, <5>3 DEF Touched
      <4> QED
        BY <3>1, <4>1, <4>4
    <3> QED
      BY <1>7, <2>4, <2>7, <3>2, <3>3, ServeFiles DEF MovingPcs, PreLinkPcs
  <2>8. review[p] \in Fingerprint => review'[p] = review[p]
    BY <1>3, <2>1
  <2> QED
    BY <1>5, <2>1, <2>2, <2>5, <2>6, <2>7, <2>8 DEF OnTrack
<1>8. \A q \in Requests : OnTrack(q)'
  <2>1. ASSUME NEW r \in Requests, Serve(r), NEW q \in Requests
        PROVE  OnTrack(q)'
    <3>1. CASE q = r
      BY <1>7, <2>1, <3>1
    <3>2. CASE q # r
      <4>1. req'[q] = req[q] /\ (q \in moves' => q \in moves)
        BY <2>1, <3>2, ServeFrame, ServeSteps DEF MoveStep
      <4> QED BY <1>6, <4>1
    <3> QED BY <3>1, <3>2
  <2>2. ASSUME NEW r \in Requests, NEW c \in Calls, Decide(r, c), NEW q \in Requests
        PROVE  OnTrack(q)'
    <3>1. moves' = moves
      BY <2>2 DEF Decide, localVars
    <3>2. CASE q = r
      <4>1. req[r].pc = "new" /\ req'[r].pc \in {"write", "done"}
        BY <2>2, DecideFrame
      <4>2. r \notin moves' /\ req'[r].pc \notin MovingPcs
        BY <3>1, <4>1 DEF MovesInv, MovedPcs, MovingPcs, PreLinkPcs
      <4> QED BY <1>5, <3>2, <4>2 DEF OnTrack
    <3>3. CASE q # r
      BY <1>6, <2>2, <3>1, <3>3, DecideFrame
    <3> QED BY <3>2, <3>3
  <2>3. ASSUME Crash, NEW q \in Requests
        PROVE  OnTrack(q)'
    <3>1. moves' = moves
      BY <2>3 DEF Crash
    <3>2. req'[q].call = req[q].call /\ req'[q].pc \notin BusyPcs
      BY <2>3, CrashFrame DEF BusyPcs, GatePcs
    <3> QED BY <1>5, <1>6, <3>1, <3>2
  <2>4. ASSUME Outside, NEW q \in Requests
        PROVE  OnTrack(q)'
    BY <1>6, <2>4, OutsideFrame
  <2> QED
    BY <2>1, <2>2, <2>3, <2>4, StepKinds
<1> QED
  BY <1>1, <1>2, <1>8 DEF StampInv, Untouched

(* Plans: a plan that moved is never found fresh again, and the lock keeps *)
(* two requests from being on their way at once.                           *)
LEMMA OnceNext ==
  ASSUME RequestsOK, SharedOK, LockInv, MovesInv, StampInv, OnceInv, [Next]_vars
  PROVE  OnceInv'
<1> USE DEF OnceInv
<1>0. MovingPcs \subseteq GatePcs /\ MovingPcs \subseteq BusyPcs
  BY DEF MovingPcs, PreLinkPcs, GatePcs, BusyPcs
<1>1. ASSUME NEW r \in Requests, Serve(r)
      PROVE  OnceInv'
  <2>1. MoveStep(r) /\ req'[r].call = req[r].call /\ req[r].pc \in BusyPcs
        /\ \A q \in Requests : q # r => req'[q] = req[q]
    BY <1>1, ServeSteps, ServeFrame
  <2>2. \A q \in Requests : PlanOf(q)' = PlanOf(q)
    BY <2>1 DEF PlanOf
  (* A plan that was found fresh has not moved.                            *)
  <2>3. ASSUME NEW m \in moves, Fresh(PlanOf(r))
        PROVE  PlanOf(m) # PlanOf(r)
    <3>1. m \in Requests
      BY DEF SharedOK
    <3>2. Touched(PlanOf(m))
      BY <3>1 DEF StampInv, OnTrack
    <3>3. ~Touched(PlanOf(r))
      <4>1. PlanOf(r) \in Plans
        BY <2>1 DEF RequestsOK, PlanOf, Calls
      <4>2. stamp[review[PlanOf(r)].ino] = review[PlanOf(r)].stamp /\ review[PlanOf(r)].stamp \in Nat
        BY <2>3, <4>1 DEF Fresh, FingerprintOf, Exists, SharedOK, SecureFilesTypeOK
      <4> QED BY <4>2 DEF Touched
    <3> QED BY <3>2, <3>3
  <2>4. ASSUME NEW m \in moves', NEW q \in Requests, q # m,
               req'[q].pc \in MovingPcs \/ q \in moves'
        PROVE  PlanOf(q)' # PlanOf(m)'
    <3>1. m \in Requests
      BY <2>1 DEF MoveStep, SharedOK
    <3>2. CASE m \in moves /\ (req[q].pc \in MovingPcs \/ q \in moves)
      BY <2>2, <2>4, <3>1, <3>2
    <3>3. CASE m \in moves /\ q = r /\ Fresh(PlanOf(r))
      BY <2>2, <2>3, <3>1, <3>3
    <3>4. CASE m = r /\ req[r].pc = "unlink" /\ q \in moves
      BY <2>2, <2>4, <3>4 DEF MovingPcs
    <3>5. CASE m = r /\ req[r].pc = "unlink" /\ q \notin moves
      <4>1. req[q].pc \in MovingPcs
        BY <2>1, <2>4, <3>5 DEF MoveStep
      <4>2. lock = r /\ lock = q
        BY <1>0, <3>5, <4>1 DEF LockInv, GatePcs
      <4> QED BY <2>4, <3>5, <4>2
    <3> QED
      BY <2>1, <2>4, <3>2, <3>3, <3>4, <3>5 DEF MoveStep, MovingPcs
  <2> QED
    BY <2>4
<1>2. ASSUME NEW r \in Requests, NEW c \in Calls, Decide(r, c)
      PROVE  OnceInv'
  <2>1. moves' = moves /\ r \notin moves /\ req'[r].pc \notin MovingPcs
        /\ \A q \in Requests : q # r => req'[q] = req[q]
    BY <1>2, DecideFrame DEF localVars, MovesInv, MovedPcs, MovingPcs, PreLinkPcs
  <2> QED
    BY <2>1 DEF PlanOf, SharedOK
<1>3. CASE Crash
  <2>1. moves' = moves
    BY <1>3 DEF Crash
  <2>2. \A q \in Requests : req'[q].call = req[q].call /\ req'[q].pc \notin MovingPcs
    BY <1>0, <1>3, CrashFrame DEF BusyPcs, GatePcs
  <2> QED
    BY <2>1, <2>2 DEF PlanOf, SharedOK
<1>4. CASE Outside
  BY <1>4, OutsideFrame DEF PlanOf
<1> QED
  BY <1>1, <1>2, <1>3, <1>4, StepKinds
-----------------------------------------------------------------------------
(* The theorems.                                                           *)

Inv == RequestsOK /\ SharedOK /\ GateInv

(* The gate's invariant holds at the start.                                *)
LEMMA GateInit == Init => GateInv
<1> SUFFICES ASSUME Init PROVE GateInv
  OBVIOUS
<1>1. \A r \in Requests : req[r] = NewRequest
  BY DEF Init
<1>2. lock = NoRequest /\ moves = {} /\ \A p \in Plans : review[p] = NoReview
  BY DEF Init
<1>3. \A r \in Requests : /\ req[r].pc = "new" /\ req[r].auth = NoGrant
                          /\ req[r].result = "pending"
  BY <1>1 DEF NewRequest
<1>4. LockInv
  BY <1>2, <1>3 DEF LockInv, GatePcs
<1>5. GrantInv /\ GrantsSingleUse
  BY <1>3 DEF GrantInv, GrantsSingleUse
<1>6. RecordInv
  BY <1>3 DEF RecordInv, BusyPcs, GatePcs, IntentPcs
<1>7. MovesInv /\ OnceInv
  BY <1>2 DEF MovesInv, OnceInv
<1>8. StampInv
  BY <1>2, <1>3 DEF StampInv, OnTrack, MovingPcs, PreLinkPcs
<1> QED
  BY <1>4, <1>5, <1>6, <1>7, <1>8 DEF GateInv

(* So does the whole invariant.                                            *)
LEMMA InvInit == Init => Inv
  BY TypeInit, GateInit DEF Inv

(* Every step preserves it.                                                *)
LEMMA InvNext == Inv /\ [Next]_vars => Inv'
<1> SUFFICES ASSUME RequestsOK, SharedOK, GateInv, [Next]_vars
             PROVE  RequestsOK' /\ SharedOK' /\ GateInv'
  BY DEF Inv
<1>1. RequestsOK' /\ SharedOK'
  BY TypeNext
<1>2. LockInv' /\ GrantInv' /\ GrantsSingleUse' /\ RecordInv' /\ MovesInv' /\ StampInv' /\ OnceInv'
  BY LockNext, GrantNext, SingleUseNext, RecordNext, MovesNext, StampNext, OnceNext DEF GateInv
<1> QED
  BY <1>1, <1>2 DEF GateInv

(* The inductive invariant of the gate (apply_plan and everything around   *)
(* it) holds in every reachable state.                                     *)
THEOREM InvAlways == Spec => []Inv
  BY InvInit, InvNext, PTL DEF Spec

(* No file is moved without authority: whatever the interleaving of        *)
(* requests, other programs, faults and restarts, the source name of a     *)
(* plan is removed only by a request that consumed a grant signed for that *)
(* plan and valid at the time (_authorize, consume), after the "authorized"*)
(* row and the decision row were written (_audit, DecisionLog.write).      *)
THEOREM Authority == Spec => []EveryMoveAuthorized
<1>1. Inv => EveryMoveAuthorized
  BY DEF Inv, GateInv, SharedOK, MovesInv, GrantInv, Covers, EveryMoveAuthorized
<1> QED
  BY <1>1, InvAlways, PTL

(* The grants table lets no grant be used twice, although the check of the *)
(* plan, the check of the token and the INSERT are separate statements.    *)
THEOREM SingleUse == Spec => []GrantsSingleUse
<1>1. Inv => GrantsSingleUse
  BY DEF Inv, GateInv
<1> QED
  BY <1>1, InvAlways, PTL

(* A plan moves at most once, however often it is signed and whatever      *)
(* other programs do, because every link, unlink and edit moves the file's *)
(* stamp past the review (_describe, _authorize).                          *)
THEOREM MovesOnce == Spec => []PlanMovesOnce
<1>1. Inv => PlanMovesOnce
  BY DEF Inv, GateInv, SharedOK, OnceInv, PlanMovesOnce
<1> QED
  BY <1>1, InvAlways, PTL

(* A request whose record says refused, failed or rejected moved nothing:  *)
(* no way out of apply_plan that decide reports so follows the unlink.     *)
THEOREM RefusedIsSafe == Spec => []RefusedDidNotMove
<1>1. Inv => RefusedDidNotMove
  BY DEF Inv, GateInv, MovesInv, RefusedDidNotMove
<1> QED
  BY <1>1, InvAlways, PTL

-----------------------------------------------------------------------------
(* A move is half done between its link and its unlink.                    *)
HalfPcs == {"check_dst", "check_src", "unlink", "rollback"}
BeforePcs == EarlyPcs \cup {"authorize"} \cup PreLinkPcs

(* What a step of request r does to its history, the plans' flags and the  *)
(* records.                                                                *)
TellStep(r) ==
  /\ req'[r].pc # "new"
  /\ req'[r].pc \in {"mark", "audit_applied"} => req[r].pc = "mark" \/ r \in moves'
  /\ req'[r].result = "applied" => req[r].result = "applied" \/ req[r].pc = "audit_applied"
  /\ crashes' = crashes

(* Only the statement after the unlink marks a plan as applied; the log    *)
(* gets a new row, or the result goes to the rows of the same decision.    *)
MarkStep(r) ==
  \/ req[r].pc # "mark" /\ applied' = applied
  \/ req[r].pc = "mark" /\ applied' = [applied EXCEPT ![PlanOf(r)] = TRUE]
RowStep(r) ==
  \/ row' = row
  \/ req[r].pc = "write" /\ row' = [row EXCEPT ![r] = "pending"]
  \/ row' = [q \in Requests |-> IF SameDecision(r, q) THEN req[r].result ELSE row[q]]

(* What a request links, and when it passes each statement of move_file.   *)
LinkStep(r) ==
  /\ \/ req'[r].linked = req[r].linked
     \/ req[r].pc = "link" /\ req'[r].pc = "check_dst" /\ req'[r].linked = names[Src(r)]
  /\ req'[r].pc = "check_dst" =>
       req[r].pc = "link" /\ LinkName(Src(r), Dst(r)) /\ req'[r].linked = names[Src(r)]
  /\ req'[r].pc = "check_src" => req[r].pc = "check_dst" /\ names[Dst(r)] = Reviewed(r)
  /\ req'[r].pc = "unlink" => req[r].pc = "check_src" /\ names[Src(r)] = Reviewed(r)
  /\ req'[r].pc = "rollback" => req[r].pc \in {"check_dst", "check_src", "unlink"}
  /\ req[r].pc = "rollback" => UnlinkName(Dst(r)) \/ ~Exists(Dst(r)) \/ "rollback" \in Faults
  /\ req'[r].pc \in BeforePcs => req[r].pc \in BeforePcs /\ req'[r].linked = req[r].linked
  /\ req'[r].pc \in PreLinkPcs => req[r].pc \in PreLinkPcs \cup {"authorize"}
  /\ req[r].pc = "authorize" /\ req'[r].pc \in PreLinkPcs => Fresh(PlanOf(r))
  /\ req[r].pc \in {"check_dst", "check_src"} => req'[r].pc \in HalfPcs /\ UNCHANGED fileVars
  /\ req[r].pc = "unlink" => \/ req'[r].pc = "mark" /\ UnlinkName(Src(r))
                             \/ req'[r].pc = "rollback" /\ UNCHANGED fileVars
  /\ \/ UNCHANGED <<names, edits, renamed>>
     \/ req[r].pc = "link" /\ req'[r].pc = "check_dst"
     \/ req[r].pc = "unlink" /\ UnlinkName(Src(r))
     \/ req[r].pc = "rollback" /\ UnlinkName(Dst(r))
  /\ edits' = edits /\ renamed' = renamed

(* Every statement of a request obeys TellStep: its results, the plans'    *)
(* flags and the history advance together.                                 *)
LEMMA TellSteps ==
  ASSUME RequestsOK, NEW r \in Requests, Serve(r)
  PROVE  TellStep(r)
<1> DEFINE Steps == TellStep(r)
<1>0. req \in [Requests -> Request]
  BY DEF RequestsOK
<1> USE <1>0 DEF At, Request, TellStep, ledgerVars, planVars, localVars, nonFileVars, afterVars
<1>1. CASE LogWrite(r)
  BY <1>1, SMTT(60) DEF LogWrite, Goto, Finish
<1>2. CASE RecordDecision(r) \/ Acquire(r)
  BY <1>2, SMTT(60) DEF RecordDecision, Acquire, Goto
<1>3. CASE Authorize(r) \/ Verify(r)
  BY <1>3, SMTT(60) DEF Authorize, Verify, Goto, Raise
<1>4. CASE Consume(r) \/ AuditIntent(r)
  BY <1>4, SMTT(60) DEF Consume, AuditIntent, Raise
<1>5. CASE MakeDirectory(r) \/ Link(r)
  BY <1>5, SMTT(60) DEF MakeDirectory, Link, Goto, Raise
<1>6. CASE CheckDst(r) \/ CheckSrc(r)
  BY <1>6, SMTT(60) DEF CheckDst, CheckSrc, Goto, Undo
<1>7. CASE Unlink(r) \/ Rollback(r)
  BY <1>7, SMTT(60) DEF Unlink, Rollback, Goto, Undo, Raise
<1>8. CASE MarkApplied(r)
  BY <1>8, SMTT(60) DEF MarkApplied, Goto
<1>9. CASE AuditApplied(r) \/ AuditRejected(r)
  BY <1>9, SMTT(60) DEF AuditApplied, AuditRejected, Finish
<1>10. CASE LogUpdate(r)
  BY <1>10, SMTT(60) DEF LogUpdate, Finish
<1>11. Steps
  BY <1>1, <1>2, <1>3, <1>4, <1>5, <1>6, <1>7, <1>8, <1>9, <1>10, Zenon DEF Serve, Gate
<1> QED
  BY <1>11

(* Every statement writes the flags and the decision log in one of these   *)
(* ways.                                                                   *)
LEMMA LogSteps ==
  ASSUME NEW r \in Requests, Serve(r)
  PROVE  MarkStep(r) /\ RowStep(r)
<1> USE DEF At, MarkStep, RowStep, planVars, localVars, nonFileVars, afterVars
<1>1. CASE LogWrite(r) \/ RecordDecision(r) \/ Acquire(r)
  BY <1>1 DEF LogWrite, RecordDecision, Acquire
<1>2. CASE Authorize(r) \/ Verify(r) \/ Consume(r) \/ AuditIntent(r)
  BY <1>2 DEF Authorize, Verify, Consume, AuditIntent
<1>3. CASE MakeDirectory(r) \/ Link(r) \/ CheckDst(r) \/ CheckSrc(r) \/ Unlink(r) \/ Rollback(r)
  BY <1>3 DEF MakeDirectory, Link, CheckDst, CheckSrc, Unlink, Rollback
<1>4. CASE MarkApplied(r)
  BY <1>4 DEF MarkApplied
<1>5. CASE AuditApplied(r) \/ AuditRejected(r) \/ LogUpdate(r)
  BY <1>5 DEF AuditApplied, AuditRejected, LogUpdate
<1> QED
  BY <1>1, <1>2, <1>3, <1>4, <1>5, Zenon DEF Serve, Gate

(* Every statement of a request obeys LinkStep.                            *)
LEMMA LinkSteps ==
  ASSUME RequestsOK, NEW r \in Requests, Serve(r)
  PROVE  LinkStep(r)
<1> DEFINE Steps == LinkStep(r)
<1>0. req \in [Requests -> Request]
  BY DEF RequestsOK
<1> USE <1>0 DEF At, Request, LinkStep, BeforePcs, EarlyPcs, PreLinkPcs, HalfPcs, localVars, nonFileVars, afterVars, fileVars
<1>1. CASE LogWrite(r) \/ RecordDecision(r) \/ Acquire(r)
  BY <1>1, SMTT(60) DEF LogWrite, RecordDecision, Acquire, Goto, Finish
<1>2. CASE Authorize(r)
  BY <1>2, SMTT(60) DEF Authorize, Goto, Raise
<1>3. CASE Verify(r) \/ Consume(r) \/ AuditIntent(r)
  BY <1>3, SMTT(60) DEF Verify, Consume, AuditIntent, Raise
<1>4. CASE MakeDirectory(r)
  BY <1>4, SMTT(60) DEF MakeDirectory, MakeParent, Goto
<1>5. CASE Link(r)
  BY <1>5, SMTT(60) DEF Link, LinkName, Raise
<1>6. CASE CheckDst(r) \/ CheckSrc(r)
  BY <1>6, SMTT(60) DEF CheckDst, CheckSrc, Goto, Undo
<1>7. CASE Unlink(r)
  BY <1>7, SMTT(60) DEF Unlink, UnlinkName, Goto, Undo
<1>8. CASE Rollback(r)
  BY <1>8, SMTT(60) DEF Rollback, UnlinkName, Goto, Raise
<1>9. CASE MarkApplied(r) \/ AuditApplied(r) \/ AuditRejected(r) \/ LogUpdate(r)
  BY <1>9, SMTT(60) DEF MarkApplied, AuditApplied, AuditRejected, LogUpdate, Goto, Finish
<1>10. Steps
  BY <1>1, <1>2, <1>3, <1>4, <1>5, <1>6, <1>7, <1>8, <1>9, Zenon DEF Serve, Gate
<1> QED
  BY <1>10

-----------------------------------------------------------------------------
(* What a request that linked a file leaves behind: a plan that no request *)
(* finds fresh again.                                                      *)
LinkedInv ==
  \A r \in Requests :
    /\ req[r].pc \in BeforePcs => req[r].linked = NoInode
    /\ req[r].linked # NoInode =>
         req[r].call \in Calls /\ review[PlanOf(r)] \in Fingerprint /\ Touched(PlanOf(r))

(* A reviewed plan whose file was touched stays so.                        *)
LEMMA TouchedStays ==
  ASSUME Inv, [Next]_vars, NEW p \in Plans, review[p] \in Fingerprint, Touched(p)
  PROVE  review'[p] = review[p] /\ Touched(p)'
<1>1. review'[p] = review[p] /\ review[p].ino \in Inodes /\ review[p].stamp \in Nat
  BY ReviewsFinal DEF Inv, GateInv, Fingerprint
<1>2. stamp' \in [Inodes -> Nat] /\ stamp \in [Inodes -> Nat] /\ StampsAdvance
  BY StampsNext, TypeNext DEF Inv, SharedOK, SecureFilesTypeOK
<1> QED
  BY <1>1, <1>2 DEF Touched, StampsAdvance

(* No step of anybody forgets a linked file, or freshens a touched plan.   *)
LEMMA LinkedNext ==
  ASSUME Inv, LinkedInv, [Next]_vars
  PROVE  LinkedInv'
<1> USE DEF LinkedInv
<1>0. RequestsOK /\ RequestsOK' /\ SharedOK /\ StampInv'
  BY InvNext DEF Inv, GateInv
<1>1. ASSUME NEW q \in Requests, req'[q].call = req[q].call, req'[q].linked = req[q].linked,
             req'[q].linked # NoInode
      PROVE  req'[q].call \in Calls /\ review'[PlanOf(q)'] \in Fingerprint /\ Touched(PlanOf(q))'
  <2>1. PlanOf(q)' = PlanOf(q) /\ PlanOf(q) \in Plans
    BY <1>1 DEF PlanOf, Calls
  <2> QED
    BY <1>1, <2>1, TouchedStays
<1>2. ASSUME NEW r \in Requests, Serve(r), NEW q \in Requests, req'[q].linked # NoInode
      PROVE  req'[q].call \in Calls /\ review'[PlanOf(q)'] \in Fingerprint /\ Touched(PlanOf(q))'
  <2>1. CASE q # r \/ req'[r].linked = req[r].linked
    BY <1>0, <1>1, <1>2, <2>1, ServeFrame
  <2>2. CASE q = r /\ req[r].pc = "link" /\ req'[r].pc = "check_dst"
    <3>1. req'[r].call \in Calls
      BY <1>0, <2>2 DEF RequestsOK, BusyPcs, GatePcs
    <3>2. OnTrack(r)'
      BY <1>0 DEF StampInv
    <3> QED
      BY <2>2, <3>1, <3>2 DEF OnTrack, MovingPcs, PreLinkPcs
  <2> QED
    BY <1>0, <1>2, <2>1, <2>2, LinkSteps DEF LinkStep
<1>3. ASSUME NEW r \in Requests, NEW c \in Calls, Decide(r, c), NEW q \in Requests,
             req'[q].linked # NoInode
      PROVE  req'[q].call \in Calls /\ review'[PlanOf(q)'] \in Fingerprint /\ Touched(PlanOf(q))'
  <2>1. req[r].pc \in BeforePcs /\ req'[r].linked = req[r].linked
    BY <1>0, <1>3 DEF Decide, At, RequestsOK, Request, BeforePcs, EarlyPcs
  <2>2. q # r
    BY <1>3, <2>1
  <2> QED
    BY <1>0, <1>1, <1>3, <2>2, DecideFrame
<1>4. ASSUME NEW q \in Requests, req'[q].pc \in BeforePcs
      PROVE  req'[q].linked = NoInode
  <2>1. ASSUME NEW r \in Requests, Serve(r)
        PROVE  req'[q].linked = NoInode
    BY <1>0, <1>4, <2>1, ServeFrame, LinkSteps DEF LinkStep
  <2>2. ASSUME NEW r \in Requests, NEW c \in Calls, Decide(r, c)
        PROVE  req'[q].linked = NoInode
    <3>1. req[r].pc \in BeforePcs /\ req'[r].linked = req[r].linked
      BY <1>0, <2>2 DEF Decide, At, RequestsOK, Request, BeforePcs, EarlyPcs
    <3> QED
      BY <1>0, <1>4, <2>2, <3>1, DecideFrame
  <2>3. CASE Crash
    BY <1>0, <1>4, <2>3 DEF Crash, RequestsOK, Request, BeforePcs, EarlyPcs, PreLinkPcs, BusyPcs, GatePcs
  <2>4. CASE Outside
    BY <1>0, <1>4, <2>4, OutsideFrame
  <2> QED
    BY <2>1, <2>2, <2>3, <2>4, StepKinds
<1>5. ASSUME Crash, NEW q \in Requests
      PROVE  req'[q].call = req[q].call /\ req'[q].linked = req[q].linked
  BY <1>0, <1>5 DEF Crash, RequestsOK, Request
<1>6. ASSUME NEW q \in Requests, req'[q].linked # NoInode
      PROVE  req'[q].call \in Calls /\ review'[PlanOf(q)'] \in Fingerprint /\ Touched(PlanOf(q))'
  <2>1. CASE Crash
    BY <1>1, <1>5, <1>6, <2>1
  <2>2. CASE Outside
    BY <1>0, <1>1, <1>6, <2>2, OutsideFrame
  <2> QED
    BY <1>2, <1>3, <1>6, <2>1, <2>2, StepKinds
<1> QED
  BY <1>4, <1>6

(* Once a request linked the file, its plan is stale for good when the     *)
(* request leaves the gate, for a link, unlink or edit moves the stamp past*)
(* the review and no other review is ever made of the plan (_authorize,    *)
(* move_file).                                                             *)
THEOREM StaleOnceTouched == Spec => []TouchedPlansGoStale
<1>1. Init => LinkedInv
  BY DEF Init, LinkedInv, NewRequest
<1>2. Inv /\ LinkedInv => TouchedPlansGoStale
  <2> SUFFICES ASSUME Inv, LinkedInv, NEW r \in Requests, req[r].linked \in Inodes
               PROVE  ~Fresh(PlanOf(r))
    BY DEF TouchedPlansGoStale
  <2>1. review[PlanOf(r)] \in Fingerprint /\ Touched(PlanOf(r))
    BY DEF LinkedInv
  <2>2. ASSUME Fresh(PlanOf(r)) PROVE FALSE
    <3>1. stamp[review[PlanOf(r)].ino] = review[PlanOf(r)].stamp
      BY <2>2 DEF Fresh, FingerprintOf
    <3> QED
      BY <2>1, <3>1 DEF Touched, Fingerprint
  <2> QED
    BY <2>2
<1>3. Inv /\ LinkedInv /\ [Next]_vars => LinkedInv'
  BY LinkedNext
<1> QED
  BY <1>1, <1>2, <1>3, InvAlways, PTL DEF Spec

-----------------------------------------------------------------------------
(* The records agree with the moves.                                       *)

(* Who moved is marked as applied, and who is marked so moved; a plan's    *)
(* flag follows after the unlink, and a request's row before it is told.   *)
TellsInv ==
  /\ \A r \in Requests : req[r].pc \in {"mark", "audit_applied"} => r \in moves
  /\ \A r \in Requests : req[r].result = "applied" => r \in moves
  /\ \A r \in Requests : req[r].pc = "new" => row[r] = "none"
  /\ LogTellsApplied
  /\ \A p \in Plans : applied[p] => \E r \in moves : PlanOf(r) = p
  /\ \A r \in moves : st[PlanOf(r)] = "reviewed" => applied[PlanOf(r)] \/ req[r].pc = "mark"

(* A request's own step: the row it writes, the flag it sets.              *)
LEMMA ServeTells ==
  ASSUME Inv, TellsInv, NEW r \in Requests, Serve(r)
  PROVE  TellsInv'
<1>0. /\ RequestsOK /\ SharedOK /\ moves \subseteq Requests
      /\ applied \in [Plans -> BOOLEAN] /\ row \in [Requests -> Results \cup {"none"}]
  BY DEF Inv, SharedOK
<1>1. /\ TellStep(r) /\ MarkStep(r) /\ RowStep(r) /\ MoveStep(r)
      /\ req[r].pc \in BusyPcs /\ req'[r].call = req[r].call
      /\ \A q \in Requests : q # r => req'[q] = req[q]
      /\ st' = st
  BY <1>0, TellSteps, LogSteps, ServeSteps, ServeFrame, ServeFiles
<1>2. (\A q \in Requests : PlanOf(q)' = PlanOf(q)) /\ moves \subseteq moves' /\ PlanOf(r) \in Plans
  BY <1>0, <1>1 DEF PlanOf, MoveStep, RequestsOK, Calls
<1>3. \A q \in Requests : req'[q].pc \in {"mark", "audit_applied"} => q \in moves'
  BY <1>1, <1>2 DEF TellsInv, TellStep
<1>4. \A q \in Requests : req'[q].result = "applied" => q \in moves'
  BY <1>1, <1>2 DEF TellsInv, TellStep
<1>5. ASSUME NEW q \in Requests, req'[q].pc = "new"
      PROVE  row'[q] = "none"
  BY <1>0, <1>1, <1>5 DEF TellsInv, TellStep, RowStep, SameDecision
<1>6. ASSUME NEW q \in Requests, row'[q] = "applied"
      PROVE  \E m \in moves' : PlanOf(m)' = PlanOf(q)'
  <2>1. CASE row[q] = "applied"
    <3>1. PICK m \in moves : PlanOf(m) = PlanOf(q)
      BY <2>1 DEF TellsInv, LogTellsApplied
    <3> QED BY <1>0, <1>2, <3>1
  <2>2. CASE row[q] # "applied"
    <3>1. SameDecision(r, q) /\ req[r].result = "applied"
      BY <1>0, <1>1, <1>6, <2>2 DEF RowStep
    <3>2. r \in moves' /\ PlanOf(r)' = PlanOf(q)'
      BY <1>2, <3>1 DEF TellsInv, SameDecision
    <3> QED BY <3>2
  <2> QED BY <2>1, <2>2
<1>7. ASSUME NEW p \in Plans, applied'[p]
      PROVE  \E m \in moves' : PlanOf(m)' = p
  <2>1. CASE applied[p]
    <3>1. PICK m \in moves : PlanOf(m) = p
      BY <2>1 DEF TellsInv
    <3> QED BY <1>0, <1>2, <3>1
  <2>2. CASE ~applied[p]
    <3>1. req[r].pc = "mark" /\ p = PlanOf(r)
      BY <1>0, <1>1, <1>7, <2>2, Zenon DEF MarkStep
    <3> QED
      BY <1>2, <3>1 DEF TellsInv
  <2> QED BY <2>1, <2>2
<1>8. ASSUME NEW m \in moves', st'[PlanOf(m)'] = "reviewed", req'[m].pc # "mark"
      PROVE  applied'[PlanOf(m)']
  <2>1. m \in Requests /\ PlanOf(m)' = PlanOf(m)
    BY <1>0, <1>1, <1>2 DEF MoveStep
  <2>4. PlanOf(m) \in Plans
    BY <1>1, <1>2, <2>1 DEF MoveStep, Inv, GateInv, MovesInv, PlanOf, Calls
  <2>2. CASE applied[PlanOf(m)]
    <3>1. CASE applied' = applied
      BY <2>1, <2>2, <3>1
    <3>2. CASE applied' = [applied EXCEPT ![PlanOf(r)] = TRUE]
      <4>1. PlanOf(m) \in DOMAIN applied
        BY <1>0, <2>1, <2>4
      <4> QED BY <2>1, <2>2, <3>2, <4>1, Zenon
    <3> QED
      BY <1>1, <3>1, <3>2, Zenon DEF MarkStep
  <2>3. CASE m \in moves /\ ~applied[PlanOf(m)]
    <3>1. req[m].pc = "mark"
      BY <1>1, <1>8, <2>1, <2>3 DEF TellsInv
    <3>2. m = r
      BY <1>1, <1>8, <2>1, <3>1
    <3>3. applied' = [applied EXCEPT ![PlanOf(r)] = TRUE]
      BY <1>1, <3>1, <3>2 DEF MarkStep
    <3> QED
      BY <1>0, <1>2, <3>2, <3>3, Zenon
  <2>5. CASE m \notin moves
    BY <1>1, <1>8, <2>5 DEF MoveStep
  <2> QED BY <2>2, <2>3, <2>5
<1> QED
  BY <1>3, <1>4, <1>5, <1>6, <1>7, <1>8 DEF TellsInv, LogTellsApplied

(* Nobody else's step disagrees with the records either.                   *)
LEMMA TellsNext ==
  ASSUME Inv, TellsInv, [Next]_vars
  PROVE  TellsInv'
<1>0. /\ RequestsOK /\ SharedOK /\ moves \subseteq Requests /\ StampInv /\ MovesInv
      /\ st \in [Plans -> {"unused", "inserted", "reviewed", "unreviewed", "lost"}]
  BY DEF Inv, GateInv, SharedOK
<1>1. ASSUME NEW r \in Requests, NEW c \in Calls, Decide(r, c)
      PROVE  TellsInv'
  <2>1. /\ UNCHANGED <<moves, row, applied, st>> /\ r \notin moves
        /\ req[r].pc = "new" /\ req'[r].pc \in {"write", "done"} /\ req'[r].result = req[r].result
        /\ \A q \in Requests : q # r => req'[q] = req[q]
    BY <1>0, <1>1, DecideFrame DEF localVars, planVars, MovesInv, MovedPcs
  <2>2. \A m \in moves : PlanOf(m)' = PlanOf(m) /\ req'[m] = req[m]
    BY <1>0, <2>1 DEF PlanOf
  <2>3. LogTellsApplied'
    <3>1. ASSUME NEW q \in Requests, row'[q] = "applied"
          PROVE  \E m \in moves' : PlanOf(m)' = PlanOf(q)'
      <4>1. q # r /\ PlanOf(q)' = PlanOf(q)
        BY <2>1, <3>1 DEF TellsInv, PlanOf
      <4> QED BY <2>1, <2>2, <3>1, <4>1 DEF TellsInv, LogTellsApplied
    <3> QED BY <3>1 DEF LogTellsApplied
  <2> QED
    BY <2>1, <2>2, <2>3 DEF TellsInv
<1>2. CASE Crash
  <2>1. /\ UNCHANGED <<moves, row>>
        /\ \A p \in Plans : ~applied'[p] /\ st'[p] # "reviewed"
        /\ \A q \in Requests : /\ req'[q].call = req[q].call /\ req'[q].result = req[q].result
                               /\ req'[q].pc = "new" => req[q].pc = "new"
                               /\ req'[q].pc \notin {"mark", "audit_applied"}
    BY <1>0, <1>2, CrashFrame DEF Crash, BusyPcs, GatePcs
  <2>2. \A q \in Requests : PlanOf(q)' = PlanOf(q)
    BY <2>1 DEF PlanOf
  <2>3. \A m \in moves : PlanOf(m) \in Plans
    BY <1>0 DEF MovesInv, PlanOf, Calls
  <2> QED
    BY <1>0, <2>1, <2>2, <2>3 DEF TellsInv, LogTellsApplied
<1>3. CASE Outside
  <2>1. UNCHANGED <<req, row, moves, applied>>
    BY <1>0, <1>3, OutsideFrame DEF Outside, ProposeInsert, RegisterReview, SignReview, planVars,
       Environment, serverVars, vars
  <2>2. ASSUME NEW m \in moves, st'[PlanOf(m)] = "reviewed"
        PROVE  st[PlanOf(m)] = "reviewed"
    <3>1. PlanOf(m) \in Plans /\ review[PlanOf(m)] \in Fingerprint
      BY <1>0 DEF StampInv, OnTrack, MovesInv, PlanOf, Calls
    <3>2. st[PlanOf(m)] \notin {"unused", "inserted"}
      BY <1>0, <3>1 DEF StampInv
    <3> QED
      BY <1>0, <1>3, <2>2, <3>1, <3>2 DEF Outside, ProposeInsert, RegisterReview, SignReview, planVars,
         Environment, serverVars, vars
  <2>3. \A q \in Requests : PlanOf(q)' = PlanOf(q)
    BY <2>1 DEF PlanOf
  <2> QED
    BY <1>0, <2>1, <2>2, <2>3 DEF TellsInv, LogTellsApplied
<1> QED
  BY <1>1, <1>2, <1>3, ServeTells, StepKinds

(* What the decision log, a record and a plan's view say of a move agrees  *)
(* with the files: a row says applied only of a moved plan, a record that  *)
(* says otherwise moved nothing, and between two calls of apply_plan a     *)
(* view says applied exactly for the moved plans of this process (decide,  *)
(* apply_plan, DecisionLog.update).                                        *)
THEOREM RecordsAgree == Spec => []RecordsTellMoved
<1>1. Init => TellsInv
  <2> SUFFICES ASSUME Init PROVE TellsInv
    OBVIOUS
  <2>1. \A r \in Requests : req[r].pc = "new" /\ req[r].result = "pending" /\ row[r] = "none"
    BY DEF Init, NewRequest
  <2>2. moves = {} /\ \A p \in Plans : ~applied[p]
    BY DEF Init
  <2> QED
    BY <2>1, <2>2 DEF TellsInv, LogTellsApplied
<1>2. Inv /\ TellsInv => RecordsTellMoved
  <2> SUFFICES ASSUME Inv, TellsInv PROVE RecordsTellMoved
    OBVIOUS
  <2>1. LogTellsApplied /\ RefusedDidNotMove
    BY DEF TellsInv, Inv, GateInv, MovesInv, RefusedDidNotMove
  <2>2. ASSUME lock = NoRequest, NEW m \in moves
        PROVE  req[m].pc # "mark"
    BY <2>2 DEF Inv, GateInv, LockInv, GatePcs, SharedOK
  <2>3. ViewTellsMoved
    BY <2>2 DEF TellsInv, ViewTellsMoved
  <2> QED
    BY <2>1, <2>3 DEF RecordsTellMoved
<1>3. Inv /\ TellsInv /\ [Next]_vars => TellsInv'
  BY TellsNext
<1> QED
  BY <1>1, <1>2, <1>3, InvAlways, PTL DEF Spec

-----------------------------------------------------------------------------
(* The right file.                                                         *)

(* How far a name is from the reviewed inode i, seen from the linked one:  *)
(* no edit of the name leads from l to i, since i is not new any more, but *)
(* one that takes l away and one that brings i.                            *)
Distance(n, l, i) == IF names[n] = l THEN 0 ELSE IF names[n] = i THEN 2 ELSE 1

(* What other programs must have done to the directory before a request    *)
(* that links, or linked, an inode l that is not the reviewed one passes   *)
(* the next statement: l took the source name, and the reviewed file then  *)
(* has to take the destination and, after the first stat, the source.      *)
Swapped(r) ==
  /\ req[r].pc \in PreLinkPcs /\ names[Src(r)] # Reviewed(r) => edits >= 1
  /\ req[r].pc \in {"check_dst", "check_src", "unlink"} \/ r \in moves =>
       Src(r) # Dst(r) /\ req[r].linked \in Inodes
  /\ req[r].linked \in Inodes /\ req[r].linked # Reviewed(r) =>
       /\ req[r].pc = "check_dst" =>
            edits >= 1 + Distance(Src(r), req[r].linked, Reviewed(r))
                       + Distance(Dst(r), req[r].linked, Reviewed(r))
       /\ req[r].pc = "check_src" => edits >= 3 + Distance(Src(r), req[r].linked, Reviewed(r))
       /\ req[r].pc = "unlink" \/ r \in moves => edits >= 5
SwapInv == \A r \in Requests : Swapped(r)

(* One edit of another program brings one name one step nearer, and two    *)
(* different names together no more than one step.                         *)
LEMMA EditDistance ==
  ASSUME SecureFilesTypeOK, OtherPrograms, NEW l \in Inodes, NEW i \in Inodes, l # i, stamp[i] > 0,
         NEW s \in Names, NEW d \in Names, s # d
  PROVE  /\ edits' = edits + 1
         /\ Distance(s, l, i)' <= Distance(s, l, i) + 1
         /\ Distance(s, l, i)' + Distance(d, l, i)' <= Distance(s, l, i) + Distance(d, l, i) + 1
<1> USE DEF Distance, SecureFilesTypeOK
<1>1. ASSUME NEW n \in Names, EditInPlace(n)
      PROVE  edits' = edits + 1 /\ names' = names
  BY <1>1 DEF EditInPlace
<1>2. ASSUME NEW n \in Names, SaveOver(n) \/ Remove(n)
      PROVE  /\ edits' = edits + 1 /\ names'[n] # i
             /\ \A m \in Names : m # n => names'[m] = names[m]
  BY <1>2 DEF SaveOver, Remove
<1>3. ASSUME NEW n \in Names, NEW m \in Names, RenameTo(n, m)
      PROVE  /\ edits' = edits + 1 /\ n # m /\ names[m] = NoInode
             /\ names'[n] = NoInode /\ names'[m] = names[n]
             /\ \A k \in Names : k \notin {n, m} => names'[k] = names[k]
  BY <1>3 DEF RenameTo, Exists
<1>4. CASE \E n \in Names : EditInPlace(n)
  BY <1>1, <1>4
<1>5. CASE \E n \in Names : SaveOver(n) \/ Remove(n)
  BY <1>2, <1>5
<1>6. ASSUME NEW n \in Names, NEW m \in Names, RenameTo(n, m)
      PROVE  /\ Distance(s, l, i)' <= Distance(s, l, i) + 1
             /\ Distance(s, l, i)' + Distance(d, l, i)' <= Distance(s, l, i) + Distance(d, l, i) + 1
  <2>1. CASE s = n \/ d = m
    BY <1>3, <1>6, <2>1
  <2>2. CASE s = m \/ d = n
    BY <1>3, <1>6, <2>2
  <2>3. CASE s \notin {n, m} /\ d \notin {n, m}
    BY <1>3, <1>6, <2>3
  <2> QED
    BY <2>1, <2>2, <2>3
<1> QED
  BY <1>3, <1>4, <1>5, <1>6 DEF OtherPrograms

(* What a step does to the directory besides the requests' own: nothing,   *)
(* or an edit by another program; a name only changes its file then if     *)
(* renamed becomes true.                                                   *)
LEMMA NamesNext ==
  ASSUME Inv, [Next]_vars
  PROVE  /\ edits \in Nat /\ edits' \in Nat /\ edits' >= edits
         /\ ~renamed' => ~renamed
         /\ \/ \E r \in Requests : Serve(r)
            \/ UNCHANGED <<names, edits, renamed>>
            \/ /\ OtherPrograms /\ UNCHANGED <<req, lock, moves, crashes>>
               /\ ~renamed' => names' = names
<1>0. RequestsOK /\ SharedOK /\ SharedOK'
  BY TypeNext DEF Inv
<1>1. edits \in Nat /\ edits' \in Nat /\ renamed \in BOOLEAN /\ renamed' \in BOOLEAN
  BY <1>0 DEF SharedOK, SecureFilesTypeOK
<1>2. ASSUME NEW r \in Requests, Serve(r)
      PROVE  edits' = edits /\ renamed' = renamed
  BY <1>0, <1>2, LinkSteps DEF LinkStep
<1>3. ASSUME NEW r \in Requests, NEW c \in Calls, Decide(r, c)
      PROVE  UNCHANGED <<names, edits, renamed>>
  BY <1>3 DEF Decide, localVars, fileVars
<1>4. CASE Crash
  BY <1>1, <1>4 DEF Crash, fileVars
<1>5. CASE Outside
  <2>1. CASE OtherPrograms /\ UNCHANGED serverVars
    <3>1. UNCHANGED <<req, lock, moves, crashes>>
      BY <2>1 DEF serverVars
    <3>2. edits' = edits + 1 /\ (renamed' = TRUE \/ (renamed' = renamed /\ names' = names))
      <4>1. ASSUME NEW n \in Names, EditInPlace(n)
            PROVE  edits' = edits + 1 /\ renamed' = renamed /\ names' = names
        BY <4>1 DEF EditInPlace
      <4>2. ASSUME NEW n \in Names, SaveOver(n)
            PROVE  edits' = edits + 1 /\ renamed' = TRUE
        BY <4>2 DEF SaveOver
      <4>3. ASSUME NEW n \in Names, Remove(n)
            PROVE  edits' = edits + 1 /\ renamed' = TRUE
        BY <4>3 DEF Remove
      <4>4. ASSUME NEW n \in Names, NEW m \in Names, RenameTo(n, m)
            PROVE  edits' = edits + 1 /\ renamed' = TRUE
        BY <4>4 DEF RenameTo
      <4> QED
        BY <2>1, <4>1, <4>2, <4>3, <4>4, Zenon DEF OtherPrograms
    <3> QED
      BY <1>1, <2>1, <3>1, <3>2
  <2>2. CASE UNCHANGED fileVars
    BY <1>1, <2>2 DEF fileVars
  <2> QED
    BY <1>5, <2>1, <2>2 DEF Outside, Environment, ProposeInsert, RegisterReview, SignReview, vars, fileVars
<1> QED
  BY <1>1, <1>2, <1>3, <1>4, <1>5, StepKinds

(* A request that takes no step of its own keeps what it is about; while   *)
(* it is at the gate, the directory changes only by another program's edit.*)
LEMMA Bystanders ==
  ASSUME Inv, LinkedInv, [Next]_vars, NEW q \in Requests, ~Serve(q)
  PROVE  \/ req'[q].pc \notin GatePcs /\ req'[q].linked = NoInode /\ q \notin moves'
         \/ /\ req'[q].call = req[q].call /\ req'[q].linked = req[q].linked
            /\ q \in moves' => q \in moves
            /\ req'[q].pc = req[q].pc \/ req'[q].pc \notin GatePcs
            /\ \/ req[q].pc \notin GatePcs
               \/ names' = names /\ edits' = edits
               \/ OtherPrograms /\ UNCHANGED <<req, lock, moves, crashes>>
<1>0. RequestsOK /\ SharedOK /\ LockInv /\ MovesInv /\ moves \subseteq Requests
  BY DEF Inv, GateInv, SharedOK
<1>1. ASSUME NEW r \in Requests, Serve(r)
      PROVE  /\ req'[q] = req[q] /\ (q \in moves' => q \in moves)
             /\ req[q].pc \notin GatePcs \/ (names' = names /\ edits' = edits)
  <2>1. q # r /\ req'[q] = req[q] /\ MoveStep(r) /\ LinkStep(r)
    BY <1>0, <1>1, ServeFrame, ServeSteps, LinkSteps
  <2>2. req[q].pc \in GatePcs => req[r].pc \notin GatePcs
    BY <1>0, <2>1 DEF LockInv
  <2> QED
    BY <2>1, <2>2 DEF MoveStep, LinkStep, GatePcs, UnlinkName
<1>2. ASSUME NEW r \in Requests, NEW c \in Calls, Decide(r, c)
      PROVE  \/ req'[q].pc \notin GatePcs /\ req'[q].linked = NoInode /\ q \notin moves'
             \/ req'[q] = req[q] /\ moves' = moves /\ names' = names /\ edits' = edits
  <2>1. UNCHANGED <<moves, names, edits>>
    BY <1>2 DEF Decide, localVars, fileVars
  <2>2. CASE q # r
    BY <1>0, <1>2, <2>1, <2>2, DecideFrame
  <2>3. CASE q = r
    <3>1. req[r].pc = "new" /\ req'[r].pc \in {"write", "done"} /\ req'[r].linked = req[r].linked
      BY <1>0, <1>2 DEF Decide, At, RequestsOK, Request
    <3> QED
      BY <1>0, <2>1, <2>3, <3>1 DEF LinkedInv, BeforePcs, EarlyPcs, MovesInv, MovedPcs, GatePcs
  <2> QED
    BY <2>2, <2>3
<1>3. CASE Crash
  <2>1. UNCHANGED <<moves, names, edits>>
    BY <1>3 DEF Crash, fileVars
  <2>2. req'[q].call = req[q].call /\ req'[q].linked = req[q].linked /\ req'[q].pc \notin GatePcs
    BY <1>0, <1>3 DEF Crash, RequestsOK, Request, BusyPcs, GatePcs
  <2> QED
    BY <2>1, <2>2
<1>4. CASE Outside
  <2>1. UNCHANGED <<req, moves>>
    BY <1>0, <1>4, OutsideFrame
  <2>2. \/ names' = names /\ edits' = edits
        \/ OtherPrograms /\ UNCHANGED <<req, lock, moves, crashes>>
    BY <1>4 DEF Outside, Environment, ProposeInsert, RegisterReview, SignReview, vars, fileVars, serverVars
  <2> QED
    BY <2>1, <2>2
<1> QED
  BY <1>1, <1>2, <1>3, <1>4, StepKinds

(* A request's own step.                                                   *)
LEMMA SwapServe ==
  ASSUME Inv, LinkedInv, SwapInv, NEW r \in Requests, Serve(r)
  PROVE  Swapped(r)'
<1>0. /\ RequestsOK /\ SharedOK /\ StampInv /\ edits \in Nat
      /\ names \in [Names -> Inodes \cup {NoInode}]
  BY DEF Inv, GateInv, SharedOK, SecureFilesTypeOK
<1>1. /\ LinkStep(r) /\ MoveStep(r) /\ req[r].pc \in BusyPcs /\ req'[r].call = req[r].call
      /\ review' = review
  BY <1>0, LinkSteps, ServeSteps, ServeFrame, ServeFiles
<1>2. PICK p \in Plans : PlanOf(r) = p /\ PlanOf(r)' = p
  BY <1>0, <1>1 DEF PlanOf, RequestsOK, Calls
<1>3. PICK s \in Names, d \in Names : Src(r) = s /\ Src(r)' = s /\ Dst(r) = d /\ Dst(r)' = d
  BY <1>2 DEF Src, Dst
<1>4. PICK i : Reviewed(r) = i /\ Reviewed(r)' = i
  BY <1>1, <1>2 DEF Reviewed
<1>5. edits' = edits
  BY <1>1 DEF LinkStep
<1>6. ASSUME req'[r].pc \in PreLinkPcs, names'[s] # i
      PROVE  edits >= 1
  <2>1. names' = names
    BY <1>1, <1>6 DEF LinkStep, UnlinkName, PreLinkPcs
  <2>2. CASE req[r].pc \in PreLinkPcs
    BY <1>3, <1>4, <1>6, <2>1, <2>2 DEF SwapInv, Swapped
  <2>3. CASE req[r].pc = "authorize"
    <3>1. Fresh(p)
      BY <1>1, <1>2, <1>6, <2>3 DEF LinkStep
    <3>2. names[SrcOf[p]] = review[p].ino
      BY <3>1 DEF Fresh, FingerprintOf
    <3> QED
      BY <1>2, <1>3, <1>4, <1>6, <2>1, <3>2 DEF Src, Reviewed
  <2> QED
    BY <1>1, <1>6, <2>2, <2>3 DEF LinkStep
<1>7. ASSUME req'[r].pc = "check_dst"
      PROVE  /\ s # d /\ req'[r].linked \in Inodes
             /\ req'[r].linked # i =>
                  edits >= 1 + Distance(s, req[r].linked, i)' + Distance(d, req[r].linked, i)'
  <2>1. req[r].pc = "link" /\ LinkName(s, d) /\ req'[r].linked = names[s]
    BY <1>1, <1>3, <1>7 DEF LinkStep
  <2>2. s # d /\ names[s] \in Inodes /\ names'[s] = names[s] /\ names'[d] = names[s]
    BY <1>0, <2>1 DEF LinkName, Exists
  <2>3. names[s] # i => edits >= 1
    BY <1>3, <1>4, <2>1 DEF SwapInv, Swapped, PreLinkPcs
  <2>4. Distance(s, req[r].linked, i)' = 0 /\ Distance(d, req[r].linked, i)' = 0
    BY <2>1, <2>2 DEF Distance
  <2> QED
    BY <1>0, <2>1, <2>2, <2>3, <2>4
<1>8. ASSUME req'[r].pc = "check_src"
      PROVE  /\ s # d /\ req'[r].linked \in Inodes
             /\ req'[r].linked # i => edits >= 3 + Distance(s, req[r].linked, i)'
  <2>1. /\ req[r].pc = "check_dst" /\ names[d] = i
        /\ req'[r].linked = req[r].linked /\ names' = names
    BY <1>1, <1>3, <1>4, <1>8 DEF LinkStep, fileVars
  <2>2. s # d /\ req[r].linked \in Inodes
        /\ (req[r].linked # i => edits >= 1 + Distance(s, req[r].linked, i) + Distance(d, req[r].linked, i))
    BY <1>3, <1>4, <2>1 DEF SwapInv, Swapped
  <2>3. req[r].linked # i => Distance(d, req[r].linked, i) = 2
    BY <2>1 DEF Distance
  <2>4. Distance(s, req[r].linked, i)' = Distance(s, req[r].linked, i)
        /\ Distance(s, req[r].linked, i) \in 0..2
    BY <2>1 DEF Distance
  <2> QED
    BY <1>0, <2>1, <2>2, <2>3, <2>4
<1>9. ASSUME req'[r].pc = "unlink"
      PROVE  /\ s # d /\ req'[r].linked \in Inodes
             /\ req'[r].linked # i => edits >= 5
  <2>1. /\ req[r].pc = "check_src" /\ names[s] = i
        /\ req'[r].linked = req[r].linked
    BY <1>1, <1>3, <1>4, <1>9 DEF LinkStep
  <2>2. s # d /\ req[r].linked \in Inodes
        /\ (req[r].linked # i => edits >= 3 + Distance(s, req[r].linked, i))
    BY <1>3, <1>4, <2>1 DEF SwapInv, Swapped
  <2> QED
    BY <1>0, <2>1, <2>2 DEF Distance
<1>10. ASSUME r \in moves', req'[r].linked \in Inodes, req'[r].linked # i
       PROVE  edits >= 5
  <2>1. r \in moves \/ req[r].pc = "unlink"
    BY <1>1, <1>10 DEF MoveStep
  <2>2. req[r].pc # "link"
    BY <2>1 DEF Inv, GateInv, MovesInv, MovedPcs
  <2>3. req'[r].linked = req[r].linked
    BY <1>1, <2>2 DEF LinkStep
  <2> QED
    BY <1>4, <1>10, <2>1, <2>3 DEF SwapInv, Swapped
<1>11. req'[r].pc \in {"check_dst", "check_src", "unlink"} \/ r \in moves' =>
         s # d /\ req'[r].linked \in Inodes
  <2>1. r \in moves' => r \in moves \/ req[r].pc = "unlink"
    BY <1>1 DEF MoveStep
  <2>2. r \in moves => req[r].pc # "link"
    BY DEF Inv, GateInv, MovesInv, MovedPcs
  <2>3. r \in moves' => req'[r].linked = req[r].linked
    BY <1>1, <2>1, <2>2 DEF LinkStep
  <2> QED
    BY <1>3, <1>7, <1>8, <1>9, <2>1, <2>3 DEF SwapInv, Swapped
<1>12. req'[r].linked \in Inodes /\ req'[r].linked # i =>
        /\ req'[r].pc = "check_dst" =>
             edits >= 1 + Distance(s, req[r].linked, i)' + Distance(d, req[r].linked, i)'
        /\ req'[r].pc = "check_src" => edits >= 3 + Distance(s, req[r].linked, i)'
        /\ req'[r].pc = "unlink" \/ r \in moves' => edits >= 5
  BY <1>7, <1>8, <1>9, <1>10
<1>13. /\ Distance(s, req[r].linked, i)' = Distance(Src(r), req[r].linked, Reviewed(r))'
       /\ Distance(d, req[r].linked, i)' = Distance(Dst(r), req[r].linked, Reviewed(r))'
  BY <1>3, <1>4 DEF Distance
<1> QED
  BY <1>3, <1>4, <1>5, <1>6, <1>11, <1>12, <1>13 DEF Swapped

(* Steps of anybody else.                                                  *)
LEMMA SwapOthers ==
  ASSUME Inv, LinkedInv, SwapInv, [Next]_vars, NEW r \in Requests, ~Serve(r)
  PROVE  Swapped(r)'
<1>0. /\ RequestsOK /\ SharedOK /\ StampInv /\ Swapped(r) /\ OnTrack(r) /\ moves \subseteq Requests
      /\ SecureFilesTypeOK /\ MovesInv
  BY DEF Inv, GateInv, SharedOK, SwapInv, StampInv
<1>1. edits \in Nat /\ edits' \in Nat /\ edits' >= edits
  BY NamesNext
<1>2. CASE req'[r].pc \notin GatePcs /\ req'[r].linked = NoInode /\ r \notin moves'
  BY <1>2 DEF Swapped, GatePcs, PreLinkPcs
<1>3. CASE /\ req'[r].call = req[r].call /\ req'[r].linked = req[r].linked
           /\ r \in moves' => r \in moves
           /\ req'[r].pc = req[r].pc \/ req'[r].pc \notin GatePcs
           /\ \/ req[r].pc \notin GatePcs
              \/ names' = names /\ edits' = edits
              \/ OtherPrograms /\ UNCHANGED <<req, lock, moves, crashes>>
  <2>0. CASE req[r].call \notin Calls
    <3>1. req[r].linked = NoInode /\ req[r].pc \notin GatePcs /\ r \notin moves
      BY <1>0, <2>0 DEF LinkedInv, RequestsOK, BusyPcs, MovesInv
    <3> QED
      BY <1>3, <3>1 DEF Swapped, GatePcs, PreLinkPcs
  <2>1. CASE req[r].call \in Calls
    <3>1. PICK p \in Plans : PlanOf(r) = p /\ PlanOf(r)' = p
      BY <1>3, <2>1 DEF PlanOf, Calls
    <3>2. PICK s \in Names, d \in Names : Src(r) = s /\ Src(r)' = s /\ Dst(r) = d /\ Dst(r)' = d
      BY <3>1 DEF Src, Dst
    <3>3. /\ req[r].pc \in PreLinkPcs => review[p] \in Fingerprint
          /\ req[r].linked # NoInode => review[p] \in Fingerprint /\ Touched(p)
      BY <1>0, <3>1 DEF OnTrack, LinkedInv, MovingPcs
    <3>4. review[p] \in Fingerprint => review'[p] = review[p]
      BY <1>0, ReviewsFinal
    <3>5. CASE review[p] \notin Fingerprint
      <4>1. req[r].linked = NoInode /\ req[r].pc \notin PreLinkPcs
            /\ req[r].pc \notin {"check_dst", "check_src", "unlink"} /\ r \notin moves
        BY <1>0, <3>1, <3>3, <3>5 DEF OnTrack, MovingPcs
      <4> QED
        BY <1>3, <4>1 DEF Swapped, GatePcs, PreLinkPcs
    <3>6. CASE review[p] \in Fingerprint
      <4>1. PICK i \in Inodes : Reviewed(r) = i /\ Reviewed(r)' = i /\ review[p].ino = i
        BY <3>1, <3>4, <3>6 DEF Reviewed, Fingerprint
      <4>2. CASE names' = names /\ edits' = edits
        BY <1>0, <1>3, <3>2, <4>1, <4>2 DEF Swapped, Distance, GatePcs, PreLinkPcs
      <4>3. CASE OtherPrograms /\ UNCHANGED <<req, lock, moves, crashes>>
        <5>1. edits' = edits + 1
          BY <4>3 DEF OtherPrograms, EditInPlace, SaveOver, Remove, RenameTo
        <5>2. ASSUME req[r].linked \in Inodes, req[r].linked # i, s # d
              PROVE  /\ Distance(s, req[r].linked, i)' <= Distance(s, req[r].linked, i) + 1
                     /\ Distance(s, req[r].linked, i)' + Distance(d, req[r].linked, i)'
                          <= Distance(s, req[r].linked, i) + Distance(d, req[r].linked, i) + 1
          <6>1. stamp[i] > 0
            BY <1>0, <3>3, <3>6, <4>1, <5>2 DEF Touched, Fingerprint, SecureFilesTypeOK
          <6>2. PICK l \in Inodes : req[r].linked = l /\ req'[r].linked = l
            BY <4>3, <5>2
          <6>3. /\ Distance(s, l, i)' <= Distance(s, l, i) + 1
                /\ Distance(s, l, i)' + Distance(d, l, i)' <= Distance(s, l, i) + Distance(d, l, i) + 1
            BY <1>0, <4>3, <5>2, <6>1, <6>2, EditDistance
          <6> QED
            BY <6>2, <6>3 DEF Distance
        <5>3. req[r].pc \in {"check_dst", "check_src", "unlink"} \/ r \in moves => s # d /\ req[r].linked \in Inodes
          BY <1>0, <3>2 DEF Swapped
        <5>4. /\ Distance(s, req[r].linked, i) \in 0..2 /\ Distance(s, req[r].linked, i)' \in 0..2
              /\ Distance(d, req[r].linked, i) \in 0..2 /\ Distance(d, req[r].linked, i)' \in 0..2
          BY DEF Distance
        <5>5. req'[r] = req[r] /\ moves' = moves
          BY <4>3
        <5>6. req[r].linked \in Inodes /\ req[r].linked # i =>
               /\ req[r].pc = "check_dst" =>
                    edits' >= 1 + Distance(s, req[r].linked, i)' + Distance(d, req[r].linked, i)'
               /\ req[r].pc = "check_src" => edits' >= 3 + Distance(s, req[r].linked, i)'
               /\ req[r].pc = "unlink" \/ r \in moves => edits' >= 5
          BY <1>0, <1>1, <3>2, <4>1, <5>1, <5>2, <5>3, <5>4 DEF Swapped
        <5> QED
          BY <1>1, <3>2, <4>1, <5>1, <5>3, <5>5, <5>6 DEF Swapped, Distance
      <4>4. CASE req[r].pc \notin GatePcs
        <5>1. req'[r].pc \notin GatePcs
          BY <1>3, <4>4
        <5>2. r \in moves' /\ req'[r].linked \in Inodes /\ req'[r].linked # i => edits' >= 5
          BY <1>0, <1>1, <1>3, <4>1 DEF Swapped
        <5>3. r \in moves' => s # d /\ req'[r].linked \in Inodes
          BY <1>0, <1>3, <3>2 DEF Swapped
        <5> QED
          BY <3>2, <4>1, <5>1, <5>2, <5>3 DEF Swapped, GatePcs, PreLinkPcs
      <4> QED
        BY <1>3, <4>2, <4>3, <4>4
    <3> QED
      BY <3>5, <3>6
  <2> QED
    BY <2>0, <2>1
<1> QED
  BY <1>2, <1>3, Bystanders

(* A completed move moved the file that was reviewed, unless other programs*)
(* worked on the directory five times or more while it was in progress or  *)
(* before: one edit to bring another file under the old name, and twice    *)
(* two to pass the two stat checks of move_file.                           *)
THEOREM RightFile == Spec => []RightFileMoved
<1>1. Init => LinkedInv /\ SwapInv
  <2> SUFFICES ASSUME Init PROVE LinkedInv /\ SwapInv
    OBVIOUS
  <2>1. \A r \in Requests : req[r].pc = "new" /\ req[r].linked = NoInode
    BY DEF Init, NewRequest
  <2>2. moves = {}
    BY DEF Init
  <2> QED
    BY <2>1, <2>2 DEF LinkedInv, SwapInv, Swapped, PreLinkPcs
<1>2. Inv /\ LinkedInv /\ SwapInv => RightFileMoved
  <2> SUFFICES ASSUME Inv, LinkedInv, SwapInv, NEW r \in moves, edits < 5
               PROVE  req[r].linked = Reviewed(r)
    BY DEF RightFileMoved
  <2>1. Swapped(r) /\ edits \in Nat
    BY DEF SwapInv, Inv, SharedOK, SecureFilesTypeOK
  <2> QED
    BY <2>1 DEF Swapped
<1>3. Inv /\ LinkedInv /\ SwapInv /\ [Next]_vars => LinkedInv' /\ SwapInv'
  BY LinkedNext, SwapServe, SwapOthers DEF SwapInv
<1> QED
  BY <1>1, <1>2, <1>3, InvAlways, PTL DEF Spec

-----------------------------------------------------------------------------
(* Every file keeps a name, and only one.                                  *)

(* While nobody else moves names around: no file of the corpus is without  *)
(* a name; a move that is half done has its file under both its names; and *)
(* no other file has two, unless a crash or a failed rollback left them.   *)
HalfMoved(r) == Src(r) # Dst(r) /\ Exists(Src(r)) /\ names[Dst(r)] = names[Src(r)]
TwoNamed(n, m) == n # m /\ Exists(n) /\ names[n] = names[m]
FilesInv ==
  ~renamed =>
    /\ \A n \in Names : InitNames[n] \in Inodes => Linked(InitNames[n])
    /\ \A r \in Requests : req[r].pc \in HalfPcs => HalfMoved(r)
    /\ crashes = 0 /\ "rollback" \notin Faults =>
         \A n, m \in Names : TwoNamed(n, m) =>
           \E r \in Requests : req[r].pc \in HalfPcs /\ {n, m} = {Src(r), Dst(r)}

(* Another name of the same file is enough to take one away.               *)
LEMMA StillLinked ==
  ASSUME names \in [Names -> Inodes \cup {NoInode}], NEW n \in Names, NEW m \in Names,
         TwoNamed(n, m), UnlinkName(n) \/ UnlinkName(m), NEW i, Linked(i)
  PROVE  Linked(i)'
<1>1. PICK k \in Names : names[k] = i
  BY DEF Linked
<1>2. PICK u \in {n, m}, v \in {n, m} : u # v /\ names' = [names EXCEPT ![u] = NoInode]
  BY DEF TwoNamed, UnlinkName
<1>3. CASE k = u
  BY <1>1, <1>2, <1>3 DEF Linked, TwoNamed
<1>4. CASE k # u
  BY <1>1, <1>2, <1>4 DEF Linked
<1> QED
  BY <1>3, <1>4

(* A step of move_file.                                                    *)
LEMMA FilesServe ==
  ASSUME Inv, FilesInv, NEW r \in Requests, Serve(r)
  PROVE  FilesInv'
<1> SUFFICES ASSUME ~renamed'
             PROVE  /\ \A n \in Names : InitNames[n] \in Inodes => Linked(InitNames[n])'
                    /\ \A q \in Requests : req'[q].pc \in HalfPcs => HalfMoved(q)'
                    /\ crashes' = 0 /\ "rollback" \notin Faults =>
                         \A n, m \in Names : TwoNamed(n, m)' =>
                           \E q \in Requests : req'[q].pc \in HalfPcs /\ {n, m} = {Src(q)', Dst(q)'}
  BY DEF FilesInv
<1>0. /\ RequestsOK /\ LockInv /\ names \in [Names -> Inodes \cup {NoInode}]
  BY DEF Inv, GateInv, SharedOK, SecureFilesTypeOK
<1>1. /\ LinkStep(r) /\ TellStep(r) /\ req[r].pc \in BusyPcs /\ req'[r].call = req[r].call
      /\ \A q \in Requests : q # r => req'[q] = req[q]
  BY <1>0, LinkSteps, TellSteps, ServeFrame
<1>2. \A q \in Requests : Src(q)' = Src(q) /\ Dst(q)' = Dst(q)
  BY <1>1 DEF Src, Dst, PlanOf
<1>3. PICK s \in Names, d \in Names : Src(r) = s /\ Dst(r) = d
  BY <1>0, <1>1 DEF PlanOf, RequestsOK, Calls, Src, Dst
<1>4. ~renamed /\ crashes' = crashes
  BY <1>1 DEF LinkStep, TellStep
<1>5. HalfPcs \subseteq GatePcs
  BY DEF HalfPcs, GatePcs
<1>6. ASSUME req[r].pc \in GatePcs, NEW q \in Requests, req[q].pc \in HalfPcs \/ req'[q].pc \in HalfPcs
      PROVE  q = r
  BY <1>0, <1>1, <1>5, <1>6 DEF LockInv
(* The four kinds of steps: none on the directory, a link, an unlink of    *)
(* the source that completes the move, and the undoing of the link.        *)
<1>7. CASE req[r].pc = "link" /\ req'[r].pc = "check_dst"
  <2>1. LinkName(s, d)
    BY <1>1, <1>3, <1>7 DEF LinkStep
  <2>2. /\ names[s] \in Inodes /\ names[d] \notin Inodes /\ s # d
        /\ names' = [names EXCEPT ![d] = names[s]]
    BY <2>1 DEF LinkName, Exists
  <2>3. \A n \in Names : InitNames[n] \in Inodes => Linked(InitNames[n])'
    BY <1>0, <1>4, <2>2 DEF FilesInv, Linked
  <2>4. ASSUME NEW q \in Requests, req'[q].pc \in HalfPcs
        PROVE  HalfMoved(q)'
    <3>1. q = r
      BY <1>6, <1>7, <2>4 DEF GatePcs
    <3> QED
      BY <1>0, <1>2, <1>3, <2>2, <3>1 DEF HalfMoved, Exists
  <2>5. ASSUME crashes' = 0, "rollback" \notin Faults, NEW n \in Names, NEW m \in Names, TwoNamed(n, m)'
        PROVE  \E q \in Requests : req'[q].pc \in HalfPcs /\ {n, m} = {Src(q)', Dst(q)'}
    <3>1. ~TwoNamed(n, m)
      <4>1. \A q \in Requests : req[q].pc \notin HalfPcs
        BY <1>6, <1>7 DEF GatePcs, HalfPcs
      <4> QED
        BY <1>4, <2>5, <4>1 DEF FilesInv
    <3>2. ~TwoNamed(s, n) /\ ~TwoNamed(s, m)
      <4>1. \A q \in Requests : req[q].pc \notin HalfPcs
        BY <1>6, <1>7 DEF GatePcs, HalfPcs
      <4> QED
        BY <1>4, <2>5, <4>1 DEF FilesInv
    <3>3. {n, m} = {s, d}
      BY <1>0, <2>2, <2>5, <3>1, <3>2 DEF TwoNamed, Exists
    <3> QED
      BY <1>2, <1>3, <1>7, <3>3 DEF HalfPcs
  <2> QED
    BY <2>3, <2>4, <2>5
<1>8. CASE (req[r].pc = "unlink" /\ UnlinkName(s)) \/ (req[r].pc = "rollback" /\ UnlinkName(d))
  <2>1. TwoNamed(s, d) /\ TwoNamed(d, s)
    BY <1>3, <1>4, <1>8 DEF FilesInv, HalfPcs, HalfMoved, TwoNamed, Exists
  <2>2. \A n \in Names : InitNames[n] \in Inodes => Linked(InitNames[n])'
    BY <1>0, <1>4, <1>8, <2>1, StillLinked DEF FilesInv
  <2>3. PICK u \in {s, d} : names' = [names EXCEPT ![u] = NoInode]
    BY <1>8 DEF UnlinkName
  <2>4. ASSUME NEW q \in Requests, req'[q].pc \in HalfPcs
        PROVE  FALSE
    <3>1. q = r
      BY <1>6, <1>8, <2>4 DEF GatePcs
    <3>2. req'[r].pc = "rollback"
      BY <1>1, <1>8, <2>4, <3>1 DEF LinkStep, HalfPcs
    <3>3. req[r].pc = "unlink" /\ names' = names
      BY <1>1, <1>8, <3>2 DEF LinkStep, fileVars
    <3> QED
      BY <1>0, <2>1, <2>3, <3>3 DEF TwoNamed, Exists
  <2>5. ASSUME crashes' = 0, "rollback" \notin Faults, NEW n \in Names, NEW m \in Names, TwoNamed(n, m)'
        PROVE  FALSE
    <3>1. TwoNamed(n, m) /\ n # u /\ m # u
      BY <1>0, <2>3, <2>5 DEF TwoNamed, Exists
    <3>2. PICK q \in Requests : req[q].pc \in HalfPcs /\ {n, m} = {Src(q), Dst(q)}
      BY <1>4, <2>5, <3>1 DEF FilesInv
    <3>3. q = r
      BY <1>6, <1>8, <3>2 DEF GatePcs
    <3> QED
      BY <1>3, <2>3, <3>1, <3>2, <3>3
  <2> QED
    BY <2>2, <2>4, <2>5
<1>9. CASE names' = names /\ ~(req[r].pc = "link" /\ req'[r].pc = "check_dst")
  <2>1. \A n \in Names : InitNames[n] \in Inodes => Linked(InitNames[n])'
    BY <1>4, <1>9 DEF FilesInv, Linked
  <2>2. ASSUME NEW q \in Requests, req'[q].pc \in HalfPcs
        PROVE  req[q].pc \in HalfPcs
    BY <1>1, <1>9, <2>2 DEF LinkStep, HalfPcs
  <2>3. \A q \in Requests : req'[q].pc \in HalfPcs => HalfMoved(q)'
    BY <1>2, <1>4, <1>9, <2>2 DEF FilesInv, HalfMoved, Exists
  <2>4. ASSUME "rollback" \notin Faults, NEW q \in Requests, req[q].pc \in HalfPcs
        PROVE  req'[q].pc \in HalfPcs
    <3>1. CASE q # r
      BY <1>1, <2>4, <3>1
    <3>2. CASE q = r /\ req[r].pc \in {"check_dst", "check_src"}
      BY <1>1, <3>2 DEF LinkStep
    <3>3. CASE q = r /\ req[r].pc = "unlink"
      <4>1. Exists(s)
        BY <1>3, <1>4, <3>3 DEF FilesInv, HalfPcs, HalfMoved
      <4>2. ~UnlinkName(s)
        BY <1>0, <1>9, <4>1 DEF UnlinkName, Exists
      <4> QED
        BY <1>1, <1>3, <3>3, <4>2 DEF LinkStep, HalfPcs
    <3>4. CASE q = r /\ req[r].pc = "rollback"
      <4>1. Exists(d)
        BY <1>3, <1>4, <3>4 DEF FilesInv, HalfPcs, HalfMoved, Exists
      <4>2. ~UnlinkName(d)
        BY <1>0, <1>9, <4>1 DEF UnlinkName, Exists
      <4> QED
        BY <1>1, <1>3, <2>4, <3>4, <4>1, <4>2 DEF LinkStep
    <3> QED
      BY <2>4, <3>1, <3>2, <3>3, <3>4 DEF HalfPcs
  <2>5. ASSUME crashes' = 0, "rollback" \notin Faults, NEW n \in Names, NEW m \in Names, TwoNamed(n, m)'
        PROVE  \E q \in Requests : req'[q].pc \in HalfPcs /\ {n, m} = {Src(q)', Dst(q)'}
    <3>1. TwoNamed(n, m)
      BY <1>9, <2>5 DEF TwoNamed, Exists
    <3>2. PICK q \in Requests : req[q].pc \in HalfPcs /\ {n, m} = {Src(q), Dst(q)}
      BY <1>4, <2>5, <3>1 DEF FilesInv
    <3> QED
      BY <1>2, <2>4, <2>5, <3>2
  <2> QED
    BY <2>1, <2>3, <2>5
<1>10. \/ names' = names
       \/ req[r].pc = "link" /\ req'[r].pc = "check_dst"
       \/ req[r].pc = "unlink" /\ UnlinkName(s)
       \/ req[r].pc = "rollback" /\ UnlinkName(d)
  BY <1>1, <1>3 DEF LinkStep
<1> QED
  BY <1>7, <1>8, <1>9, <1>10

(* A step that touches neither the names nor a half done move.             *)
LEMMA FilesStay ==
  ASSUME FilesInv, crashes' = crashes, ~renamed' => ~renamed /\ names' = names,
         \A q \in Requests :
           /\ req'[q].pc \in HalfPcs <=> req[q].pc \in HalfPcs
           /\ req[q].pc \in HalfPcs => Src(q)' = Src(q) /\ Dst(q)' = Dst(q)
  PROVE  FilesInv'
<1> SUFFICES ASSUME ~renamed, names' = names
             PROVE  /\ \A n \in Names : InitNames[n] \in Inodes => Linked(InitNames[n])'
                    /\ \A q \in Requests : req'[q].pc \in HalfPcs => HalfMoved(q)'
                    /\ crashes' = 0 /\ "rollback" \notin Faults =>
                         \A n, m \in Names : TwoNamed(n, m)' =>
                           \E q \in Requests : req'[q].pc \in HalfPcs /\ {n, m} = {Src(q)', Dst(q)'}
  BY DEF FilesInv
<1>1. \A n \in Names : InitNames[n] \in Inodes => Linked(InitNames[n])'
  BY DEF FilesInv, Linked
<1>2. \A q \in Requests : req'[q].pc \in HalfPcs => HalfMoved(q)'
  BY DEF FilesInv, HalfMoved, Exists
<1>3. ASSUME crashes' = 0, "rollback" \notin Faults, NEW n \in Names, NEW m \in Names, TwoNamed(n, m)'
      PROVE  \E q \in Requests : req'[q].pc \in HalfPcs /\ {n, m} = {Src(q)', Dst(q)'}
  <2>1. TwoNamed(n, m)
    BY <1>3 DEF TwoNamed, Exists
  <2>2. PICK q \in Requests : req[q].pc \in HalfPcs /\ {n, m} = {Src(q), Dst(q)}
    BY <1>3, <2>1 DEF FilesInv
  <2> QED
    BY <2>2
<1> QED
  BY <1>1, <1>2, <1>3

(* Everything else leaves names alone or sets renamed.                     *)
LEMMA FilesNext ==
  ASSUME Inv, FilesInv, [Next]_vars
  PROVE  FilesInv'
<1>0. RequestsOK /\ SharedOK /\ crashes \in Nat /\ LockInv
  BY DEF Inv, GateInv, SharedOK
<1>1. ASSUME NEW r \in Requests, NEW c \in Calls, Decide(r, c)
      PROVE  FilesInv'
  <2>1. /\ UNCHANGED <<names, renamed, crashes>>
        /\ req[r].pc \notin HalfPcs /\ req'[r].pc \notin HalfPcs
        /\ \A q \in Requests : q # r => req'[q] = req[q]
    BY <1>0, <1>1, DecideFrame DEF localVars, fileVars, HalfPcs
  <2>2. \A q \in Requests : q # r => Src(q)' = Src(q) /\ Dst(q)' = Dst(q)
    BY <2>1 DEF Src, Dst, PlanOf
  <2> QED
    BY <2>1, <2>2, FilesStay
<1>2. CASE Crash
  <2>1. UNCHANGED <<names, renamed>> /\ crashes' # 0
    BY <1>0, <1>2 DEF Crash, fileVars
  <2>2. \A q \in Requests : req'[q].pc \notin HalfPcs
    BY <1>0, <1>2, CrashFrame DEF HalfPcs, BusyPcs, GatePcs
  <2> QED
    BY <2>1, <2>2 DEF FilesInv, Linked
<1>3. CASE Outside
  <2>1. UNCHANGED <<req, crashes>> /\ (~renamed' => ~renamed /\ names' = names)
    <3>1. UNCHANGED req
      BY <1>0, <1>3, OutsideFrame
    <3>2. UNCHANGED crashes
      BY <1>3 DEF Outside, ProposeInsert, RegisterReview, SignReview, Environment, serverVars, vars
    <3>3. ASSUME ~renamed'
          PROVE  ~renamed /\ names' = names
      <4>1. CASE UNCHANGED fileVars
        BY <3>3, <4>1 DEF fileVars
      <4>2. CASE OtherPrograms
        BY <3>3, <4>2 DEF OtherPrograms, EditInPlace, SaveOver, Remove, RenameTo
      <4> QED
        BY <1>3, <4>1, <4>2 DEF Outside, Environment, ProposeInsert, RegisterReview, SignReview, vars, fileVars
    <3> QED
      BY <3>1, <3>2, <3>3
  <2>2. \A q \in Requests : Src(q)' = Src(q) /\ Dst(q)' = Dst(q)
    BY <2>1 DEF Src, Dst, PlanOf
  <2> QED
    BY <2>1, <2>2, FilesStay
<1> QED
  BY <1>1, <1>2, <1>3, FilesServe, StepKinds

(* If no file has two names at the start, then until another program       *)
(* renames, replaces or removes one every file keeps a name through moves, *)
(* failures, rollbacks and crashes, and between two moves just one, unless *)
(* a crash or a failed rollback left the second (move_file).               *)
THEOREM FilesKept ==
  ASSUME \A n, m \in Names : InitNames[n] \in Inodes /\ InitNames[n] = InitNames[m] => n = m
  PROVE  Spec => []FilesKeepOneName
<1>1. Init => FilesInv
  <2> SUFFICES ASSUME Init PROVE FilesInv
    OBVIOUS
  <2>1. names = InitNames /\ \A r \in Requests : req[r].pc = "new"
    BY DEF Init, SecureFilesInit, NewRequest
  <2> QED
    BY <2>1 DEF FilesInv, Linked, HalfPcs, TwoNamed, Exists
<1>2. Inv /\ FilesInv => FilesKeepOneName
  <2> SUFFICES ASSUME Inv, FilesInv PROVE FilesKeepOneName
    OBVIOUS
  <2>1. NothingLost
    BY DEF FilesInv, NothingLost
  <2>2. lock = NoRequest => \A r \in Requests : req[r].pc \notin HalfPcs
    BY DEF Inv, GateInv, LockInv, HalfPcs, GatePcs
  <2>3. NoLeftovers
    BY <2>2 DEF FilesInv, NoLeftovers, TwoNamed
  <2> QED
    BY <2>1, <2>3 DEF FilesKeepOneName
<1>3. Inv /\ FilesInv /\ [Next]_vars => FilesInv'
  BY FilesNext
<1> QED
  BY <1>1, <1>2, <1>3, InvAlways, PTL DEF Spec

-----------------------------------------------------------------------------
(* Refinement.                                                             *)

(* What the abstract gate sees of the state.                               *)
SignedFor == [g \in Grants |-> IF Signed(g) THEN issued[g].plan ELSE NoGrant]
Moved == {<<PlanOf(r), req[r].auth>> : r \in moves}

(* A step of the system is a step of the abstract gate or a stutter: a     *)
(* signature signs, the INSERT of consume spends, the unlink of move_file  *)
(* moves, and nothing else is visible.                                     *)
LEMMA StepRefines == Inv /\ [Next]_vars => [Gatekeeper!Next]_(Gatekeeper!vars)
<1> SUFFICES ASSUME RequestsOK, SharedOK, GateInv, [Next]_vars
             PROVE  [Gatekeeper!Next]_(Gatekeeper!vars)
  BY DEF Inv
<1> USE DEF GateInv
<1>0. moves \subseteq Requests
  BY DEF SharedOK
<1>1. ASSUME issued' = issued
      PROVE  SignedFor' = SignedFor
  BY <1>1 DEF SignedFor, Signed
<1>2. ASSUME moves' = moves, \A q \in moves : req'[q].call = req[q].call /\ req'[q].auth = req[q].auth
      PROVE  Moved' = Moved
  BY <1>2 DEF Moved, PlanOf
<1>3. ASSUME SignedFor' = SignedFor, burnt' = burnt, Moved' = Moved
      PROVE  UNCHANGED Gatekeeper!vars
  BY <1>3 DEF Gatekeeper!vars, SignedFor, Moved
<1>4. ASSUME NEW r \in Requests, Serve(r)
      PROVE  [Gatekeeper!Next]_(Gatekeeper!vars)
  <2>1. GrantStep(r) /\ MoveStep(r) /\ SignedFor' = SignedFor
    BY <1>1, <1>4, ServeSteps DEF GrantStep
  <2>2. req'[r].call = req[r].call /\ \A q \in Requests : q # r => req'[q] = req[q]
    BY <1>4, ServeFrame
  <2>3. CASE req[r].pc = "unlink" /\ req'[r].pc = "mark" /\ moves' = moves \cup {r}
    <3>1. req[r].auth # NoGrant /\ req'[r].auth = req[r].auth /\ burnt' = burnt
      BY <2>1, <2>3 DEF GrantStep, RecordInv, IntentPcs
    <3>2. /\ req[r].auth \in Grants /\ req[r].auth \in burnt
          /\ SignedFor[req[r].auth] = PlanOf(r)
      BY <3>1 DEF GrantInv, Covers, SignedFor
    <3>3. PlanOf(r) \in Plans
      BY <1>4, ServeFrame DEF RequestsOK, PlanOf, Calls
    <3>4. \A q \in moves : q = r \/ PlanOf(q) # PlanOf(r)
      BY <1>0, <2>3 DEF OnceInv, MovingPcs
    <3>5. r \notin moves
      BY <2>3 DEF MovesInv, MovedPcs
    <3>6. \A h \in Grants : <<PlanOf(r), h>> \notin Moved
      BY <3>4, <3>5 DEF Moved
    <3>7. Moved' = Moved \cup {<<PlanOf(r), req[r].auth>>}
      BY <1>0, <2>2, <2>3, <3>1 DEF Moved, PlanOf
    <3>8. PICK p \in Plans, g \in Grants : p = PlanOf(r) /\ g = req[r].auth
      BY <3>2, <3>3
    <3>9. Gatekeeper!Move(p, g)
      BY <2>1, <3>1, <3>2, <3>6, <3>7, <3>8 DEF Gatekeeper!Move, SignedFor, Moved
    <3> QED
      BY <3>9 DEF Gatekeeper!Next
  <2>4. CASE moves' = moves
    <3>1. Moved' = Moved
      <4>1. \A q \in moves : req'[q].call = req[q].call /\ req'[q].auth = req[q].auth
        BY <1>0, <2>1, <2>2 DEF GrantStep, MovesInv, MovedPcs
      <4> QED BY <1>2, <2>4, <4>1
    <3>2. CASE burnt' = burnt
      BY <1>3, <2>1, <3>1, <3>2
    <3>3. CASE /\ req[r].pc = "consume"
               /\ TokenOf(r) \in Grants \ burnt
               /\ burnt' = burnt \cup {TokenOf(r)}
      <4>1. SignedFor[TokenOf(r)] # NoGrant
        BY <3>3 DEF GrantInv, Covers, SignedFor, Signed, Capability
      <4>2. Gatekeeper!Spend(TokenOf(r))
        BY <2>1, <3>1, <3>3, <4>1 DEF Gatekeeper!Spend, SignedFor, Moved
      <4> QED
        BY <3>3, <4>2 DEF Gatekeeper!Next
    <3> QED
      BY <2>1, <3>2, <3>3 DEF GrantStep
  <2> QED
    BY <2>1, <2>3, <2>4 DEF MoveStep
<1>5. ASSUME NEW r \in Requests, NEW c \in Calls, Decide(r, c)
      PROVE  UNCHANGED Gatekeeper!vars
  <2>1. issued' = issued /\ burnt' = burnt /\ moves' = moves
    BY <1>5 DEF Decide, localVars, ledgerVars
  <2>2. \A q \in moves : q # r
    BY <1>5, DecideFrame DEF MovesInv, MovedPcs
  <2>3. \A q \in moves : req'[q] = req[q]
    BY <1>0, <1>5, <2>2, DecideFrame
  <2> QED
    BY <1>1, <1>2, <1>3, <2>1, <2>3
<1>6. CASE Crash
  <2>1. issued' = issued /\ burnt' = burnt /\ moves' = moves
    BY <1>6 DEF Crash, ledgerVars
  <2> QED
    BY <1>0, <1>1, <1>2, <1>3, <1>6, <2>1, CrashFrame
<1>7. CASE Outside
  <2>1. UNCHANGED <<req, moves, burnt>> /\ Moved' = Moved
    BY <1>2, <1>7, OutsideFrame
  <2>2. ASSUME NEW p \in Plans, NEW g \in Grants, SignReview(p, g)
        PROVE  Gatekeeper!Sign(g, p)
    <3>1. PICK at \in Nat, ttl \in Nat :
            issued' = [issued EXCEPT ![g] = [plan |-> p, at |-> at, expires |-> at + ttl]]
      <4>1. now..(now + Skew + 1) \subseteq Nat /\ 1..MaxTtl \subseteq Nat
        BY DEF SharedOK, ApprovalsTypeOK
      <4> QED
        BY <2>2, <4>1 DEF SignReview, Sign
    <3>2. issued[g] = NoGrant /\ issued \in [Grants -> Capability \cup {NoGrant}]
      BY <2>2 DEF SignReview, Sign, SharedOK, ApprovalsTypeOK
    <3>3. SignedFor[g] = NoGrant
      BY <3>2 DEF SignedFor, Signed
    <3>4. SignedFor' = [SignedFor EXCEPT ![g] = p]
      <4>1. [plan |-> p, at |-> at, expires |-> at + ttl] \in Capability
        BY DEF Capability
      <4> QED
        BY <3>1, <3>2, <4>1 DEF SignedFor, Signed
    <3> QED
      BY <2>1, <3>3, <3>4 DEF Gatekeeper!Sign, SignedFor, Moved
  <2>3. issued' = issued \/ \E p \in Plans, g \in Grants : SignReview(p, g)
    BY <1>7 DEF Outside, ProposeInsert, RegisterReview, Environment, Tick, ledgerVars, vars
  <2> QED
    BY <1>1, <1>3, <2>1, <2>2, <2>3 DEF Gatekeeper!Next
<1> QED
  BY <1>4, <1>5, <1>6, <1>7, StepKinds

(* The gate with its threads, files, faults and restarts implements        *)
(* MoveGate: an operator's signature, a spent grant and a moved plan are   *)
(* what the abstract gate allows, in the order it allows them.             *)
THEOREM Implements == Spec => ImplementsMoveGate
<1>1. Init => Gatekeeper!Init
  <2> SUFFICES ASSUME Init PROVE Gatekeeper!Init
    OBVIOUS
  <2>1. \A g \in Grants : ~Signed(g)
    BY DEF Init, ApprovalsInit, Signed
  <2>2. burnt = {} /\ moves = {}
    BY DEF Init, ApprovalsInit
  <2> QED
    BY <2>1, <2>2 DEF Gatekeeper!Init
<1> QED
  BY <1>1, InvAlways, StepRefines, PTL DEF Spec, ImplementsMoveGate, Gatekeeper!Spec
=============================================================================
