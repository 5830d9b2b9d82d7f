------------------------------ MODULE Approvals ------------------------------
(***************************************************************************)
(* Operator-issued capabilities (app/mcp/approvals.py) and the SQLite      *)
(* ledger that consumes them.  A capability is a signed grant: the grant   *)
(* id is an element of Grants, and issued[g] is what the operator signed   *)
(* under it, or NoGrant while nobody has signed it.  Presenting a g with   *)
(* issued[g] = NoGrant stands for any token whose HMAC does not verify.    *)
(*                                                                         *)
(* A review names its plan and its session by fresh UUIDs and never        *)
(* changes once registered, so the hash a grant is bound to is modelled    *)
(* by the plan it reviews.                                                 *)
(***************************************************************************)
EXTENDS Naturals

CONSTANTS
  Plans,    \* plan ids
  Grants,   \* grant ids
  NoGrant,  \* "no token", "not signed"
  MaxTtl,   \* longest lifetime a signature may carry (3600 s in the code)
  Skew,     \* tolerated clock difference (5 s in the code)
  MaxTime   \* bound of the model: the clock stops there

VARIABLES
  now,     \* the server's clock
  issued,  \* what the operator signed under each grant id
  burnt    \* grant ids in the ledger's grants table

ledgerVars == <<issued, burnt>>

(* A grant body: its review (plan), issued_at and expires_at.              *)
Capability == [plan : Plans, at : Nat, expires : Nat]

ASSUME ApprovalsAssumption ==
  /\ MaxTtl \in Nat \ {0}
  /\ Skew \in Nat
  /\ MaxTime \in Nat
  /\ NoGrant \notin Grants \cup Plans
  /\ NoGrant \notin Capability

Signed(g) == issued[g] \in Capability

ApprovalsTypeOK ==
  /\ now \in Nat
  /\ issued \in [Grants -> Capability \cup {NoGrant}]
  /\ burnt \in SUBSET Grants

ApprovalsInit ==
  /\ now = 0
  /\ issued = [g \in Grants |-> NoGrant]
  /\ burnt = {}

(* sign_review: the operator signs plan p under a fresh grant id.  The     *)
(* operator's clock may be ahead of the server's, by more than Skew too.   *)
Sign(g, p) ==
  /\ issued[g] = NoGrant
  /\ \E at \in now..(now + Skew + 1), ttl \in 1..MaxTtl :
       issued' = [issued EXCEPT ![g] = [plan |-> p, at |-> at, expires |-> at + ttl]]
  /\ UNCHANGED <<now, burnt>>

(* Mutants of the definitions below, for testing the properties.           *)
AdmitsAtExpiry(g, p, instant) ==
  Signed(g) /\ issued[g].plan = p /\ instant <= issued[g].expires /\ issued[g].at <= instant + Skew
AdmitsAnyPlan(g, p, instant) ==
  Signed(g) /\ instant < issued[g].expires /\ issued[g].at <= instant + Skew
UnspentUnchecked(g) == Signed(g)

(* consume, first half: everything it checks before it opens the ledger,   *)
(* at the instant it read the clock.                                       *)
Admits(g, p, instant) ==
  /\ Signed(g)
  /\ issued[g].plan = p
  /\ issued[g].at < issued[g].expires
  /\ issued[g].expires <= issued[g].at + MaxTtl
  /\ instant < issued[g].expires
  /\ issued[g].at <= instant + Skew

(* consume, second half: INSERT into the grants table, whose primary key   *)
(* refuses a grant id that is already there.                               *)
Unspent(g) == g \notin burnt
Burn(g) == burnt' = burnt \cup {g}

(* time.time() on the server moves on.                                     *)
Tick ==
  /\ now < MaxTime
  /\ now' = now + 1
  /\ UNCHANGED ledgerVars
=============================================================================
