------------------------------ MODULE PlansPanel ------------------------------
(* The panel of the web page where plans are proposed and decided            *)
(* (src/.frontend/app/components/plans-panel.tsx).  A refresh does not make  *)
(* the panel busy, so lists that were asked for earlier may arrive during a  *)
(* decision and after it.  The server is what the panel may meet: an approval *)
(* needs a token that was issued for the plan, and one that was checked      *)
(* before a rejection may still be applied after it (plans.py:98).           *)
(* The error line, and what is typed into the other fields, is left out.     *)
EXTENDS Naturals, FiniteSets

CONSTANTS Plans,
          Tokens,       \* what may be typed into a token field: each token
                        \* is named by the plan that it was issued for
          MaxLists,     \* bound: lists asked for
          Empty         \* nothing: no token, no request, no list

Statuses == {"absent", "pending_approval", "applied", "rejected"}
Kinds == {"propose", "approve", "reject"}
Posts == [what : Kinds, plan : Plans, token : Tokens \union {Empty},
          at : {"sent", "accepted", "refused", "refreshing"}]

ASSUME PanelAssumption ==
    Empty \notin Tokens \union Posts \union [Plans -> Statuses]

VARIABLES
    server,      \* status of each plan at the server
    shown,       \* plans
    tokens,      \* tokens, by plan
    posting,     \* busy, with the request that is under way
    lists        \* refreshes under way: their number and what the server said
pageVars == <<server, shown, tokens, posting, lists>>

NoPlans == [p \in Plans |-> "absent"]
Pending(p) == shown[p] = "pending_approval"

(* The effect of the first render asks for the list.                         *)
PageInit ==
    /\ \E p \in Plans : server = [NoPlans EXCEPT ![p] = "pending_approval"]
    /\ shown = NoPlans /\ tokens = [p \in Plans |-> Empty]
    /\ posting = Empty
    /\ lists = {[id |-> 1, own |-> FALSE, said |-> Empty]}

Refresh(own) ==
    \E id \in 1 .. MaxLists :
        /\ id \notin {l.id : l \in lists} /\ \A j \in 1 .. id - 1 : j \in {l.id : l \in lists}
        /\ lists' = lists \union {[id |-> id, own |-> own, said |-> Empty]}
ClickRefresh ==
    /\ posting = Empty /\ Refresh(FALSE)
    /\ UNCHANGED <<server, shown, tokens, posting>>

(* The field stays enabled while a request is under way.                     *)
EnterToken(p, t) ==
    /\ Pending(p) /\ tokens[p] # t /\ tokens' = [tokens EXCEPT ![p] = t]
    /\ UNCHANGED <<server, shown, posting, lists>>

Post(what, p, token) ==
    posting' = [what |-> what, plan |-> p, token |-> token, at |-> "sent"]
Propose(p) ==
    /\ posting = Empty /\ Post("propose", p, Empty)
    /\ UNCHANGED <<server, shown, tokens, lists>>
Decide(p, what) ==
    /\ posting = Empty /\ Pending(p)
    /\ what = "approve" => tokens[p] # Empty
    /\ Post(what, p, IF what = "approve" THEN tokens[p] ELSE Empty)
    /\ UNCHANGED <<server, shown, tokens, lists>>

(* The server, and what others make of the plans.                            *)
Accepts(r) ==
    CASE r.what = "propose" -> server[r.plan] = "absent"
      [] r.what = "reject" -> server[r.plan] = "pending_approval"
      [] r.what = "approve" -> /\ server[r.plan] \in {"pending_approval", "rejected"}
                               /\ r.token = r.plan
Outcome == [propose |-> "pending_approval", approve |-> "applied", reject |-> "rejected"]
ServerDecides ==
    /\ posting # Empty /\ posting.at = "sent"
    /\ \/ Accepts(posting) /\ server' = [server EXCEPT ![posting.plan] = Outcome[posting.what]]
                           /\ posting' = [posting EXCEPT !.at = "accepted"]
       \/ UNCHANGED server /\ posting' = [posting EXCEPT !.at = "refused"]
    /\ UNCHANGED <<shown, tokens, lists>>
OthersDecide(p, status) ==
    /\ <<server[p], status>> \in {"pending_approval", "rejected"} \X {"applied", "rejected"}
    /\ status # server[p]
    /\ server' = [server EXCEPT ![p] = status]
    /\ UNCHANGED <<shown, tokens, posting, lists>>
ServerLists(l) ==
    /\ l \in lists /\ l.said = Empty
    /\ lists' = (lists \ {l}) \union {[l EXCEPT !.said = server]}
    /\ UNCHANGED <<server, shown, tokens, posting>>

(* The answer to post: after an error the token is kept; otherwise the       *)
(* list is asked for before the request counts as ended.  The answer of a    *)
(* server that accepted may be lost on the way.                              *)
PostAnswered ==
    /\ posting # Empty
    /\ \/ posting.at = "accepted" /\ Refresh(TRUE) /\ posting' = [posting EXCEPT !.at = "refreshing"]
       \/ posting.at \in {"accepted", "refused"} /\ posting' = Empty /\ UNCHANGED lists
    /\ UNCHANGED <<server, shown, tokens>>

(* Mutant: a decision clears all tokens.                                    *)
ForgetsEveryToken(r) ==
    IF r.what \in {"approve", "reject"} THEN [p \in Plans |-> Empty] ELSE tokens

(* decide, after post returned true.                                         *)
Forgets(r) ==
    IF r.what \in {"approve", "reject"} THEN [tokens EXCEPT ![r.plan] = Empty] ELSE tokens

(* refresh, when its list or its failure arrives; the refresh that post      *)
(* waits for catches its own failure, and ends the request either way.       *)
ListArrives(l) ==
    /\ l \in lists /\ lists' = lists \ {l}
    /\ (l.said # Empty /\ shown' = l.said) \/ UNCHANGED shown
    /\ IF l.own THEN posting' = Empty /\ tokens' = Forgets(posting)
       ELSE UNCHANGED <<posting, tokens>>
    /\ UNCHANGED server

PageNext ==
    \/ ClickRefresh \/ ServerDecides \/ PostAnswered
    \/ \E p \in Plans : \/ Propose(p) \/ \E what \in {"approve", "reject"} : Decide(p, what)
                        \/ \E t \in Tokens : EnterToken(p, t)
                        \/ \E status \in Statuses : OthersDecide(p, status)
    \/ \E l \in lists : ServerLists(l) \/ ListArrives(l)

----------------------------------------------------------------------------
(* What the panel shows as decided is decided, however old the list that     *)
(* arrived last; and it forgets a token only for a plan that the server has  *)
(* decided, never after a refusal or an answer that was lost.                *)
PanelKnows ==
    \A p \in Plans :
        /\ shown[p] = "applied" => server[p] = "applied"
        /\ shown[p] = "rejected" => server[p] \in {"rejected", "applied"}
TokenKept ==
    [][\A p \in Plans : tokens[p] # Empty /\ tokens'[p] = Empty
            => server[p] \in {"applied", "rejected"}]_pageVars

(* A click leaves the panel busy only while an answer is under way.          *)
PanelReleases == (posting # Empty) ~> (posting = Empty)
=============================================================================
