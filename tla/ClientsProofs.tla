---------------------------- MODULE ClientsProofs ----------------------------
(* Theorems about the companion app and the plans panel, for any texts,      *)
(* services, plans and tokens, and for any number of requests and edits.     *)
(*                                                                           *)
(* The app: a request that may still show its answer, the one with the       *)
(* number of the last operation, was sent what is on the screen (AppInv,     *)
(* AgentInv).  The panel: whatever list is under way, the server has moved   *)
(* on in one direction only since it was made (PanelInv).                    *)
EXTENDS Clients, SequenceTheorems, TLAPS

----------------------------------------------------------------------------
(* The companion app.                                                        *)

\* The agent's panel: numbers in use, what the last operation was sent, and
\* what the shown answer was asked for.
AgentInv ==
    /\ agentOp \in Nat
    /\ \A r \in agentFlight : /\ r.id \in Nat /\ r.id <= agentOp
                              /\ r.id = agentOp => <<r.text, r.from>> = agentSeen
    /\ agentResult # NoResult => agentResult = [text |-> agentSeen[1], from |-> agentSeen[2]]

\* The screens: while the last operation is under way the app is busy with
\* it, and the settings are those it was sent.
AppInv ==
    /\ operation \in Nat
    /\ \A r \in flight : /\ r.id \in Nat /\ r.id <= operation
                         /\ r.id = operation => busy \in {"research", "soccer"} /\ r.from = settings
    /\ \A r, s \in flight : r.id = s.id => r = s
    /\ ResultsOfCurrentServices

MobileInv == AgentInv /\ AppInv

LEMMA MobileInit == ASSUME Init PROVE MobileInv
  BY DEF Init, MobileInv, AgentInv, AppInv, ResultsOfCurrentServices

\* The panel's part of a step of the app.
LEMMA AgentStep == ASSUME AgentInv, [Next]_vars PROVE AgentInv'
<1> USE DEF AgentInv, NoResult
<1>1. ASSUME NEW t \in Texts, EditQuery(t) \/ EditMatch(t) \/ RunResearch(t) PROVE AgentInv'
  BY <1>1 DEF EditQuery, EditMatch, RunResearch, panelVars, appVars
<1>2. CASE RunSoccer \/ CheckConnections \/ HealthAnswers
  BY <1>2 DEF RunSoccer, CheckConnections, HealthAnswers, panelVars
<1>3. ASSUME NEW r \in flight, Settle(r) PROVE AgentInv'
  BY <1>3 DEF Settle, panelVars
<1>4. ASSUME NEW s \in Services, ApplySettings(s) PROVE AgentInv'
  BY <1>4 DEF ApplySettings
<1>5. CASE RunAgent
  BY <1>5 DEF RunAgent, Rendered, Deps
<1>6. CASE AgentEffect
  BY <1>6 DEF AgentEffect
<1>7. ASSUME NEW r \in agentFlight, AgentSettles(r) PROVE AgentInv'
  BY <1>7 DEF AgentSettles, AgentCurrent
<1>8. ASSUME NEW i \in Items, Save(i) \/ RemoveItem(i) PROVE AgentInv'
  BY <1>8 DEF Save, RemoveItem, panelVars
<1>9. CASE Restart
  BY <1>9 DEF Restart
<1>10. CASE UNCHANGED vars
  BY <1>10 DEF vars, panelVars
<1> QED
  BY <1>1, <1>2, <1>3, <1>4, <1>5, <1>6, <1>7, <1>8, <1>9, <1>10 DEF Next, Typing, Panel

\* The screens' part of a step of the app.
LEMMA AppStep == ASSUME AppInv, [Next]_vars PROVE AppInv'
<1> USE MobileAssumption DEF AppInv, ResultsOfCurrentServices, NoResult
<1>1. ASSUME NEW t \in Texts, EditQuery(t) PROVE AppInv'
  BY <1>1 DEF EditQuery
<1>2. ASSUME NEW t \in Texts, EditMatch(t) PROVE AppInv'
  BY <1>2 DEF EditMatch
<1>3. ASSUME NEW t \in Texts, RunResearch(t) PROVE AppInv'
  BY <1>3 DEF RunResearch, Request
<1>4. CASE RunSoccer
  BY <1>4 DEF RunSoccer, Request
<1>5. CASE CheckConnections \/ HealthAnswers
  BY <1>5 DEF CheckConnections, HealthAnswers
<1>6. ASSUME NEW r \in flight, Settle(r) PROVE AppInv'
  BY <1>6 DEF Settle, Current
<1>7. ASSUME NEW s \in Services, ApplySettings(s) PROVE AppInv'
  BY <1>7 DEF ApplySettings
<1>8. CASE RunAgent \/ AgentEffect
  BY <1>8 DEF RunAgent, AgentEffect, appVars
<1>9. ASSUME NEW r \in agentFlight, AgentSettles(r) PROVE AppInv'
  BY <1>9 DEF AgentSettles, appVars
<1>10. ASSUME NEW i \in Items, Save(i) \/ RemoveItem(i) PROVE AppInv'
  BY <1>10 DEF Save, RemoveItem, appVars
<1>11. CASE Restart
  BY <1>11 DEF Restart
<1>12. CASE UNCHANGED vars
  BY <1>12 DEF vars, appVars
<1> QED
  BY <1>1, <1>2, <1>3, <1>4, <1>5, <1>6, <1>7, <1>8, <1>9, <1>10, <1>11, <1>12
  DEF Next, Typing, Panel

\* A step of the web page leaves the app as it is.
LEMMA ClientMobileStep == ASSUME MobileInv, [ClientNext]_ClientVars PROVE MobileInv'
<1>1. [Next]_vars
  BY DEF ClientNext, ClientVars
<1> QED
  BY <1>1, AgentStep, AppStep DEF MobileInv

\* However late an answer arrives, what the app shows is about the text and
\* from the services that are on the screen (App.tsx, ResearchAgent.tsx).
THEOREM AnswersStayCurrent == ClientSpec => []AnswersAreCurrent
<1>1. ClientInit => MobileInv
  BY MobileInit DEF ClientInit
<1>2. MobileInv /\ [ClientNext]_ClientVars => MobileInv'
  BY ClientMobileStep
<1>3. MobileInv => AnswersAreCurrent
  BY DEF MobileInv, AgentInv, AppInv, AnswersAreCurrent, AgentAnswerIsCurrent, Deps
<1> QED
  BY <1>1, <1>2, <1>3, PTL DEF ClientSpec

\* The library: what is kept and what is stored would be read back.
Shelf(items) == items \in Seq(Items) /\ IsInjective(items) /\ Len(items) <= Capacity
LibraryInv == Shelf(saved) /\ Shelf(stored)

\* An item that is not there is put in front, and one that is there is
\* dropped: a library remains.
LEMMA ShelfGrows ==
    ASSUME NEW items, Shelf(items), NEW item \in Items,
           item \notin ToSet(items), Len(items) < Capacity
    PROVE  Shelf(<<item>> \o items)
<1> DEFINE more == <<item>> \o items
<1> USE MobileAssumption
<1>1. more \in Seq(Items) /\ Len(more) = Len(items) + 1
  BY DEF Shelf
<1>2. more[1] = item /\ \A i \in 2 .. Len(more) : more[i] = items[i - 1]
  BY DEF Shelf
<1>3. \A i \in 1 .. Len(items) : items[i] # item
  BY DEF Shelf, ToSet
<1>4. ASSUME NEW i \in 1 .. Len(more), NEW j \in 1 .. Len(more), more[i] = more[j]
      PROVE  i = j
  BY <1>1, <1>2, <1>3, <1>4 DEF Shelf, IsInjective
<1> QED
  BY <1>1, <1>4 DEF Shelf, IsInjective

LEMMA ShelfShrinks ==
    ASSUME NEW items, Shelf(items), NEW at \in DOMAIN items
    PROVE  Shelf(RemoveAt(items, at))
<1> DEFINE before == SubSeq(items, 1, at - 1)
           after == SubSeq(items, at + 1, Len(items))
           left == before \o after
           place(n) == IF n < at THEN n ELSE n + 1
<1> USE MobileAssumption
<1>1. at \in 1 .. Len(items) /\ Len(items) \in Nat
  BY DEF Shelf
<1>2. before \in Seq(Items) /\ Len(before) = at - 1
      /\ \A i \in 1 .. at - 1 : before[i] = items[i]
  BY <1>1 DEF Shelf
<1>3. after \in Seq(Items) /\ Len(after) = Len(items) - at
      /\ \A i \in 1 .. Len(items) - at : after[i] = items[at + i]
  BY <1>1 DEF Shelf
<1>4. /\ left \in Seq(Items) /\ Len(left) = Len(items) - 1
      /\ \A i \in 1 .. Len(items) - 1 :
            left[i] = IF i <= at - 1 THEN before[i] ELSE after[i - (at - 1)]
  <2> HIDE DEF before, after
  <2>1. Len(before) + Len(after) = Len(items) - 1
    BY <1>1, <1>2, <1>3
  <2>2. /\ left \in Seq(Items) /\ Len(left) = Len(before) + Len(after)
        /\ \A i \in 1 .. Len(before) + Len(after) :
              left[i] = IF i <= Len(before) THEN before[i] ELSE after[i - Len(before)]
    BY <1>2, <1>3, ConcatProperties, Zenon
  <2> HIDE DEF left
  <2> QED
    BY <1>2, <2>1, <2>2
<1>5. ASSUME NEW i \in 1 .. Len(items) - 1
      PROVE  place(i) \in DOMAIN items /\ left[i] = items[place(i)]
  <2> HIDE DEF before, after, left
  <2>1. CASE i < at
    BY <1>1, <1>2, <1>4, <2>1 DEF Shelf
  <2>2. CASE i >= at
    <3>1. i - (at - 1) \in 1 .. Len(items) - at /\ at + (i - (at - 1)) = i + 1
      BY <1>1, <2>2
    <3>2. left[i] = after[i - (at - 1)]
      <4>1. ~(i <= at - 1)
        BY <1>1, <2>2
      <4> QED
        BY <1>4, <4>1, Zenon
    <3>3. after[i - (at - 1)] = items[i + 1]
      BY <1>3, <3>1, Zenon
    <3> QED
      BY <1>1, <2>2, <3>2, <3>3 DEF Shelf
  <2> QED
    BY <1>1, <2>1, <2>2
<1>6. ASSUME NEW i \in 1 .. Len(items) - 1, NEW j \in 1 .. Len(items) - 1, left[i] = left[j]
      PROVE  i = j
  <2>1. place(i) = place(j)
    <3> HIDE DEF left, place
    <3> QED
      BY <1>5, <1>6 DEF Shelf, IsInjective
  <2> QED
    BY <1>1, <2>1
<1>7. Shelf(left)
  <2> HIDE DEF left
  <2> QED
    BY <1>1, <1>4, <1>6 DEF Shelf, IsInjective
<1> QED
  BY <1>7 DEF RemoveAt

\* Storing may fail, and then leaves what was stored.
LEMMA StoreKeeps ==
    ASSUME LibraryInv, NEW items, Shelf(items), Store(items)
    PROVE  LibraryInv'
  BY DEF Store, LibraryInv, Shelf

LEMMA LibraryStep == ASSUME LibraryInv, [Next]_vars PROVE LibraryInv'
<1>1. CASE UNCHANGED libVars
  BY <1>1 DEF libVars, LibraryInv
<1>2. ASSUME NEW item \in Items, Save(item) PROVE LibraryInv'
  <2>1. item \notin ToSet(saved) /\ Len(saved) < Capacity
    BY <1>2, MobileAssumption DEF Save, SaveRefused, LibraryInv, Shelf
  <2> QED
    BY <1>2, <2>1, ShelfGrows, StoreKeeps DEF Save, LibraryInv
<1>3. ASSUME NEW item \in Items, RemoveItem(item) PROVE LibraryInv'
  BY <1>3, ShelfShrinks, StoreKeeps DEF RemoveItem, LibraryInv
<1>4. CASE Restart
  BY <1>4 DEF Restart, LoadSaved, Storable, LibraryInv, Shelf
<1>5. [Next]_vars => UNCHANGED libVars \/ Restart
                     \/ \E i \in Items : Save(i) \/ RemoveItem(i)
  BY DEF Next, Typing, Panel, EditQuery, EditMatch, RunResearch, RunSoccer, CheckConnections,
         HealthAnswers, Settle, ApplySettings, RunAgent, AgentEffect, AgentSettles, vars, libVars
<1> QED
  BY <1>1, <1>2, <1>3, <1>4, <1>5

\* The library holds an item once and never outgrows what storage.ts accepts
\* back, so a restart reads all that was stored, whichever writes failed.
THEOREM LibraryIsKept == ClientSpec => []LibrarySurvives
<1>1. ClientInit => LibraryInv
  BY MobileAssumption DEF ClientInit, Init, LibraryInv, Shelf, IsInjective
<1>2. LibraryInv /\ [ClientNext]_ClientVars => LibraryInv'
  <2>1. [ClientNext]_ClientVars => [Next]_vars
    BY DEF ClientNext, ClientVars
  <2> QED
    BY <2>1, LibraryStep
<1>3. LibraryInv => LibrarySurvives
  BY DEF LibraryInv, Shelf, LibrarySurvives, LoadSaved, Storable
<1> QED
  BY <1>1, <1>2, <1>3, PTL DEF ClientSpec

\* The types of the app's state, by the groups of its steps.
LEMMA TypeStep == ASSUME TypeOK, [Next]_vars PROVE TypeOK'
<1> USE MobileAssumption DEF TypeOK, Answers
<1>1. ASSUME NEW t \in Texts, EditQuery(t) \/ EditMatch(t) PROVE TypeOK'
  BY <1>1 DEF EditQuery, EditMatch, Bounded, panelVars
<1>2. ASSUME NEW t \in Texts, RunResearch(t) PROVE TypeOK'
  BY <1>2 DEF RunResearch, Request, panelVars
<1>3. CASE RunSoccer
  BY <1>3 DEF RunSoccer, Request, panelVars
<1>4. CASE CheckConnections \/ HealthAnswers
  BY <1>4 DEF CheckConnections, HealthAnswers, Bounded, panelVars
<1>5. ASSUME NEW r \in flight, Settle(r) PROVE TypeOK'
  <2>1. r \in [id : 1 .. operation, kind : {"research", "soccer"}, text : Texts, from : Services]
    OBVIOUS
  <2>2. [text |-> r.text, from |-> r.from] \in Answers
    BY <2>1
  <2>3. research' \in Answers /\ soccer' \in Answers
    BY <1>5, <2>2 DEF Settle
  <2>4. busy' \in {None, "research", "soccer", "health"} /\ flight' \subseteq flight
    BY <1>5 DEF Settle
  <2>5. UNCHANGED <<settings, query, matchText, operation, agentOp, agentBusy, agentFlight,
                    agentResult, edits>>
    BY <1>5 DEF Settle, panelVars
  <2> QED
    BY <2>3, <2>4, <2>5
<1>6. ASSUME NEW s \in Services, ApplySettings(s) PROVE TypeOK'
  <2>1. agentBusy' \in BOOLEAN /\ agentOp' = agentOp + 1
    BY <1>6 DEF ApplySettings
  <2>2. agentFlight' \subseteq [id : 1 .. agentOp + 1, text : Texts, from : Services]
    BY <1>6 DEF ApplySettings
  <2>3. edits' \in 0 .. MaxEdits
    BY <1>6 DEF ApplySettings, Bounded
  <2> QED
    BY <1>6, <2>1, <2>2, <2>3 DEF ApplySettings
<1>7. CASE RunAgent
  <2> DEFINE new == [id |-> agentOp + 1, text |-> query, from |-> settings]
  <2>1. new \in [id : 1 .. agentOp + 1, text : Texts, from : Services]
    OBVIOUS
  <2>2. agentFlight \subseteq [id : 1 .. agentOp + 1, text : Texts, from : Services]
    OBVIOUS
  <2>3. agentFlight' = agentFlight \union {new} /\ agentOp' = agentOp + 1
        /\ agentBusy' = TRUE /\ agentResult' = NoResult
    BY <1>7 DEF RunAgent
  <2>4. UNCHANGED <<settings, query, matchText, operation, busy, flight, research, soccer, edits>>
    BY <1>7 DEF RunAgent, appVars
  <2> HIDE DEF new
  <2> QED
    BY <2>1, <2>2, <2>3, <2>4
<1>8. CASE AgentEffect
  <2>1. agentBusy' \in BOOLEAN /\ agentOp' = agentOp + 1 /\ agentResult' \in Answers
    BY <1>8 DEF AgentEffect
  <2>2. agentFlight' \subseteq [id : 1 .. agentOp + 1, text : Texts, from : Services]
    BY <1>8 DEF AgentEffect
  <2> QED
    BY <1>8, <2>1, <2>2 DEF AgentEffect, appVars
<1>9. ASSUME NEW r \in agentFlight, AgentSettles(r) PROVE TypeOK'
  <2>1. r \in [id : 1 .. agentOp, text : Texts, from : Services]
    OBVIOUS
  <2>2. [text |-> r.text, from |-> r.from] \in Answers
    BY <2>1
  <2> QED
    BY <1>9, <2>2 DEF AgentSettles, appVars
<1>10. ASSUME NEW i \in Items, Save(i) \/ RemoveItem(i) PROVE TypeOK'
  <2>1. UNCHANGED <<settings, query, matchText, operation, busy, flight, research, soccer,
                    agentOp, agentBusy, agentFlight, agentResult>>
    BY <1>10 DEF Save, RemoveItem, appVars, panelVars
  <2>2. edits' \in 0 .. MaxEdits
    <3>1. UNCHANGED edits \/ Bounded
      BY <1>10 DEF Save, RemoveItem
    <3> QED
      BY <3>1 DEF Bounded
  <2> QED
    BY <2>1, <2>2
<1>11. CASE Restart
  <2>1. agentBusy' \in BOOLEAN /\ flight' = {} /\ agentFlight' = {}
    BY <1>11 DEF Restart
  <2>2. edits' \in 0 .. MaxEdits /\ operation' \in 0 .. MaxRuns /\ agentOp' \in Nat
    BY <1>11 DEF Restart, Bounded
  <2> QED
    BY <1>11, <2>1, <2>2 DEF Restart
<1>12. CASE UNCHANGED vars
  BY <1>12 DEF vars, appVars, panelVars
<1> QED
  BY <1>1, <1>2, <1>3, <1>4, <1>5, <1>6, <1>7, <1>8, <1>9, <1>10, <1>11, <1>12
  DEF Next, Typing, Panel

\* The app's state has its types, whatever the person and the network do.
THEOREM AppTypeCorrect == ClientSpec => []TypeOK
<1>1. ClientInit => TypeOK
  <2> SUFFICES ASSUME Init PROVE TypeOK
    BY DEF ClientInit
  <2>1. NoResult \in Answers
    BY DEF Answers
  <2>2. MaxRuns \in Nat /\ MaxEdits \in Nat /\ Starter \in Texts
    BY MobileAssumption
  <2>3. flight = {} /\ agentFlight = {} /\ agentBusy \in BOOLEAN
    BY DEF Init
  <2>4. operation \in 0 .. MaxRuns /\ agentOp \in Nat /\ edits \in 0 .. MaxEdits
    BY <2>2 DEF Init
  <2> QED
    BY <2>1, <2>2, <2>3, <2>4 DEF Init, TypeOK
<1>2. TypeOK /\ [ClientNext]_ClientVars => TypeOK'
  <2>1. [ClientNext]_ClientVars => [Next]_vars
    BY DEF ClientNext, ClientVars
  <2> QED
    BY <2>1, TypeStep
<1> QED
  BY <1>1, <1>2, PTL DEF ClientSpec

----------------------------------------------------------------------------
(* The panel of the web page.                                                *)

Views == [Plans -> Statuses]

Listings == [id : Nat, own : BOOLEAN, said : Views \union {Empty}]

\* What is decided in a view is decided at the server.
Knows(view) ==
    \A p \in Plans : /\ view[p] = "applied" => server[p] = "applied"
                     /\ view[p] = "rejected" => server[p] \in {"rejected", "applied"}

\* Types; every list under way is of an earlier server; the one list that a
\* decision waits for is there only while it waits, after the decision.
PanelInv ==
    /\ server \in Views /\ shown \in Views /\ Knows(shown)
    /\ tokens \in [Plans -> Tokens \union {Empty}]
    /\ posting # Empty =>
          /\ posting \in Posts
          /\ posting.at \in {"accepted", "refreshing"} /\ posting.what \in {"approve", "reject"}
                => server[posting.plan] \in {"applied", "rejected"}
    /\ \A l \in lists :
          /\ l \in Listings
          /\ l.said # Empty => Knows(l.said)
          /\ l.own => posting # Empty /\ posting.at = "refreshing"
    /\ \A l, m \in lists : l.own /\ m.own => l = m

\* The server moves on: what was decided stays decided, what was applied
\* stays applied.
ServerMovesOn ==
    \A p \in Plans : /\ server[p] = "applied" => server'[p] = "applied"
                     /\ server[p] = "rejected" => server'[p] \in {"rejected", "applied"}

LEMMA PanelInit == ASSUME PageInit PROVE PanelInv
<1>1. server \in Views /\ shown \in Views /\ Knows(shown) /\ posting = Empty
  BY DEF PageInit, NoPlans, Views, Statuses, Knows
<1>2. tokens \in [Plans -> Tokens \union {Empty}]
  BY DEF PageInit
<1>3. \A l \in lists : l \in Listings /\ l.said = Empty /\ ~l.own
  <2> DEFINE first == [id |-> 1, own |-> FALSE, said |-> Empty]
  <2>1. first \in Listings /\ first.said = Empty /\ ~first.own
    BY DEF Listings
  <2>2. lists = {first}
    BY DEF PageInit
  <2> HIDE DEF first
  <2> QED
    BY <2>1, <2>2
<1> QED
  BY <1>1, <1>2, <1>3 DEF PanelInv

LEMMA StaysKnown ==
  ASSUME NEW view, Knows(view), ServerMovesOn PROVE Knows(view)'
  BY DEF Knows, ServerMovesOn

LEMMA Asked ==
  ASSUME NEW own \in BOOLEAN, Refresh(own)
  PROVE  \E new \in Listings : new.own = own /\ new.said = Empty /\ lists' = lists \union {new}
<1>1. PICK id \in 1 .. MaxLists : lists' = lists \union {[id |-> id, own |-> own, said |-> Empty]}
  BY DEF Refresh
<1> DEFINE new == [id |-> id, own |-> own, said |-> Empty]
<1>2. new \in Listings /\ new.own = own /\ new.said = Empty /\ lists' = lists \union {new}
  BY <1>1 DEF Listings
<1> HIDE DEF new
<1> QED
  BY <1>2

\* Steps that leave the server's plans alone.
LEMMA SteppedAround ==
  ASSUME PanelInv,
         \/ ClickRefresh \/ PostAnswered
         \/ \E p \in Plans : \/ Propose(p) \/ \E what \in {"approve", "reject"} : Decide(p, what)
                             \/ \E t \in Tokens : EnterToken(p, t)
         \/ UNCHANGED pageVars
  PROVE  PanelInv'
<1> USE PanelAssumption DEF PanelInv, Knows
<1>1. CASE ClickRefresh
  <2>1. Refresh(FALSE) /\ UNCHANGED <<server, shown, tokens, posting>>
    BY <1>1 DEF ClickRefresh
  <2>2. PICK new \in Listings : new.own = FALSE /\ new.said = Empty /\ lists' = lists \union {new}
    BY <2>1, Asked
  <2> QED
    BY <2>1, <2>2
<1>2. CASE PostAnswered
  <2>1. CASE posting.at = "accepted" /\ Refresh(TRUE) /\ posting' = [posting EXCEPT !.at = "refreshing"]
    <3>1. posting' \in Posts /\ posting' # Empty
      BY <1>2, <2>1 DEF PostAnswered, Posts
    <3>2. \A l \in lists : ~l.own
      BY <2>1
    <3>3. PICK new \in Listings : new.own = TRUE /\ new.said = Empty /\ lists' = lists \union {new}
      BY <2>1, Asked
    <3>4. posting'.at = "refreshing" /\ posting'.what = posting.what /\ posting'.plan = posting.plan
      BY <1>2, <2>1 DEF PostAnswered, Posts
    <3>5. posting # Empty /\ UNCHANGED <<server, shown, tokens>>
      BY <1>2 DEF PostAnswered
    <3> QED
      <4>1. posting' # Empty => posting' \in Posts /\ (posting'.what \in {"approve", "reject"}
                 => server'[posting'.plan] \in {"applied", "rejected"})
        BY <2>1, <3>1, <3>4, <3>5
      <4>2. \A l \in lists' : l \in Listings /\ (l.said # Empty => Knows(l.said)') /\ (l.own => l = new)
        BY <3>2, <3>3, <3>5
      <4> QED
        BY <3>1, <3>4, <3>5, <4>1, <4>2
  <2>2. CASE posting.at \in {"accepted", "refused"} /\ posting' = Empty /\ UNCHANGED lists
    BY <1>2, <2>2 DEF PostAnswered
  <2> QED
    BY <1>2, <2>1, <2>2 DEF PostAnswered
<1>3. ASSUME NEW p \in Plans, Propose(p) PROVE PanelInv'
  <2>1. posting' \in Posts /\ posting'.at = "sent"
    BY <1>3 DEF Propose, Post, Posts, Kinds
  <2> QED
    BY <1>3, <2>1 DEF Propose
<1>4. ASSUME NEW p \in Plans, NEW what \in {"approve", "reject"}, Decide(p, what) PROVE PanelInv'
  <2>1. posting' \in Posts /\ posting'.at = "sent"
    BY <1>4 DEF Decide, Post, Posts, Kinds
  <2> QED
    BY <1>4, <2>1 DEF Decide
<1>5. ASSUME NEW p \in Plans, NEW t \in Tokens, EnterToken(p, t) PROVE PanelInv'
  BY <1>5 DEF EnterToken
<1>6. CASE UNCHANGED pageVars
  BY <1>6 DEF pageVars
<1> QED
  BY <1>1, <1>2, <1>3, <1>4, <1>5, <1>6

\* The server decides the request, or somebody else's.
LEMMA DecidedAtServer ==
  ASSUME PanelInv, ServerDecides \/ \E p \in Plans, status \in Statuses : OthersDecide(p, status)
  PROVE  PanelInv'
<1> USE PanelAssumption DEF PanelInv, Views
<1>1. ServerMovesOn /\ server' \in Views
  <2>1. CASE ServerDecides
    <3>1. posting \in Posts /\ server \in Views
      BY <2>1 DEF ServerDecides
    <3>2. CASE UNCHANGED server
      BY <3>1, <3>2 DEF ServerMovesOn
    <3>3. CASE Accepts(posting) /\ server' = [server EXCEPT ![posting.plan] = Outcome[posting.what]]
      <4>1. posting.plan \in Plans /\ posting.what \in Kinds
        BY <3>1 DEF Posts
      <4>2. server[posting.plan] # "applied" /\ Outcome[posting.what] \in Statuses
            /\ (server[posting.plan] = "rejected" => Outcome[posting.what] = "applied")
        <5>1. CASE posting.what = "propose"
          BY <3>3, <5>1 DEF Accepts, Outcome, Statuses
        <5>2. CASE posting.what = "reject"
          BY <3>3, <5>2 DEF Accepts, Outcome, Statuses
        <5>3. CASE posting.what = "approve"
          BY <3>3, <5>3 DEF Accepts, Outcome, Statuses
        <5> QED
          BY <4>1, <5>1, <5>2, <5>3 DEF Kinds
      <4> QED
        BY <3>1, <3>3, <4>1, <4>2 DEF ServerMovesOn
    <3> QED
      BY <2>1, <3>2, <3>3 DEF ServerDecides
  <2>2. ASSUME NEW p \in Plans, NEW status \in Statuses, OthersDecide(p, status)
        PROVE ServerMovesOn /\ server' \in Views
    BY <2>2 DEF OthersDecide, ServerMovesOn, Statuses
  <2> QED
    BY <2>1, <2>2
<1>2. UNCHANGED <<shown, tokens, lists>>
  BY DEF ServerDecides, OthersDecide
<1>3. Knows(shown)' /\ \A l \in lists' : l.said # Empty => Knows(l.said)'
  BY <1>1, <1>2, StaysKnown DEF Knows, ServerMovesOn
<1>4. CASE ServerDecides
  <2>1. posting' \in Posts /\ posting' # Empty /\ posting'.what = posting.what
        /\ posting'.plan = posting.plan /\ posting'.at \in {"accepted", "refused"}
    BY <1>4 DEF ServerDecides, Posts
  <2>2. posting'.at = "accepted" /\ posting'.what \in {"approve", "reject"}
        => server'[posting.plan] \in {"applied", "rejected"}
    BY <1>4, <2>1 DEF ServerDecides, Outcome, Posts, Kinds
  <2>3. \A l \in lists : ~l.own
    BY <1>4 DEF ServerDecides
  <2> QED
    BY <1>1, <1>2, <1>3, <2>1, <2>2, <2>3
<1>5. ASSUME NEW p \in Plans, NEW status \in Statuses, OthersDecide(p, status) PROVE PanelInv'
  <2>1. UNCHANGED posting
    BY <1>5 DEF OthersDecide
  <2> QED
    BY <1>1, <1>2, <1>3, <2>1 DEF ServerMovesOn, Posts
<1> QED
  BY <1>4, <1>5

\* A list is made, or arrives.
LEMMA Listed ==
  ASSUME PanelInv, NEW l \in lists, ServerLists(l) \/ ListArrives(l) PROVE PanelInv'
<1> USE PanelAssumption DEF PanelInv
<1>1. CASE ServerLists(l)
  <2> DEFINE made == [l EXCEPT !.said = server]
  <2>0. made \in Listings /\ made.own = l.own /\ made.said = server
    BY DEF Listings
  <2>1. lists' = (lists \ {l}) \union {made} /\ UNCHANGED <<server, shown, tokens, posting>>
    BY <1>1 DEF ServerLists
  <2>2. Knows(server)
    BY DEF Knows
  <2> QED
    BY <2>0, <2>1, <2>2 DEF Knows
<1>2. CASE ListArrives(l)
  <2>1. shown' \in Views /\ Knows(shown') /\ UNCHANGED server
    BY <1>2 DEF ListArrives, Knows, Listings
  <2>2. CASE l.own
    <3>1. posting' = Empty /\ tokens' = Forgets(posting) /\ lists' = lists \ {l}
      BY <1>2, <2>2 DEF ListArrives
    <3>2. tokens' \in [Plans -> Tokens \union {Empty}]
      BY <3>1 DEF Forgets
    <3>3. \A m \in lists' : ~m.own
      BY <2>2, <3>1
    <3> QED
      BY <2>1, <3>1, <3>2, <3>3 DEF Knows
  <2>3. CASE ~l.own
    BY <1>2, <2>1, <2>3 DEF ListArrives, Knows
  <2> QED
    BY <2>2, <2>3
<1> QED
  BY <1>1, <1>2

LEMMA PanelStep == ASSUME PanelInv, [PageNext]_pageVars PROVE PanelInv'
  BY SteppedAround, DecidedAtServer, Listed DEF PageNext

\* A token goes only with the list that ends its decision.
LEMMA TokenGoesWithDecision ==
  ASSUME PanelInv, [PageNext]_pageVars, NEW p \in Plans, tokens[p] # Empty, tokens'[p] = Empty
  PROVE  server[p] \in {"applied", "rejected"}
<1> USE PanelAssumption
<1>1. \E l \in lists : ListArrives(l) /\ l.own
  BY DEF PageNext, pageVars, ClickRefresh, ServerDecides, PostAnswered, Propose, Decide, EnterToken,
         OthersDecide, ServerLists, ListArrives, PanelInv
<1> QED
  BY <1>1 DEF ListArrives, Forgets, PanelInv, Posts, Kinds

\* The panel shows as decided only what is, however old the list that came
\* last, and keeps a token until its plan is decided (plans-panel.tsx).
THEOREM PanelIsTold == ClientSpec => PanelTellsTheServer
<1>1. ClientInit => PanelInv
  BY PanelInit DEF ClientInit
<1>2. [ClientNext]_ClientVars => [PageNext]_pageVars
  BY DEF ClientNext, ClientVars
<1>3. PanelInv /\ [ClientNext]_ClientVars => PanelInv'
  BY <1>2, PanelStep
<1>4. PanelInv => PanelKnows
  BY DEF PanelInv, PanelKnows, Knows
<1>5. PanelInv /\ [ClientNext]_ClientVars
      => [\A p \in Plans : tokens[p] # Empty /\ tokens'[p] = Empty
             => server[p] \in {"applied", "rejected"}]_pageVars
  BY <1>2, TokenGoesWithDecision
<1> QED
  BY <1>1, <1>3, <1>4, <1>5, PTL DEF ClientSpec, PanelTellsTheServer, TokenKept
=============================================================================
