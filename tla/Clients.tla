------------------------------- MODULE Clients -------------------------------
(* The two programs that a person uses: the companion app and the panel of   *)
(* the web page.  They share nothing, and a behaviour is of one of them.     *)
EXTENDS MobileApp, PlansPanel

VARIABLE screen      \* "app" or "plans"

ClientVars == <<vars, pageVars, screen>>
ClientInit ==
    /\ Init /\ PageInit /\ screen \in {"app", "plans"}
    /\ screen = "app" => server[CHOOSE p \in Plans : TRUE] = "pending_approval"
    /\ screen = "plans" => settings = CHOOSE s \in Services : TRUE
ClientNext ==
    /\ UNCHANGED screen
    /\ \/ screen = "app" /\ Next /\ UNCHANGED pageVars
       \/ screen = "plans" /\ PageNext /\ UNCHANGED vars

(* Requests of the app end by their timeout at the latest, React runs its    *)
(* effects, and the network settles what the page sent.                      *)
ClientFairness ==
    /\ Fairness
    /\ WF_pageVars(screen = "plans" /\ ServerDecides)
    /\ WF_pageVars(screen = "plans" /\ PostAnswered)
    /\ WF_pageVars(screen = "plans" /\ \E l \in lists : l.own /\ ListArrives(l))
ClientSpec == ClientInit /\ [][ClientNext]_ClientVars /\ ClientFairness

----------------------------------------------------------------------------
(* An answer that comes late never shows for another question, another text  *)
(* of the agent's panel or another service (App.tsx, ResearchAgent.tsx).     *)
AnswersAreCurrent == AgentAnswerIsCurrent /\ ResultsOfCurrentServices

(* The panel shows as decided only what is, and keeps a token until the      *)
(* server has decided its plan (plans-panel.tsx).                            *)
PanelTellsTheServer == []PanelKnows /\ TokenKept

(* Neither program stays busy (requests of the app, its agent's panel, the   *)
(* decisions of the web page).                                               *)
NobodyStaysBusy == EveryRequestSettles /\ PanelReleases
=============================================================================
