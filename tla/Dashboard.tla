------------------------------ MODULE Dashboard ------------------------------
(***************************************************************************)
(* The settings side of the dashboard: one browser tab that shows the      *)
(* execution mode and the rules and changes them through the               *)
(* administration calls of ConfigCache.  The mode on the screen is page    *)
(* state that is never read from the server; the rules are fetched.  Other *)
(* clients may call too.                                                   *)
(***************************************************************************)
EXTENDS ConfigCache

Modes == {"ENFORCE", "OBSERVE"}

ASSUME DashboardAssumption ==
  /\ Modes \subseteq Values
  /\ "mode" \in DOMAIN SeedConfig /\ SeedConfig["mode"] = "ENFORCE"

VARIABLES
  screen,  \* globalMode, and per listed rule whether its switch is on
  click,   \* per call, the operation whose answer the tab waits for
  fetch,   \* the GET /config/rules of each fetchData(): asked, or its answer
  synced,  \* whether the mode was changed or seeded since the page was loaded
  hasty    \* whether a handler called the server before everything was answered

tab == <<screen, click, fetch, synced, hasty>>
dashboardVars == <<vars, tab>>

NoClick == [kind |-> "none"]
Fetches == Calls \cup {"page"}
NoFetch == [stage |-> "none"]
Asked == [stage |-> "asked"]
Waiting == (\E c \in Calls : click[c] # NoClick) \/ (\E f \in Fetches : fetch[f] # NoFetch)

\* The switch of a mode turns it into the other one.
Opposite(mode) == IF mode = "ENFORCE" THEN "OBSERVE" ELSE "ENFORCE"

Click(c, op) ==
  /\ Begin(c, op)
  /\ click' = [click EXCEPT ![c] = op]
  /\ hasty' = (hasty \/ Waiting)
  /\ UNCHANGED <<screen, fetch, synced>>

\* handleToggleMode()
ToggleMode(c) == Click(c, [kind |-> "config", key |-> "mode", value |-> Opposite(screen.mode)])

\* handleToggleRule()
ToggleRule(c) ==
  \E id \in DOMAIN screen.rules \ KeptRules :
    Click(c, [kind |-> "rule", id |-> id, enabled |-> ~screen.rules[id]])

\* handleResetSystem(); its button is disabled meanwhile.
ResetSystem(c) ==
  /\ \A d \in Calls : click[d].kind # "seed"
  /\ Click(c, [kind |-> "seed"])

\* Variant: the mode stays as shown after a reset.
ShownUnreset(op) ==
  CASE op.kind = "config" -> [screen EXCEPT !.mode = op.value]
    [] op.kind = "rule"   -> [screen EXCEPT !.rules =
                                [id \in DOMAIN @ |-> IF id = op.id THEN op.enabled ELSE @[id]]]
    [] op.kind = "seed"   -> screen

Shown(op) ==
  CASE op.kind = "config" -> [screen EXCEPT !.mode = op.value]
    [] op.kind = "rule"   -> [screen EXCEPT !.rules =
                                [id \in DOMAIN @ |-> IF id = op.id THEN op.enabled ELSE @[id]]]
    [] op.kind = "seed"   -> [screen EXCEPT !.mode = "ENFORCE"]

\* Variant: a reset does not fetch the rules again.
RefetchesForMode(op) == op.kind = "config"

\* A switched rule is only marked; the others fetch everything again.
Refetches(op) == op.kind # "rule"

\* The handler goes on: res.ok, or nothing happens.
Answered(c) ==
  LET op == click[c] IN
  /\ op # NoClick /\ call[c].pc \in {"ok", "failed", "lost"}
  /\ click' = [click EXCEPT ![c] = NoClick]
  /\ IF call[c].pc = "ok"
     THEN /\ screen' = Shown(op)
          /\ fetch' = IF Refetches(op) THEN [fetch EXCEPT ![c] = Asked] ELSE fetch
          /\ synced' = (synced \/ op.kind # "rule")
     ELSE UNCHANGED <<screen, fetch, synced>>
  /\ UNCHANGED <<vars, hasty>>

\* getRules() answers what the process has in its cache.
ServeRules(f) ==
  /\ fetch[f] = Asked
  /\ \E p \in {PodOf[c] : c \in Calls} :
       Up(p) /\ fetch' = [fetch EXCEPT ![f] = [stage |-> "answered", list |-> active[p]]]
  /\ UNCHANGED <<vars, screen, click, synced, hasty>>

ShowRules(f) ==
  /\ fetch[f].stage = "answered"
  /\ screen' = [screen EXCEPT !.rules = [id \in fetch[f].list |-> TRUE]]
  /\ fetch' = [fetch EXCEPT ![f] = NoFetch]
  /\ UNCHANGED <<vars, click, synced, hasty>>

\* The page opens with the mode it always opens with.  Reloads with a call in
\* flight are left out.
ReloadPage ==
  /\ ~Waiting /\ synced
  /\ screen' = [mode |-> "ENFORCE", rules |-> Nothing]
  /\ fetch' = [fetch EXCEPT !["page"] = Asked]
  /\ synced' = FALSE
  /\ UNCHANGED <<vars, click, hasty>>

\* The simulator, once submitted and again with its verdict, and the review
\* desk fetch everything anew.  Bounds: one such list under way at a time, the
\* first after a call has ended, and none once hasty, when no property speaks of
\* the screen any more.
Refetch ==
  /\ fetch["page"] = NoFetch /\ ~hasty
  /\ \E c \in Calls : call[c].pc \in {"ok", "failed", "lost"}
  /\ fetch' = [fetch EXCEPT !["page"] = Asked]
  /\ hasty' = (hasty \/ Waiting)
  /\ UNCHANGED <<vars, screen, click, synced>>

-----------------------------------------------------------------------------
\* The tab has loaded.
DashboardInit ==
  /\ Init
  /\ screen = [mode |-> "ENFORCE", rules |-> [id \in SeedRules |-> TRUE]]
  /\ click = [c \in Calls |-> NoClick]
  /\ fetch = [f \in Fetches |-> NoFetch]
  /\ synced = TRUE /\ hasty = FALSE

DashboardNext ==
  \/ \E c \in Calls : ToggleMode(c) \/ ToggleRule(c) \/ ResetSystem(c) \/ Answered(c)
  \/ \E f \in Fetches : ServeRules(f) \/ ShowRules(f)
  \/ ReloadPage \/ Refetch
  \/ Next /\ UNCHANGED tab

DashboardSpec == DashboardInit /\ [][DashboardNext]_dashboardVars

-----------------------------------------------------------------------------
(* Properties *)

Calm == mishaps = {} /\ ~hasty /\ ~Waiting /\ \A a \in Actors : ~Open(a)

\* When nothing overlapped or failed, the mode on the screen is the one stored
\* and the one the process works by; after the page was reloaded, once the
\* mode was switched again or the system reset.
ModeShown ==
  Calm /\ synced =>
    /\ screen.mode = config["mode"]
    /\ \A c \in Calls : call[c].pc = "ok" => cache[PodOf[c]]["mode"] = screen.mode

\* When nothing overlapped or failed, each switch on the screen shows whether
\* its rule is enabled, in the table and in the process, through toggles,
\* refreshed lists, resets and the calls of other clients.
RulesShown ==
  Calm => \A id \in DOMAIN screen.rules :
            /\ screen.rules[id] <=> id \in Enabled
            /\ \A c \in Calls : screen.rules[id] <=> id \in active[PodOf[c]]

=============================================================================
