--------------------------- MODULE ApiAvailability ---------------------------
(***************************************************************************)
(* Is the Claude API there, and whose fault is a run without output?       *)
(* dispatch-to-claude.sh asks claude-healthcheck.py for one small exchange *)
(* before it starts the model, and again when nothing came back.  Two      *)
(* files are shared by all dispatches: the route that worked last          *)
(* (claude-route-preference.py) and the last availability that was seen    *)
(* (claude-api-availability.py), good for a day.  Both are replaced whole  *)
(* and read without a lock.  An exchange and the file its result is stored *)
(* in are one step here: they take a minute, a record lives a day.         *)
(***************************************************************************)
EXTENDS AttemptClass

CONSTANTS Dispatchers,
          Asked           \* what dispatches may be asked for

ApiRoutes == {"direct", "inherit"}
ProbeModes == {"adaptive", "always", "off"}

\* learns: no route was named, so the default is replaced by a learned one.
AllAsked == [route : ApiRoutes, learns : BOOLEAN, required : BOOLEAN,
             mode : ProbeModes, profile : BOOLEAN]

ASSUME ApiAssumption == Asked \subseteq {j \in AllAsked : j.learns => j.route = "direct"}

VARIABLES
  preference,    \* claude-route.json
  availability,  \* claude-api-availability.json
  attempt,       \* what each dispatch knows of itself
  proven         \* history: the routes with an exchange within the time to live

apiVars == <<preference, availability, attempt, proven>>

NoAttempt ==
  [at |-> "idle", route |-> "direct", learns |-> FALSE, required |-> FALSE,
   mode |-> "off", profile |-> FALSE, startup |-> "not-run", tools |-> FALSE,
   again |-> "not-run", observed |-> FALSE, evidence |-> "none", end |-> "none",
   class |-> "none", backed |-> FALSE, live |-> FALSE]

ApiInit ==
  /\ preference = "none" /\ availability = [status |-> "missing"]
  /\ attempt = [d \in Dispatchers |-> NoAttempt] /\ proven = {}

At(d, place) == attempt[d].at = place
Updated(g, with) == [f \in DOMAIN g |-> IF f \in DOMAIN with THEN with[f] ELSE g[f]]
Becomes(d, with) == attempt' = [attempt EXCEPT ![d] = Updated(@, with)]

-----------------------------------------------------------------------------
(* The two files                                                            *)

Resolve(route, learns) == IF learns /\ preference # "none" THEN preference ELSE route
StillLearns(learns) == learns /\ preference = "none"

\* A variant: the route is not part of the context.
CachedForAnyRoute(route) == availability.status = "available" /\ availability.fresh

\* check: recorded as available, for this context, and not too old.
Cached(route) ==
  availability.status = "available" /\ availability.fresh /\ availability.route = route

Available(route, verified, listed) ==
  [status |-> "available", route |-> route, verified |-> verified, listed |-> listed,
   fresh |-> TRUE]
Suspected == [status |-> "suspected-unavailable"]

\* The time to live runs out; not while a run's last steps are under way.
Expire ==
  /\ availability.status = "available" /\ availability.fresh
  /\ \A d \in Dispatchers : attempt[d].at \notin {"ended", "probed", "classified"}
  /\ availability' = [availability EXCEPT !.fresh = FALSE] /\ proven' = {}
  /\ UNCHANGED <<preference, attempt>>

\* claude-healthcheck.py: in a sandbox without network a failure says nothing; the
\* exchange lists the tools that are there, or does not.
Exchange(success, restricted, lists) ==
  [says |-> CASE success -> "available"
              [] ~success /\ restricted -> "inconclusive"
              [] OTHER -> "unavailable",
   lists |-> success /\ lists]
Exchanges == {Exchange(x, y, z) : x, y, z \in BOOLEAN}

\* run_interaction_probe: what the probe says is stored, a failure as well.
Probe(d, x) ==
  /\ IF x.says = "available"
     THEN /\ availability' = Available(attempt[d].route, x.lists, x.lists)
          /\ proven' = proven \cup {attempt[d].route}
     ELSE availability' = Suspected /\ UNCHANGED proven
  /\ UNCHANGED preference

-----------------------------------------------------------------------------
(* Before the worktree is made                                              *)

BeginDispatch(d) ==
  /\ At(d, "idle")
  /\ \E j \in Asked :
       Becomes(d, [at |-> IF j.required THEN "gate" ELSE "late",
                   route |-> Resolve(j.route, j.learns), learns |-> StillLearns(j.learns),
                   required |-> j.required, mode |-> j.mode, profile |-> j.profile])
  /\ UNCHANGED <<preference, availability, proven>>

Gated(d, answer, tools) ==
  Becomes(d, [at |-> "checked", startup |-> answer, tools |-> tools,
              backed |-> attempt[d].route \in proven'])

MayUseCache(d) == attempt[d].mode # "always" /\ Cached(attempt[d].route)

GateFromCache(d) ==
  /\ At(d, "gate") /\ MayUseCache(d)
  /\ UNCHANGED <<preference, availability, proven>>
  /\ Gated(d, "available", availability.verified /\ availability.listed)

\* A success is stored as verified whether or not the exchange listed any tools; a
\* failure is not stored.
GateLive(d) ==
  /\ At(d, "gate") /\ ~MayUseCache(d)
  /\ \E x \in Exchanges :
       /\ IF x.says = "available"
          THEN /\ availability' = Available(attempt[d].route, TRUE, x.lists)
               /\ proven' = proven \cup {attempt[d].route}
          ELSE UNCHANGED <<availability, proven>>
       /\ Gated(d, x.says, x.lists)
  /\ UNCHANGED preference

LacksTools(d) == attempt[d].profile /\ ~attempt[d].tools

\* What an attempt that is over is still asked for.
Over == [at |-> "over", route |-> "direct", learns |-> FALSE, tools |-> FALSE,
         profile |-> FALSE, again |-> "not-run", observed |-> FALSE]

Blocked(d) == Becomes(d, Over)

LeaveGate(d) ==
  /\ At(d, "checked")
  /\ IF attempt[d].startup # "available" \/ LacksTools(d) THEN Blocked(d)
     ELSE Becomes(d, [at |-> "late"])
  /\ UNCHANGED <<preference, availability, proven>>

\* The learned route is asked for a second time: the first answer may have been none.
ResolveAgain(d) ==
  /\ At(d, "late")
  /\ Becomes(d, [at |-> IF attempt[d].required \/ attempt[d].mode # "always"
                        THEN "running" ELSE "startup",
                 route |-> Resolve(attempt[d].route, attempt[d].learns)])
  /\ UNCHANGED <<preference, availability, proven>>

\* Without the gate, mode "always" probes here; what it says does not stop the start.
StartupProbe(d) ==
  /\ At(d, "startup")
  /\ \E x \in Exchanges :
       /\ Probe(d, x)
       /\ IF x.says = "available" /\ attempt[d].profile /\ ~x.lists THEN Blocked(d)
          ELSE Becomes(d, [at |-> "running", startup |-> x.says])

-----------------------------------------------------------------------------
(* The run and what is made of it                                           *)

\* The first-progress boundary passes.
Observe(d) ==
  /\ At(d, "running") /\ attempt[d].mode = "always" /\ ~attempt[d].observed
  /\ attempt[d].startup # "available"
  /\ \E x \in Exchanges :
       /\ Probe(d, x)
       /\ Becomes(d, [observed |-> TRUE, again |-> x.says,
                      live |-> x.says = "available"])

ModelEnds(d) ==
  /\ At(d, "running")
  /\ \E evidence \in {"none", "acknowledgement", "work"},
        end \in {"exit", "error", "timeout"} :
       /\ Becomes(d, [at |-> "ended", evidence |-> evidence, end |-> end])
       /\ proven' = IF evidence = "none" THEN proven ELSE proven \cup {attempt[d].route}
  /\ UNCHANGED <<preference, availability>>

\* A variant: availability at the start is good enough.
NeedsProbeUnlessAvailable(g) ==
  g.evidence = "none" /\ ~g.observed /\ g.mode # "off" /\ g.startup # "available"

\* An observation of this run is used again; the startup's answer never is.
NeedsProbe(g) == g.evidence = "none" /\ ~g.observed /\ g.mode # "off"

\* (An observation of a run that did say something is not looked at.)
ProbeZeroOutput(d) ==
  /\ At(d, "ended")
  /\ IF NeedsProbe(attempt[d])
     THEN \E x \in Exchanges :
            /\ Probe(d, x)
            /\ Becomes(d, [at |-> "probed", again |-> x.says,
                           live |-> x.says = "available"])
     ELSE /\ Becomes(d, [at |-> "probed",
                         again |-> IF attempt[d].evidence = "none"
                                   THEN attempt[d].again ELSE "not-run"])
          /\ UNCHANGED <<preference, availability, proven>>

\* DISPATCH_OUTCOME, as far as it depends on these.
DispatchOutcome(g) ==
  First(<<Rule(g.end = "error", IF g.evidence = "work" THEN "error-with-diff" ELSE "api-error"),
          Rule(g.again \in {"unavailable", "inconclusive"}, "network_error"),
          Rule(g.end = "timeout" /\ g.startup = "available", "execution_timeout"),
          Rule(g.end = "timeout", "timeout"),
          Rule(g.evidence = "work", "success"),
          Otherwise("no_useful_progress")>>)

\* The arguments classify-claude-attempt.py is called with.
AttemptOf(g) ==
  LET outcome == DispatchOutcome(g) IN
    [outcome |-> IF outcome \in {"success", "execution_timeout"} THEN outcome ELSE "other",
     clean |-> g.end = "exit", report |-> g.evidence = "work", mismatch |-> FALSE,
     reports |-> FALSE, direction |-> "unknown", blocker |-> "none", approval |-> FALSE,
     progress |-> IF g.evidence = "work" THEN "useful" ELSE g.evidence,
     transport |-> outcome \in {"api-error", "network_error", "timeout"}]

Classify(d) ==
  /\ At(d, "probed")
  /\ Becomes(d, [at |-> "classified",
                 class |-> FailureClass(AttemptOf(attempt[d]), attempt[d].evidence = "work")])
  /\ UNCHANGED <<preference, availability, proven>>

RouteWorked(g) ==
  /\ g.again = "not-run"
  /\ \/ g.class \in {"model-no-progress", "external-approval-blocker", "direction-deviation"}
     \/ /\ g.class \notin {"transient-transport", "unclassified-execution-failure"}
        /\ g.evidence # "none"

\* Both files, one after the other; what stands in the second is the same for both orders.
Remember(d) ==
  /\ At(d, "classified")
  /\ preference' = IF RouteWorked(attempt[d]) THEN attempt[d].route ELSE preference
  /\ availability' = IF attempt[d].evidence = "none" THEN availability
                     ELSE Available(attempt[d].route, attempt[d].tools, attempt[d].tools)
  /\ Becomes(d, Over)
  /\ UNCHANGED proven

ApiNext ==
  \/ Expire
  \/ \E d \in Dispatchers :
       \/ BeginDispatch(d) \/ GateFromCache(d) \/ GateLive(d) \/ LeaveGate(d)
       \/ ResolveAgain(d) \/ StartupProbe(d)
       \/ Observe(d) \/ ModelEnds(d) \/ ProbeZeroOutput(d) \/ Classify(d) \/ Remember(d)

-----------------------------------------------------------------------------
\* A failure counts toward a takeover only if the model was there to fail: it said
\* something in this run, or a live exchange of this run went through, however fresh
\* the availability its start relied on (dispatch-to-claude.sh:6086 "Later suspicious
\* zero-output still triggers a live probe regardless").  Mode "off" asks for no probe.
FailureIsTheModels ==
  \A d \in Dispatchers :
    LET g == attempt[d] IN
      g.class \in CountedFailures => g.evidence # "none" \/ g.live \/ g.mode = "off"

\* A dispatch that got through the gate relied on an exchange that someone had on the
\* route it asked for, within the time to live.
GateIsBacked ==
  \A d \in Dispatchers :
    attempt[d].required /\ attempt[d].startup = "available" => attempt[d].backed
=============================================================================
