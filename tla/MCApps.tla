------------------------------- MODULE MCApps -------------------------------
(* Setup and what is published and watched, for TLC: the installer         *)
(* (Install), the daemon's alerts (Alerts, WeatherAlerts), pings           *)
(* (PingMonitor), routes (Routes), Cloudflare's figures (Analytics), the   *)
(* agents' logs (UsageLogs, for either agent), GitHub (GitPublish) and     *)
(* pushes (PushNews).  The parts share no state: a behaviour runs the one  *)
(* sys names.                                                              *)
EXTENDS Install, PingMonitor, Analytics, GitPublish, PushNews, WeatherAlerts,
        Alerts, Routes, UsageLogs, TLC

CONSTANTS x, y

VARIABLES sys

-----------------------------------------------------------------------------
(* alertTokens: the ticker's order.                                        *)
MCTokens == <<"SOL", "MET">>

(* The tunnel may have any rules of others before exe comes.               *)
MCStartRules ==
    UNION {[1..n -> {Rule("a", TheirService), Rule("x", TheirService), Rule("*", TheirService),
                     Rule("", "404")}] : n \in 0..3}

AllVars == <<sys, vars, alertVars, rainVars, pingVars, routeVars,
              viewsVars, usageVars, publishVars, pushVars>>

-----------------------------------------------------------------------------
(* Where a part may start in several states, one stands in while another   *)
(* part runs.  The account has both repositories already or neither.       *)
AllInit ==
    /\ sys \in {"install", "alerts", "weather", "ping", "routes", "analytics",
               "logs", "publish", "push"}
    /\ Init /\ AlertsInit /\ RainInit /\ PingInit /\ RoutesInit /\ ViewsInit
    /\ UsageInit /\ PublishInit /\ PushInit
    /\ sys # "install" => unit = "none"
    /\ sys # "weather" => top = "here"
    /\ sys # "routes" => rules = <<>>
    /\ sys # "logs" => ~codex
    /\ repos \in {{}, Repo} /\ (sys # "publish" => work = {1} /\ repos = {})

AllNext ==
    /\ UNCHANGED sys
    /\ \/ /\ sys = "install" /\ Next
          /\ UNCHANGED <<alertVars, rainVars, pingVars, routeVars, viewsVars,
                        usageVars, publishVars, pushVars>>
       \/ /\ sys = "alerts" /\ AlertsNext
          /\ UNCHANGED <<vars, rainVars, pingVars, routeVars, viewsVars,
                        usageVars, publishVars, pushVars>>
       \/ /\ sys = "weather" /\ RainNext
          /\ UNCHANGED <<vars, alertVars, pingVars, routeVars, viewsVars,
                        usageVars, publishVars, pushVars>>
       \/ /\ sys = "ping" /\ PingNext
          /\ UNCHANGED <<vars, alertVars, rainVars, routeVars, viewsVars,
                        usageVars, publishVars, pushVars>>
       \/ /\ sys = "routes" /\ RoutesNext
          /\ UNCHANGED <<vars, alertVars, rainVars, pingVars, viewsVars,
                        usageVars, publishVars, pushVars>>
       \/ /\ sys = "analytics" /\ ViewsNext
          /\ UNCHANGED <<vars, alertVars, rainVars, pingVars, routeVars,
                        usageVars, publishVars, pushVars>>
       \/ /\ sys = "logs" /\ UsageNext
          /\ UNCHANGED <<vars, alertVars, rainVars, pingVars, routeVars,
                        viewsVars, publishVars, pushVars>>
       \/ /\ sys = "publish" /\ PublishNext
          /\ UNCHANGED <<vars, alertVars, rainVars, pingVars, routeVars,
                        viewsVars, usageVars, pushVars>>
       \/ /\ sys = "push" /\ PushNext
          /\ UNCHANGED <<vars, alertVars, rainVars, pingVars, routeVars,
                        viewsVars, usageVars, publishVars>>

AllSpec == AllInit /\ [][AllNext]_AllVars

(* Apps, destinations, logs, publishes and browsers are interchangeable.   *)
Symmetry == Permutations({x, y})
=============================================================================
