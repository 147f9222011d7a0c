------------------------------- MODULE Routes -------------------------------
(***************************************************************************)
(* Published hostnames (src/internal/server/server.go publishHost,         *)
(* removeRoute, syncIngressRoutes; routes.go; src/internal/cf/cf.go;       *)
(* src/internal/proxy): a hostname is published by a route of the local    *)
(* proxy, a DNS record and an ingress rule of a Cloudflare tunnel that     *)
(* other programs share.                                                   *)
(*                                                                         *)
(* Every request works through those one call at a time, any call may      *)
(* fail, and the rules are changed by reading the whole list and writing   *)
(* it back. Nothing makes requests wait for each other: Overlap says       *)
(* whether they do overlap, with one another and with the other programs'  *)
(* edits. cloudflared takes the first rule that matches a name, so the     *)
(* order of the rules is state.                                            *)
(***************************************************************************)
EXTENDS Integers, Sequences, FiniteSets, Functions

CONSTANTS Hostname,       \* the names exe publishes
          OtherHost,      \* names of the other programs on the tunnel
          Caller,         \* requests the daemon serves at a time
          Overlap,        \* requests may overlap
          StartRules,     \* the tunnel's rules before exe's first
          MaxCallers,     \* requests ever made
          MaxCallFails,   \* calls that fail, and crashes
          MaxTheirEdits   \* edits of the other programs

Wildcard == "*"     \* *.<zone>: matches every name
CatchAll == ""      \* the rule without a hostname
Service == {"s1", "s2"}  \* this daemon's origin, before and after a change of advertise_host
TheirService == "theirs"  \* the service of another program's rule
Names == Hostname \union OtherHost \union {Wildcard, CatchAll}

ASSUME RoutesAssumption ==
    /\ Hostname \intersect (OtherHost \union {Wildcard, CatchAll}) = {}
    /\ OtherHost \intersect {Wildcard, CatchAll} = {}
    /\ StartRules \subseteq Seq([host : Names, service : {TheirService, "404"}])

VARIABLES routes,    \* the proxy's routes, in memory and on file
          dns,       \* names with a CNAME to the tunnel
          txt,       \* names with a DNSLink record
          rules,     \* the tunnel's ingress rules
          svc,       \* advertiseService of the configuration in place
          call,      \* what each request is doing
          whole,     \* names whose last publish ended without a warning
          callers, callFails, theirEdits

routeVars == <<routes, dns, txt, rules, svc, call, whole, callers, callFails, theirEdits>>

NoCall == [op |-> "none", host |-> CatchAll, hosts |-> {}, at |-> "end", got |-> <<>>, svc |-> "s1", warned |-> FALSE]
underWay == {r \in Caller : call[r].op # "none"}

RoutesInit ==
    /\ routes = {}
    /\ dns = {}
    /\ txt = {}
    /\ rules \in StartRules
    /\ svc = "s1"
    /\ call = [r \in Caller |-> NoCall]
    /\ whole = {}
    /\ callers = 0
    /\ callFails = 0
    /\ theirEdits = 0

-----------------------------------------------------------------------------
\* The rules as a list.

Rule(h, s) == [host |-> h, service |-> s]
IsShadow(rule) == rule.host \in {Wildcard, CatchAll}

First(S) == CHOOSE i \in S : \A j \in S : i <= j

\* The first wildcard or catch-all rule, or one past the end.
firstShadow(list) ==
    LET at == {i \in DOMAIN list : IsShadow(list[i])}
    IN IF at = {} THEN Len(list) + 1 ELSE First(at)

Ahead(list) == SubSeq(list, 1, firstShadow(list) - 1)
Behind(list) == SubSeq(list, firstShadow(list), Len(list))

insertIngress(list, rule) == Ahead(list) \o <<rule>> \o Behind(list)

\* The rules of the list whose name is among hosts, in order.
Only(list, hosts) ==
    LET upTo[i \in 0 .. Len(list)] ==
            IF i = 0 THEN <<>>
            ELSE IF list[i].host \in hosts THEN Append(upTo[i - 1], list[i])
            ELSE upTo[i - 1]
    IN upTo[Len(list)]

BugHoistIngress(list, managed) == list

\* Rules of exe's names behind a shadow move, in order, to just ahead of the first one.
hoistIngress(list, managed) ==
    Ahead(list) \o Only(Behind(list), managed) \o Only(Behind(list), Names \ managed)

ensureCatchAll(list) ==
    IF Len(list) > 0 /\ list[Len(list)].host = CatchAll THEN list
    ELSE Append(list, Rule(CatchAll, "404"))

Named(list, h) == {i \in DOMAIN list : list[i].host = h}

\* EnsureIngress: the first rule of the name is rewritten, or a new one put in.
EnsureIngress(list, h, s) ==
    IF Named(list, h) # {}
    THEN hoistIngress([list EXCEPT ![First(Named(list, h))] = Rule(h, s)], {h})
    ELSE ensureCatchAll(insertIngress(list, Rule(h, s)))

\* Rules for the names, in some order (the code's is alphabetical).
RulesFor(hosts, s) ==
    LET order == CHOOSE o \in [1 .. Cardinality(hosts) -> hosts] : Range(o) = hosts
    IN [i \in 1 .. Cardinality(hosts) |-> Rule(order[i], s)]

\* SyncIngress: every rule of the names is rewritten, and the missing ones put in, each behind the one before.
SyncIngress(list, hosts, s) ==
    LET set == [i \in DOMAIN list |-> IF list[i].host \in hosts THEN Rule(list[i].host, s) ELSE list[i]]
        hoisted == hoistIngress(set, hosts)
        missing == {h \in hosts : Named(list, h) = {}}
    IN IF missing = {} THEN hoisted
       ELSE ensureCatchAll(Ahead(hoisted) \o RulesFor(missing, s) \o Behind(hoisted))

RemoveIngress(list, h) == Only(list, Names \ {h})

\* The service cloudflared sends a name to: that of the first rule that matches.
Resolve(list, h) ==
    LET m == {i \in DOMAIN list : list[i].host \in {h, Wildcard, CatchAll}}
    IN IF m = {} THEN "404" ELSE list[First(m)].service

-----------------------------------------------------------------------------
\* The requests, one call at a time.

MayStart(r) == call[r].op = "none" /\ callers < MaxCallers /\ (Overlap \/ underWay = {})

\* publishHost: the local route first.
PublishHost(r, h) ==
    /\ MayStart(r)
    /\ routes' = routes \union {h}
    /\ call' = [call EXCEPT ![r] = [NoCall EXCEPT !.op = "publish", !.host = h, !.at = "dns", !.svc = svc]]
    /\ whole' = whole \ {h}
    /\ callers' = callers + 1
    /\ UNCHANGED <<dns, txt, rules, svc, callFails, theirEdits>>

\* removeRoute: Cloudflare first, the local route last.
Unpublish(r, h) ==
    /\ MayStart(r)
    /\ h \in routes
    /\ call' = [call EXCEPT ![r] = [NoCall EXCEPT !.op = "remove", !.host = h, !.at = "dns"]]
    /\ whole' = whole \ {h}
    /\ callers' = callers + 1
    /\ UNCHANGED <<routes, dns, txt, rules, svc, callFails, theirEdits>>

\* handleDNSLinkSet, its check that the name is a route included.
Link(r, h) ==
    /\ MayStart(r)
    /\ h \in routes
    /\ call' = [call EXCEPT ![r] = [NoCall EXCEPT !.op = "link", !.host = h, !.at = "txt"]]
    /\ callers' = callers + 1
    /\ UNCHANGED <<routes, dns, txt, rules, svc, whole, callFails, theirEdits>>

\* A new advertise_host: the configuration is in place, then every route's rule is repointed.
Repoint(r) ==
    /\ MayStart(r)
    /\ svc' = IF svc = "s1" THEN "s2" ELSE "s1"
    /\ call' = [call EXCEPT ![r] = IF routes = {} THEN NoCall
                                 ELSE [NoCall EXCEPT !.op = "sync", !.hosts = routes, !.at = "get", !.svc = svc']]
    /\ callers' = callers + 1
    /\ UNCHANGED <<routes, dns, txt, rules, whole, callFails, theirEdits>>

CallAt(r, op, at) == call[r].op = op /\ call[r].at = at
CallGo(r, at) == call' = [call EXCEPT ![r].at = at]
CallEnd(r) == call' = [call EXCEPT ![r] = NoCall]

\* EnsureDNS, DeleteDNS.
CallDNS(r) ==
    /\ \/ /\ CallAt(r, "publish", "dns")
          /\ dns' = dns \union {call[r].host}
          /\ CallGo(r, "get")
       \/ /\ CallAt(r, "remove", "dns")
          /\ dns' = dns \ {call[r].host}
          /\ CallGo(r, "txt")
    /\ UNCHANGED <<routes, txt, rules, svc, whole, callers, callFails, theirEdits>>

\* SetTXT, DeleteTXT.
CallTXT(r) ==
    /\ \/ /\ CallAt(r, "link", "txt")
          /\ txt' = txt \union {call[r].host}
          /\ CallEnd(r)
       \/ /\ CallAt(r, "remove", "txt")
          /\ txt' = txt \ {call[r].host}
          /\ CallGo(r, "get")
    /\ UNCHANGED <<routes, dns, rules, svc, whole, callers, callFails, theirEdits>>

\* The list as it will be written back.
Changed(r, list) ==
    CASE call[r].op = "publish" -> EnsureIngress(list, call[r].host, call[r].svc)
      [] call[r].op = "remove"  -> RemoveIngress(list, call[r].host)
      [] call[r].op = "sync"    -> SyncIngress(list, call[r].hosts, call[r].svc)

\* GET of the tunnel's configuration.
GetRules(r) ==
    /\ call[r].at = "get"
    /\ call' = [call EXCEPT ![r].at = "put", ![r].got = rules]
    /\ UNCHANGED <<routes, dns, txt, rules, svc, whole, callers, callFails, theirEdits>>

\* PUT of it; a removal or a sync that changes nothing writes nothing.
PutRules(r) ==
    /\ call[r].at = "put"
    /\ rules' = IF call[r].op # "publish" /\ Changed(r, call[r].got) = call[r].got
                THEN rules ELSE Changed(r, call[r].got)
    /\ IF call[r].op = "remove"
       THEN CallGo(r, "route") /\ UNCHANGED whole
       ELSE /\ CallEnd(r)
            /\ whole' = IF call[r].op = "publish" /\ ~call[r].warned /\ call[r].svc = svc
                        THEN whole \union {call[r].host} ELSE whole
    /\ UNCHANGED <<routes, dns, txt, svc, callers, callFails, theirEdits>>

\* The end of removeRoute: the proxy's route.
RemoveRoute(r) ==
    /\ CallAt(r, "remove", "route")
    /\ routes' = routes \ {call[r].host}
    /\ CallEnd(r)
    /\ UNCHANGED <<dns, txt, rules, svc, whole, callers, callFails, theirEdits>>

\* A call to Cloudflare fails: publishing goes on with a warning, everything else ends there.
CallFails(r) ==
    /\ call[r].at \in {"dns", "txt", "get", "put"}
    /\ call[r].op # "none"
    /\ callFails < MaxCallFails
    /\ callFails' = callFails + 1
    /\ IF CallAt(r, "publish", "dns")
       THEN call' = [call EXCEPT ![r].at = "get", ![r].warned = TRUE]
       ELSE CallEnd(r)
    /\ whole' = IF call[r].op = "sync" THEN {} ELSE whole
    /\ UNCHANGED <<routes, dns, txt, rules, svc, callers, theirEdits>>

\* The daemon goes down and comes back: the requests are gone, the routes are on file.
RoutesCrash ==
    /\ underWay # {}
    /\ callFails < MaxCallFails
    /\ callFails' = callFails + 1
    /\ call' = [r \in Caller |-> NoCall]
    /\ whole' = IF \E r \in Caller : call[r].op = "sync" THEN {} ELSE whole
    /\ UNCHANGED <<routes, dns, txt, rules, svc, callers, theirEdits>>

\* Another program puts a rule of its own first, or takes its rules out.
OthersEdit(x) ==
    /\ theirEdits < MaxTheirEdits
    /\ Overlap \/ underWay = {}
    /\ theirEdits' = theirEdits + 1
    /\ rules' = IF Named(rules, x) = {} THEN <<Rule(x, TheirService)>> \o rules ELSE RemoveIngress(rules, x)
    /\ UNCHANGED <<routes, dns, txt, svc, call, whole, callers, callFails>>

Call(r) == CallDNS(r) \/ CallTXT(r) \/ GetRules(r) \/ PutRules(r) \/ RemoveRoute(r) \/ CallFails(r)

RoutesNext ==
    \/ \E r \in Caller : Call(r) \/ Repoint(r)
    \/ \E r \in Caller, h \in Hostname : PublishHost(r, h) \/ Unpublish(r, h) \/ Link(r, h)
    \/ RoutesCrash
    \/ \E x \in OtherHost : OthersEdit(x)

RoutesSpec == RoutesInit /\ [][RoutesNext]_routeVars

-----------------------------------------------------------------------------
(***************************************************************************)
(* A hostname published without a warning is reached: while nothing is     *)
(* under way, it has its route, its DNS record, and the first rule that    *)
(* matches it is this daemon's, wherever wildcards and other programs'     *)
(* rules stood before (EnsureIngress, insertIngress and hoistIngress,      *)
(* cf.go:396-437, 467-511).                                                *)
(***************************************************************************)
PublishedIsReached ==
    underWay = {} => \A h \in whole : h \in routes \intersect dns /\ Resolve(rules, h) = svc

(***************************************************************************)
(* Nothing of exe's is left at Cloudflare for a name without a route,      *)
(* after any failure or crash: "a failed unexpose leaves the route         *)
(* visible; ... retries after a partial failure are safe"                  *)
(* (server.go:1133-1136).                                                  *)
(***************************************************************************)
NothingDangles ==
    \A h \in Hostname :
        (h \in dns \union txt \/ \E i \in Named(rules, h) : rules[i].service \in Service)
            => h \in routes

(***************************************************************************)
(* Both: the routes, the DNS and the tunnel tell one story, as long as     *)
(* requests do not overlap, with one another or with the other programs'   *)
(* edits.  That is the property's condition and not the code's doing: the  *)
(* rules are read with one call and written back with another              *)
(* (cf.go:405-436), nothing serializes the two, and what was written in    *)
(* between is undone, another program's rule ("preserving other rules",    *)
(* cf.go:396-398) or the rule of a name published meanwhile.               *)
(***************************************************************************)
RoutesAgree == ~Overlap => PublishedIsReached /\ NothingDangles
=============================================================================
