------------------------------ MODULE Serving ------------------------------
(***************************************************************************)
(* From options to answers: New applies the options one by one and         *)
(* resolves the routes (options.go, dashboard.go), RegisterRoutes mounts   *)
(* the endpoints (handlers.go), and the dashboard route negotiates between *)
(* a page, whose links must lead somewhere, and JSON (handlers.go,         *)
(* routes.go).                                                             *)
(*                                                                         *)
(* A route before resolution is a place, "" when it is empty.  A prefix is  *)
(* a stem and its number of trailing slashes.  A path is a prefix and a    *)
(* place.  Requests are for mounted paths; what the mux answers to others  *)
(* is net/http's.                                                          *)
(***************************************************************************)
EXTENDS Naturals, Sequences, FiniteSets, FiniteSetsExt

CONSTANTS
  Place,      \* what may follow a prefix, "" included
  Slashed,    \* the places among them that end in a slash
  Table,      \* values of type Routes, for WithRoutes
  Stem,       \* prefixes without trailing slashes, "" included
  Accept,     \* Accept headers: sets of a media range and its quality
  MaxOptions  \* model bound on the options given to New

Always == {"dashboard", "sse", "liveness", "readiness", "startup"}
Optional == {"favicon", "metrics", "trend", "export", "introspect",
             "datastar", "healthz"}
Endpoint == Always \cup Optional
MediaRange ==
  {"application/json", "application/*", "text/html", "text/*", "*/*"}

NoPrefix == <<"", 0>>
Prefix == Stem \X (0 .. 2)
Path == Prefix \X Place
Disabled == <<NoPrefix, "">>

(* A script's source that is no path: the CDN, or what WithDatastarSrc was  *)
(* given.                                                                  *)
Elsewhere == {"cdn", "custom"}

ASSUME ServingAssumption ==
  /\ Endpoint \cup {""} \subseteq Place
  /\ Slashed \subseteq Place \ (Endpoint \cup {""})
  /\ Table \subseteq [Endpoint -> Place]
  /\ "" \in Stem
  /\ Elsewhere \cap Path = {}
  /\ Accept \subseteq SUBSET (MediaRange \X Nat)
  /\ \A h \in Accept : IsFiniteSet(h)
  /\ MaxOptions \in Nat

(* DefaultRoutes: every endpoint under its own name but Healthz, which is  *)
(* disabled.                                                               *)
DefaultRoutes == [e \in Endpoint |-> IF e = "healthz" THEN "" ELSE e]

VARIABLES
  opts,     \* the options applied so far
  cfg,      \* Config
  healthz,  \* whether the prober is a Healthzer
  step,     \* how far the program has got
  mux,      \* the endpoint of every mounted path
  reply     \* the last answer

vars == <<opts, cfg, healthz, step, mux, reply>>

Config ==
  [routes : [Endpoint -> Path], basePath : Prefix, metrics : BOOLEAN,
   trend : BOOLEAN, introspection : BOOLEAN, embedded : BOOLEAN,
   src : Path \cup Elsewhere]

Option ==
  [kind : {"routes"}, value : Table] \cup [kind : {"base"}, value : Prefix]
    \cup [kind : {"metrics", "trend"}, value : BOOLEAN]
    \cup [kind : {"introspection", "embedded"}, value : {TRUE}]
    \cup [kind : {"src"}, value : {"custom"}]

NoReply == [kind |-> "none"]
-----------------------------------------------------------------------------
WithRoutes(c, table) ==
  [c EXCEPT !.routes = [e \in Endpoint |-> <<NoPrefix, table[e]>>]]

(* Mutant: the prefix goes before the routes given so far.                 *)
WithBasePathAtOnce(c, prefix) ==
  [c EXCEPT !.routes = [e \in Endpoint |-> <<<<prefix[1], 0>>, @[e][2]>>]]

(* strings.TrimRight(prefix, "/")                                          *)
WithBasePath(c, prefix) == [c EXCEPT !.basePath = <<prefix[1], 0>>]

WithMetrics(c, enabled) == [c EXCEPT !.metrics = enabled]

(* A sample count that is not positive leaves the trend as it is.          *)
WithTrend(c, positive) == [c EXCEPT !.trend = @ \/ positive]

WithDatastarSrc(c, src) == [c EXCEPT !.src = src]

WithIntrospection(c) == [c EXCEPT !.introspection = TRUE]

WithEmbeddedDatastarSDK(c) == [c EXCEPT !.embedded = TRUE]

Applied(c, o) ==
  CASE o.kind = "routes" -> WithRoutes(c, o.value)
    [] o.kind = "base" -> WithBasePath(c, o.value)
    [] o.kind = "metrics" -> WithMetrics(c, o.value)
    [] o.kind = "trend" -> WithTrend(c, o.value)
    [] o.kind = "src" -> WithDatastarSrc(c, o.value)
    [] o.kind = "introspection" -> WithIntrospection(c)
    [] o.kind = "embedded" -> WithEmbeddedDatastarSDK(c)

(* resolveRoutes: these routes are prefixed even when they are empty.      *)
PrefixedAnyway == Always \cup {"favicon", "introspect"}

Resolved(c) ==
  [e \in Endpoint |->
     IF c.routes[e] = Disabled /\ e \notin PrefixedAnyway
     THEN Disabled ELSE <<c.basePath, c.routes[e][2]>>]

(* The embedded SDK takes the place of WithDatastarSrc.                    *)
Source(c, routes) ==
  IF ~c.embedded THEN c.src
  ELSE IF routes["datastar"] = Disabled THEN "cdn" ELSE routes["datastar"]

(* RegisterRoutes and registerHealthz: when an endpoint is mounted.        *)
Mounts(c, e) ==
  \/ e \in Always
  \/ /\ c.routes[e] # Disabled
     /\ CASE e = "favicon" -> TRUE
          [] e = "metrics" -> c.metrics
          [] e \in {"trend", "export"} -> c.trend
          [] e = "introspect" -> c.introspection
          [] e = "datastar" -> c.embedded
          [] e = "healthz" -> healthz

Mounted(c) == {e \in Endpoint : Mounts(c, e)}

(* http.ServeMux panics on an empty pattern and on one it has already.     *)
Panics(c) ==
  \E e \in Mounted(c) :
    \/ c.routes[e] = Disabled
    \/ \E f \in Mounted(c) \ {e} : c.routes[f] = c.routes[e]

(* Mutant: the export link forgets that the route needs the trend.         *)
LinkedExport(c) ==
  {"sse"} \cup {e \in {"favicon", "export"} : c.routes[e] # Disabled}
    \cup {e \in {"trend"} : c.trend /\ c.routes[e] # Disabled}
    \cup {e \in {"metrics"} : c.metrics /\ c.routes[e] # Disabled}

(* buildData, exportURL, trendURL, metricsURL: the endpoints a page links. *)
Linked(c) ==
  {"sse"} \cup {e \in {"favicon"} : c.routes[e] # Disabled}
    \cup {e \in {"trend", "export"} : c.trend /\ c.routes[e] # Disabled}
    \cup {e \in {"metrics"} : c.metrics /\ c.routes[e] # Disabled}

Quality(h, ranges) == Max({0} \cup {p[2] : p \in {r \in h : r[1] \in ranges}})

(* Mutant: JSON wins a tie.                                                *)
WantsJSONOnTie(h) ==
  /\ h # {}
  /\ Quality(h, {"application/json", "application/*", "*/*"})
       >= Quality(h, {"text/html", "text/*", "*/*"})

(* wantsJSON: the best quality of any range that fits, HTML on a tie.      *)
WantsJSON(h) ==
  Quality(h, {"application/json", "application/*", "*/*"})
    > Quality(h, {"text/html", "text/*", "*/*"})

TypeOK ==
  /\ opts \in Seq(Option) /\ Len(opts) <= MaxOptions
  /\ cfg \in Config
  /\ healthz \in BOOLEAN
  /\ step \in {"options", "built", "serving", "panicked"}
  /\ \A p \in DOMAIN mux : p \in Path \ {Disabled} /\ mux[p] \in Endpoint
  /\ reply.kind \in {"none", "missing", "endpoint", "json", "page"}

Init ==
  /\ opts = <<>>
  /\ cfg = [routes |-> [e \in Endpoint |-> <<NoPrefix, DefaultRoutes[e]>>],
            basePath |-> NoPrefix, metrics |-> FALSE, trend |-> FALSE,
            introspection |-> FALSE, embedded |-> FALSE, src |-> "cdn"]
  /\ healthz \in BOOLEAN
  /\ step = "options"
  /\ mux = [p \in {} |-> "dashboard"]
  /\ reply = NoReply
-----------------------------------------------------------------------------
(* New: opt(&cfg)                                                          *)
Apply(o) ==
  /\ step = "options"
  /\ Len(opts) < MaxOptions
  /\ opts' = Append(opts, o)
  /\ cfg' = Applied(cfg, o)
  /\ UNCHANGED <<healthz, step, mux, reply>>

(* New: cfg.resolveRoutes() and what depends on it.                        *)
Build ==
  /\ step = "options"
  /\ LET routes == IF cfg.basePath = NoPrefix THEN cfg.routes ELSE Resolved(cfg)
     IN  cfg' = [cfg EXCEPT !.routes = routes, !.src = Source(cfg, routes)]
  /\ step' = "built"
  /\ UNCHANGED <<opts, healthz, mux, reply>>

(* RegisterRoutes                                                          *)
Register ==
  /\ step = "built"
  /\ ~Panics(cfg)
  /\ mux' = [p \in {cfg.routes[e] : e \in Mounted(cfg)} |->
               CHOOSE e \in Mounted(cfg) : cfg.routes[e] = p]
  /\ step' = "serving"
  /\ UNCHANGED <<opts, cfg, healthz, reply>>

RegisterPanics ==
  /\ step = "built"
  /\ Panics(cfg)
  /\ step' = "panicked"
  /\ UNCHANGED <<opts, cfg, healthz, mux, reply>>

(* embeddedSDKHandler knows its route without a trailing slash only.       *)
Found(p) == mux[p] = "datastar" => p[2] \notin Slashed

(* A request for a path; only the dashboard route reads its header.  The   *)
(* handlers keep nothing between requests, so one is enough.               *)
ServeEndpoint(p) ==
  /\ mux[p] # "dashboard"
  /\ Found(p)
  /\ reply' = [kind |-> "endpoint", endpoint |-> mux[p]]
  /\ UNCHANGED <<opts, cfg, healthz, step, mux>>

(* embeddedSDKHandler: 404                                                 *)
ServeNotFound(p) ==
  /\ ~Found(p)
  /\ reply' = [kind |-> "missing"]
  /\ UNCHANGED <<opts, cfg, healthz, step, mux>>

(* serveJSON                                                               *)
ServeJSON(p, h) ==
  /\ mux[p] = "dashboard"
  /\ WantsJSON(h)
  /\ reply' = [kind |-> "json", accept |-> h]
  /\ UNCHANGED <<opts, cfg, healthz, step, mux>>

(* Handler: the page, its links and the source of its script.              *)
ServePage(p, h) ==
  /\ mux[p] = "dashboard"
  /\ ~WantsJSON(h)
  /\ reply' = [kind |-> "page", accept |-> h, src |-> cfg.src,
               links |-> [e \in Linked(cfg) |-> cfg.routes[e]]]
  /\ UNCHANGED <<opts, cfg, healthz, step, mux>>

Answer ==
  /\ step = "serving"
  /\ reply = NoReply
  /\ \E p \in DOMAIN mux :
       \/ ServeEndpoint(p)
       \/ ServeNotFound(p)
       \/ \E h \in Accept : ServeJSON(p, h) \/ ServePage(p, h)

Next ==
  \/ \E o \in Option : Apply(o)
  \/ Build
  \/ Register
  \/ RegisterPanics
  \/ Answer

Spec == Init /\ [][Next]_vars
-----------------------------------------------------------------------------
(* The value the last option of a kind was given.                          *)
Given(kind, default) ==
  LET S == {i \in DOMAIN opts : opts[i].kind = kind}
  IN  IF S = {} THEN default ELSE opts[Max(S)].value

(***************************************************************************)
(* "The order of WithBasePath relative to WithRoutes does not matter" and  *)
(* no prefix produces a double slash (options.go, WithBasePath): every     *)
(* route that was given a place is that place under the last prefix,       *)
(* stripped, and an empty metrics, trend, export, SDK or Healthz route     *)
(* stays empty.  What becomes of the other routes when they are empty is   *)
(* EmptyRoutesStayEmpty's matter.                                          *)
(***************************************************************************)
RoutesAsConfigured ==
  step # "options" =>
    \A e \in Endpoint :
      LET place == Given("routes", DefaultRoutes)[e]
          stem == Given("base", NoPrefix)[1]
      IN  /\ place # "" => cfg.routes[e] = <<<<stem, 0>>, place>>
          /\ place = "" /\ e \in {"metrics", "trend", "export", "datastar", "healthz"}
               => cfg.routes[e] = Disabled

(***************************************************************************)
(* "Empty routes stay empty ("disabled") and never become the bare prefix" *)
(* (options.go:464-465), stated of the routes that may be disabled.        *)
(***************************************************************************)
EmptyRoutesStayEmpty ==
  step # "options" =>
    \A e \in Optional :
      Given("routes", DefaultRoutes)[e] = "" => cfg.routes[e] = Disabled

(***************************************************************************)
(* A page and the mux agree about what is there, although they decide it   *)
(* apart (routes.go and handlers.go): it links an endpoint exactly when    *)
(* that is mounted, every link leads to its endpoint, and a script that is *)
(* to come from here is the embedded SDK, which answers unless its route   *)
(* was given a trailing slash: then the page's script is a 404             *)
(* (embeddedSDKHandler).                                                   *)
(***************************************************************************)
LinksLead ==
  reply.kind = "page" =>
    /\ \A e \in {"sse", "favicon", "trend", "export", "metrics"} :
         e \in DOMAIN reply.links <=> \E p \in DOMAIN mux : mux[p] = e
    /\ \A e \in DOMAIN reply.links : mux[reply.links[e]] = e /\ Found(reply.links[e])
    /\ reply.src \in Path =>
         /\ mux[reply.src] = "datastar"
         /\ Found(reply.src) <=> Given("routes", DefaultRoutes)["datastar"] \notin Slashed

(* RFC 7231 5.3.2: the most specific range that fits a type decides.       *)
RFCQuality(h, ranges) ==
  LET fits == {i \in DOMAIN ranges : \E r \in h : r[1] = ranges[i]}
  IN  IF fits = {} THEN 0 ELSE Quality(h, {ranges[Min(fits)]})

JSONRanges == <<"application/json", "application/*", "*/*">>
HTMLRanges == <<"text/html", "text/*", "*/*">>

(* No range is given a higher quality than a more specific one.            *)
Orderly(h) ==
  \A ranges \in {JSONRanges, HTMLRanges} :
    \A r, s \in h : \A i, j \in DOMAIN ranges :
      r[1] = ranges[i] /\ s[1] = ranges[j] /\ i < j => r[2] >= s[2]

(***************************************************************************)
(* "Reports whether the request prefers JSON over HTML based on the Accept *)
(* header's quality values (RFC 7231 5.3.2)" (handlers.go, wantsJSON):     *)
(* the answer is the one the RFC's rule asks for, for every header that    *)
(* does not rate a wildcard above a more specific range.                   *)
(***************************************************************************)
NegotiationAgrees ==
  reply.kind \in {"json", "page"} /\ Orderly(reply.accept) =>
    (reply.kind = "json"
       <=> RFCQuality(reply.accept, JSONRanges)
             > RFCQuality(reply.accept, HTMLRanges))
=============================================================================
