------------------------------ MODULE MCServing ------------------------------
(***************************************************************************)
(* Model values for Serving: route tables that move, disable, enable,      *)
(* collide and end in a slash, two stems, and every Accept header of up to *)
(* two ranges; and for RateLimiter, whose bucket stands in front of the    *)
(* dashboard's own routes.                                                 *)
(*                                                                         *)
(* The bucket neither reads nor changes anything of what is served behind  *)
(* it, nor the other way round, so FrontSpec does not multiply the two: a  *)
(* behaviour of it is one of the one or of the other.                      *)
(***************************************************************************)
EXTENDS Serving, RateLimiter
MCPlaces == Endpoint \cup {"", "status", "sdk/"}
MCSlashed == {"sdk/"}
MCTables ==
  {[DefaultRoutes EXCEPT !["dashboard"] = "status", !["healthz"] = "healthz"],
   [DefaultRoutes EXCEPT !["dashboard"] = ""],
   [DefaultRoutes EXCEPT !["favicon"] = "", !["introspect"] = ""],
   [DefaultRoutes EXCEPT !["metrics"] = "", !["export"] = "", !["datastar"] = ""],
   [DefaultRoutes EXCEPT !["healthz"] = "liveness", !["trend"] = ""],
   [DefaultRoutes EXCEPT !["datastar"] = "sdk/"]}
MCStems == {"", "/admin"}
MCParts == MediaRange \X (1 .. 2)
MCAccepts ==
  {{}, {<<"application/json", 0>>, <<"*/*", 1>>}}
    \cup {{q, r} : q, r \in MCParts}

CONSTANTS r1, r2
MCRequests == {r1, r2}

VARIABLE part   \* which of the two a behaviour is about
frontVars == <<vars, limiterVars, part>>

FrontInit ==
  /\ Init /\ BucketInit
  /\ part \in {"routes", "bucket"}
  /\ part = "bucket" => healthz = FALSE

FrontNext ==
  /\ \/ part = "routes" /\ Next /\ UNCHANGED limiterVars
     \/ part = "bucket" /\ BucketNext /\ UNCHANGED vars
  /\ UNCHANGED part

FrontSpec == FrontInit /\ [][FrontNext]_frontVars
=============================================================================
