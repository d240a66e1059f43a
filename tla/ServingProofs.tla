----------------------------- MODULE ServingProofs -----------------------------
(***************************************************************************)
(* Theorems about Serving for any places, stems, route tables and Accept   *)
(* headers, and any number of options in any order.                        *)
(***************************************************************************)
EXTENDS Serving, FiniteSetTheorems, WellFoundedInduction, TLAPS

(* A set of numbers has a least member.                                    *)
LEMMA MinOfNat ==
  ASSUME NEW S \in SUBSET Nat, S # {}
  PROVE  Min(S) \in S /\ \A x \in S : Min(S) <= x
<1>1. PICK b \in S : \A a \in S : <<a, b>> \notin OpToRel(<, Nat)
  BY NatLessThanWellFounded, WFMin
<1>2. \A a \in S : ~(a < b) BY <1>1 DEF OpToRel
<1>3. \A a \in S : b <= a BY <1>2
<1>4. QED BY <1>3 DEF Min

(* A set of numbers with a bound has a greatest member.                    *)
LEMMA MaxOfBounded ==
  ASSUME NEW S \in SUBSET Nat, S # {}, NEW n \in Nat, \A x \in S : x <= n
  PROVE  Max(S) \in S /\ \A x \in S : x <= Max(S)
<1> DEFINE Bounds == {b \in Nat : \A x \in S : x <= b}
<1>1. Bounds # {} /\ Bounds \in SUBSET Nat OBVIOUS
<1>2. PICK b \in Bounds : \A a \in Bounds : b <= a
  <2> HIDE DEF Bounds
  <2> QED BY <1>1, MinOfNat
<1>3. \A a \in Bounds : ~(a < b) BY <1>1, <1>2
<1>4. b \in S
  <2> SUFFICES ASSUME b \notin S PROVE FALSE OBVIOUS
  <2>1. b \in Nat /\ \A x \in S : x \in Nat /\ x < b BY <1>2
  <2>2. b - 1 \in Nat
    <3>1. PICK x \in S : x \in Nat /\ x < b BY <2>1
    <3>2. QED BY <2>1, <3>1
  <2>3. \A x \in S : x <= b - 1 BY <2>1
  <2>4. b - 1 \in Bounds BY <2>2, <2>3
  <2>5. QED BY <1>3, <2>1, <2>4
<1>5. \A x \in S : b >= x BY <1>2
<1>6. Max(S) \in S /\ \A x \in S : Max(S) >= x BY <1>4, <1>5 DEF Max
<1>7. QED BY <1>6
-----------------------------------------------------------------------------
(* What the last option of a kind in a list was given: Given, of any list. *)
LastGiven(list, kind, default) ==
  LET S == {i \in DOMAIN list : list[i].kind = kind}
  IN  IF S = {} THEN default ELSE list[Max(S)].value

LEMMA GivenIsLast ==
  ASSUME NEW kind, NEW default
  PROVE  Given(kind, default) = LastGiven(opts, kind, default)
BY DEF Given, LastGiven

(* One more option counts for its own kind and for no other.                *)
LEMMA OneMoreOption ==
  ASSUME NEW list \in Seq(Option), NEW o \in Option, NEW kind, NEW default
  PROVE  LastGiven(Append(list, o), kind, default)
           = IF o.kind = kind THEN o.value ELSE LastGiven(list, kind, default)
<1> DEFINE more == Append(list, o)
           n == Len(list)
           S == {i \in DOMAIN list : list[i].kind = kind}
           T == {i \in DOMAIN more : more[i].kind = kind}
<1>1. /\ n \in Nat /\ DOMAIN list = 1 .. n /\ DOMAIN more = 1 .. n + 1
      /\ more[n + 1] = o /\ \A i \in 1 .. n : more[i] = list[i]
  OBVIOUS
<1>2. PICK m \in Nat : m = n + 1 BY <1>1
<1>3. DOMAIN more = 1 .. m /\ more[m] = o BY <1>1, <1>2
<1>4. T \in SUBSET Nat /\ \A x \in T : x <= m BY <1>2, <1>3
<1> HIDE DEF more
<1>5. CASE o.kind = kind
  <2>1. m \in T BY <1>2, <1>3, <1>5, <1>1
  <2>2. Max(T) \in T /\ \A x \in T : x <= Max(T)
    <3> HIDE DEF T
    <3> QED BY <1>2, <1>4, <2>1, MaxOfBounded
  <2>3. Max(T) = m
    <3>1. m <= Max(T) /\ Max(T) <= m /\ Max(T) \in Nat BY <1>4, <2>1, <2>2
    <3>2. QED BY <3>1, <1>2
  <2>4. LastGiven(more, kind, default) = more[Max(T)].value BY <2>1 DEF LastGiven
  <2>5. QED BY <1>3, <1>5, <2>3, <2>4 DEF more
<1>6. CASE o.kind # kind
  <2>1. T = S BY <1>1, <1>2, <1>3, <1>6
  <2>2. CASE S = {} BY <1>6, <2>1, <2>2 DEF LastGiven, more
  <2>3. CASE S # {}
    <3>1. S \in SUBSET Nat /\ \A x \in S : x <= n BY <1>1
    <3>2. Max(S) \in S
      <4> HIDE DEF S
      <4> QED BY <1>1, <2>3, <3>1, MaxOfBounded
    <3>3. more[Max(S)] = list[Max(S)] BY <1>1, <3>2
    <3>4. LastGiven(more, kind, default) = more[Max(S)].value
      BY <2>1, <2>3 DEF LastGiven
    <3>5. LastGiven(list, kind, default) = list[Max(S)].value
      BY <2>3 DEF LastGiven
    <3>6. QED BY <1>6, <3>3, <3>4, <3>5 DEF more
  <2>4. QED BY <2>2, <2>3
<1>7. QED BY <1>5, <1>6
-----------------------------------------------------------------------------
(* Every route is a path, however the options and the prefix combine.       *)
LEMMA NoPrefixType == NoPrefix \in Prefix /\ Disabled \in Path
<1>1. 0 \in 0 .. 2 OBVIOUS
<1>2. NoPrefix \in Prefix BY <1>1, ServingAssumption DEF NoPrefix, Prefix
<1>3. "" \in Place BY ServingAssumption
<1>4. QED BY <1>2, <1>3 DEF Disabled, Path

LEMMA PlainRoutes ==
  ASSUME NEW table \in [Endpoint -> Place]
  PROVE  [e \in Endpoint |-> <<NoPrefix, table[e]>>] \in [Endpoint -> Path]
BY NoPrefixType DEF Path

LEMMA DefaultsAreRoutes == DefaultRoutes \in [Endpoint -> Place]
BY ServingAssumption DEF DefaultRoutes

LEMMA StemIsPrefix ==
  ASSUME NEW prefix \in Prefix
  PROVE  prefix[1] \in Stem /\ <<prefix[1], 0>> \in Prefix
BY DEF Prefix

LEMMA AppliedType ==
  ASSUME cfg \in Config, NEW o \in Option
  PROVE  Applied(cfg, o) \in Config
<1> USE DEF Config
<1>1. CASE o \in [kind : {"routes"}, value : Table]
  <2>1. o.kind = "routes" /\ o.value \in [Endpoint -> Place]
    BY <1>1, ServingAssumption
  <2>2. WithRoutes(cfg, o.value) \in Config BY <2>1, PlainRoutes DEF WithRoutes
  <2>3. QED BY <2>1, <2>2 DEF Applied
<1>2. CASE o \in [kind : {"base"}, value : Prefix]
  <2>1. o.kind = "base" /\ o.value \in Prefix BY <1>2
  <2>2. WithBasePath(cfg, o.value) \in Config BY <2>1, StemIsPrefix DEF WithBasePath
  <2>3. QED BY <2>1, <2>2 DEF Applied
<1>3. CASE o \in [kind : {"metrics", "trend"}, value : BOOLEAN]
  <2>1. o.kind \in {"metrics", "trend"} /\ o.value \in BOOLEAN BY <1>3
  <2>2. WithMetrics(cfg, o.value) \in Config /\ WithTrend(cfg, o.value) \in Config
    BY <2>1 DEF WithMetrics, WithTrend
  <2>3. QED BY <2>1, <2>2 DEF Applied
<1>4. CASE o \in [kind : {"introspection", "embedded"}, value : {TRUE}]
  <2>1. o.kind \in {"introspection", "embedded"} BY <1>4
  <2>2. WithIntrospection(cfg) \in Config /\ WithEmbeddedDatastarSDK(cfg) \in Config
    BY DEF WithIntrospection, WithEmbeddedDatastarSDK
  <2>3. QED BY <2>1, <2>2 DEF Applied
<1>5. CASE o \in [kind : {"src"}, value : {"custom"}]
  <2>1. o.kind = "src" /\ o.value = "custom" BY <1>5
  <2>2. WithDatastarSrc(cfg, "custom") \in Config BY DEF WithDatastarSrc, Elsewhere
  <2>3. QED BY <2>1, <2>2 DEF Applied
<1>6. QED BY <1>1, <1>2, <1>3, <1>4, <1>5 DEF Option

(* The routes New settles on.                                              *)
BuiltRoutes(c) == IF c.basePath = NoPrefix THEN c.routes ELSE Resolved(c)

LEMMA BuiltType ==
  ASSUME cfg \in Config
  PROVE  /\ BuiltRoutes(cfg) \in [Endpoint -> Path]
         /\ Source(cfg, BuiltRoutes(cfg)) \in Path \cup Elsewhere
<1>1. /\ cfg.routes \in [Endpoint -> Path] /\ cfg.basePath \in Prefix
      /\ cfg.src \in Path \cup Elsewhere
  BY DEF Config
<1>2. Disabled \in Path BY NoPrefixType
<1>3. \A e \in Endpoint : <<cfg.basePath, cfg.routes[e][2]>> \in Path
  <2>1. ASSUME NEW e \in Endpoint PROVE cfg.routes[e][2] \in Place
    <3>1. cfg.routes[e] \in Path BY <1>1
    <3>2. QED BY <3>1 DEF Path
  <2>2. QED BY <1>1, <2>1 DEF Path
<1>4. Resolved(cfg) \in [Endpoint -> Path] BY <1>2, <1>3 DEF Resolved
<1>5. BuiltRoutes(cfg) \in [Endpoint -> Path] BY <1>1, <1>4 DEF BuiltRoutes
<1>6. "datastar" \in Endpoint /\ "cdn" \in Elsewhere
  BY DEF Endpoint, Optional, Elsewhere
<1>7. QED BY <1>1, <1>5, <1>6 DEF Source
-----------------------------------------------------------------------------
(* Before New resolves them, the routes are the last table's and the base  *)
(* path is the last prefix, stripped, in whatever order they were given.   *)
OptionsSoFar ==
  step = "options" =>
    /\ Given("routes", DefaultRoutes) \in [Endpoint -> Place]
    /\ Given("base", NoPrefix) \in Prefix
    /\ cfg.routes =
         [e \in Endpoint |-> <<NoPrefix, Given("routes", DefaultRoutes)[e]>>]
    /\ cfg.basePath = <<Given("base", NoPrefix)[1], 0>>

(* After, every route is the place it was given under that base path, but  *)
(* for the empty ones resolveRoutes leaves empty.                          *)
ResolvedRoutes ==
  step # "options" =>
    \A e \in Endpoint :
      cfg.routes[e] =
        LET place == Given("routes", DefaultRoutes)[e]
            stem == Given("base", NoPrefix)[1]
        IN  IF place = "" /\ e \notin PrefixedAnyway
            THEN Disabled ELSE <<<<stem, 0>>, place>>

(* The source of the script: elsewhere until New has looked at the routes, *)
(* and then, if it is a path, the one the embedded SDK is mounted under.   *)
SourceSoFar ==
  /\ step = "options" => cfg.src \in Elsewhere
  /\ step # "options" /\ cfg.src \in Path =>
       cfg.embedded /\ cfg.src = cfg.routes["datastar"] /\ cfg.src # Disabled

MuxOf(c) == [p \in {c.routes[e] : e \in Mounted(c)} |->
               CHOOSE e \in Mounted(c) : c.routes[e] = p]

(* A program that serves has come past the panic, and answers from the mux *)
(* it built.                                                               *)
MuxSoFar ==
  /\ step # "serving" => mux = [p \in {} |-> "dashboard"] /\ reply = NoReply
  /\ step = "serving" => ~Panics(cfg) /\ mux = MuxOf(cfg)

(* What the last answer says.                                              *)
AnswerSoFar ==
  /\ reply.kind = "json" => reply.accept \in Accept /\ WantsJSON(reply.accept)
  /\ reply.kind = "page" =>
       /\ reply.accept \in Accept /\ ~WantsJSON(reply.accept)
       /\ step = "serving"
       /\ reply.src = cfg.src
       /\ reply.links = [e \in Linked(cfg) |-> cfg.routes[e]]

ServingInv ==
  /\ TypeOK
  /\ OptionsSoFar /\ ResolvedRoutes
  /\ SourceSoFar /\ MuxSoFar /\ AnswerSoFar

LEMMA InitServingInv == Init => ServingInv
<1> SUFFICES ASSUME Init PROVE ServingInv OBVIOUS
<1>1. opts \in Seq(Option) /\ Len(opts) = 0 /\ DOMAIN opts = {} BY DEF Init
<1>2. TypeOK
  <2>1. cfg.routes \in [Endpoint -> Path]
    BY DefaultsAreRoutes, PlainRoutes DEF Init
  <2>2. cfg \in Config BY <2>1, NoPrefixType DEF Init, Config, Elsewhere
  <2>3. MaxOptions \in Nat BY ServingAssumption
  <2>4. \A p \in DOMAIN mux : FALSE BY DEF Init
  <2>5. step = "options" /\ healthz \in BOOLEAN /\ reply.kind = "none"
    BY DEF Init, NoReply
  <2>6. QED BY <1>1, <2>2, <2>3, <2>4, <2>5 DEF TypeOK
<1>3. /\ Given("routes", DefaultRoutes) = DefaultRoutes
      /\ Given("base", NoPrefix) = NoPrefix
  BY <1>1 DEF Given
<1>4. OptionsSoFar
  <2>1. NoPrefix = <<NoPrefix[1], 0>> BY DEF NoPrefix
  <2>2. /\ cfg.basePath = NoPrefix
        /\ cfg.routes = [e \in Endpoint |-> <<NoPrefix, DefaultRoutes[e]>>]
    BY DEF Init
  <2>3. QED
    BY <1>3, <2>1, <2>2, DefaultsAreRoutes, NoPrefixType DEF OptionsSoFar
<1>5. ResolvedRoutes /\ SourceSoFar
  BY DEF Init, ResolvedRoutes, SourceSoFar, Elsewhere
<1>6. MuxSoFar /\ AnswerSoFar BY DEF Init, MuxSoFar, AnswerSoFar, NoReply
<1>7. QED BY <1>2, <1>4, <1>5, <1>6 DEF ServingInv

(* Options                                                                 *)
LEMMA ApplyInv ==
  ASSUME ServingInv, NEW o \in Option, Apply(o)
  PROVE  ServingInv'
<1> USE DEF Apply
<1>1. cfg \in Config /\ opts \in Seq(Option) BY DEF ServingInv, TypeOK
<1>2. cfg' \in Config BY <1>1, AppliedType
<1>3. TypeOK'
  <2>1. opts' \in Seq(Option) BY <1>1
  <2>2. Len(opts) < MaxOptions /\ Len(opts') = Len(opts) + 1 BY <1>1
  <2>3. /\ MaxOptions \in Nat
        /\ Len(opts) \in Nat
    <3>1. MaxOptions \in Nat BY ServingAssumption
    <3>2. Len(opts) \in Nat BY <1>1
    <3>3. QED BY <3>1, <3>2
  <2>4. Len(opts') <= MaxOptions BY <2>2, <2>3
  <2>5. QED BY <1>2, <2>1, <2>4 DEF ServingInv, TypeOK
<1>4. ASSUME NEW kind, NEW default
      PROVE  LastGiven(opts', kind, default)
               = IF o.kind = kind THEN o.value ELSE LastGiven(opts, kind, default)
  BY <1>1, OneMoreOption
<1>5. cfg.src \in Elsewhere BY DEF ServingInv, SourceSoFar
<1>6. OptionsSoFar'
  <2> DEFINE table == Given("routes", DefaultRoutes)
             prefix == Given("base", NoPrefix)
  <2>1. /\ table \in [Endpoint -> Place] /\ prefix \in Prefix
        /\ cfg.routes = [e \in Endpoint |-> <<NoPrefix, table[e]>>]
        /\ cfg.basePath = <<prefix[1], 0>>
    BY DEF ServingInv, OptionsSoFar
  <2>2. /\ table' = IF o.kind = "routes" THEN o.value ELSE table
        /\ prefix' = IF o.kind = "base" THEN o.value ELSE prefix
    <3>1. /\ table = LastGiven(opts, "routes", DefaultRoutes)
          /\ prefix = LastGiven(opts, "base", NoPrefix)
      BY DEF Given, LastGiven
    <3>2. table' = LastGiven(opts', "routes", DefaultRoutes)
      BY DEF Given, LastGiven
    <3>3. prefix' = LastGiven(opts', "base", NoPrefix)
      BY DEF Given, LastGiven
    <3> HIDE DEF table, prefix
    <3>4. QED BY <1>4, <3>1, <3>2, <3>3
  <2> SUFFICES /\ table' \in [Endpoint -> Place] /\ prefix' \in Prefix
               /\ cfg'.routes = [e \in Endpoint |-> <<NoPrefix, table'[e]>>]
               /\ cfg'.basePath = <<prefix'[1], 0>>
    BY DEF OptionsSoFar
  <2> HIDE DEF table, prefix
  <2>3. CASE o.kind = "routes"
    <3>1. o.value \in [Endpoint -> Place]
      BY <2>3, ServingAssumption DEF Option
    <3>2. cfg' = WithRoutes(cfg, o.value) BY <2>3 DEF Applied
    <3>3. QED BY <1>1, <2>1, <2>2, <2>3, <3>1, <3>2 DEF WithRoutes, Config
  <2>4. CASE o.kind = "base"
    <3>1. o.value \in Prefix BY <2>4 DEF Option
    <3>2. cfg' = WithBasePath(cfg, o.value) BY <2>4 DEF Applied
    <3>3. QED BY <1>1, <2>1, <2>2, <2>4, <3>1, <3>2 DEF WithBasePath, Config
  <2>5. CASE o.kind \notin {"routes", "base"}
    <3>1. cfg'.routes = cfg.routes /\ cfg'.basePath = cfg.basePath
      <4>1. o.kind \in {"metrics", "trend", "src", "introspection", "embedded"}
        BY <2>5 DEF Option
      <4>2. QED
        BY <1>1, <4>1 DEF Applied, Config, WithMetrics, WithTrend,
           WithDatastarSrc, WithIntrospection, WithEmbeddedDatastarSDK
    <3>2. QED BY <2>1, <2>2, <2>5, <3>1
  <2>6. QED BY <2>3, <2>4, <2>5
<1>9. SourceSoFar'
  <2>1. cfg'.src \in Elsewhere
    <3>1. CASE o.kind = "src"
      <4>1. o.value = "custom" /\ cfg' = WithDatastarSrc(cfg, o.value)
        BY <3>1 DEF Option, Applied
      <4>2. QED BY <1>1, <4>1 DEF WithDatastarSrc, Config, Elsewhere
    <3>2. CASE o.kind # "src"
      <4>1. o.kind \in {"routes", "base", "metrics", "trend", "introspection",
                        "embedded"}
        BY <3>2 DEF Option
      <4>2. cfg'.src = cfg.src
        BY <1>1, <4>1 DEF Applied, Config, WithRoutes, WithBasePath, WithMetrics,
           WithTrend, WithIntrospection, WithEmbeddedDatastarSDK
      <4>3. QED BY <1>5, <4>2
    <3>3. QED BY <3>1, <3>2
  <2>2. QED BY <2>1 DEF SourceSoFar
<1>7. (ResolvedRoutes /\ MuxSoFar /\ AnswerSoFar)'
  BY DEF ServingInv, ResolvedRoutes, MuxSoFar, AnswerSoFar, NoReply
<1>8. QED BY <1>3, <1>6, <1>7, <1>9 DEF ServingInv

LEMMA BuildInv ==
  ASSUME ServingInv, Build
  PROVE  ServingInv'
<1> DEFINE place == Given("routes", DefaultRoutes)
           stem == Given("base", NoPrefix)[1]
<1>1. /\ cfg \in Config /\ step = "options" /\ step' = "built"
      /\ cfg' = [cfg EXCEPT !.routes = BuiltRoutes(cfg),
                            !.src = Source(cfg, BuiltRoutes(cfg))]
      /\ UNCHANGED <<opts, healthz, mux, reply>>
  BY DEF Build, BuiltRoutes, ServingInv, TypeOK
<1>2. cfg' \in Config BY <1>1, BuiltType DEF Config
<1>3. TypeOK' BY <1>1, <1>2 DEF ServingInv, TypeOK
<1>4. ResolvedRoutes'
  <2>1. /\ place \in [Endpoint -> Place] /\ stem \in Stem
        /\ cfg.routes = [e \in Endpoint |-> <<NoPrefix, place[e]>>]
        /\ cfg.basePath = <<stem, 0>>
        /\ place' = place /\ stem' = stem
    BY <1>1, StemIsPrefix DEF ServingInv, OptionsSoFar, Given
  <2>2. cfg'.routes = BuiltRoutes(cfg) BY <1>1 DEF Config
  <2> HIDE DEF place, stem
  <2>3. ASSUME NEW e \in Endpoint
        PROVE  BuiltRoutes(cfg)[e] =
                 IF place[e] = "" /\ e \notin PrefixedAnyway
                 THEN Disabled ELSE <<<<stem, 0>>, place[e]>>
    <3>1. cfg.routes[e] = <<NoPrefix, place[e]>> /\ cfg.routes[e][2] = place[e]
      BY <2>1
    <3>2. cfg.routes[e] = Disabled <=> place[e] = "" BY <3>1 DEF Disabled
    <3>3. CASE cfg.basePath = NoPrefix
      <4>1. BuiltRoutes(cfg)[e] = <<cfg.basePath, place[e]>>
        BY <3>1, <3>3 DEF BuiltRoutes
      <4>2. QED BY <2>1, <3>3, <4>1 DEF Disabled
    <3>4. CASE cfg.basePath # NoPrefix
      BY <2>1, <3>1, <3>2, <3>4 DEF BuiltRoutes, Resolved
    <3>5. QED BY <3>3, <3>4
  <2>4. QED BY <2>1, <2>2, <2>3 DEF ResolvedRoutes, place, stem
<1>5. SourceSoFar'
  <2>1. /\ cfg'.src = Source(cfg, BuiltRoutes(cfg))
        /\ cfg'.routes = BuiltRoutes(cfg) /\ cfg'.embedded = cfg.embedded
    BY <1>1 DEF Config
  <2>2. cfg.src \in Elsewhere BY <1>1 DEF ServingInv, SourceSoFar
  <2>3. "cdn" \in Elsewhere BY DEF Elsewhere
  <2>4. \A x \in Elsewhere : x \notin Path BY ServingAssumption
  <2>5. QED BY <1>1, <2>1, <2>2, <2>3, <2>4 DEF SourceSoFar, Source
<1>6. (OptionsSoFar /\ MuxSoFar /\ AnswerSoFar)'
  BY <1>1 DEF ServingInv, OptionsSoFar, MuxSoFar, AnswerSoFar, NoReply
<1>7. QED BY <1>3, <1>4, <1>5, <1>6 DEF ServingInv

(* Where the mux leads: every mounted endpoint is found under its route,   *)
(* since no two share one, and nothing else is.                            *)
LEMMA MuxLeads ==
  ASSUME ~Panics(cfg), mux = MuxOf(cfg)
  PROVE  /\ \A p \in DOMAIN mux : mux[p] \in Mounted(cfg) /\ cfg.routes[mux[p]] = p
         /\ \A e \in Mounted(cfg) :
              /\ cfg.routes[e] \in DOMAIN mux /\ cfg.routes[e] # Disabled
              /\ mux[cfg.routes[e]] = e
<1>1. DOMAIN mux = {cfg.routes[e] : e \in Mounted(cfg)} BY DEF MuxOf
<1>2. ASSUME NEW p \in DOMAIN mux
      PROVE  mux[p] \in Mounted(cfg) /\ cfg.routes[mux[p]] = p
  <2>1. mux[p] = CHOOSE e \in Mounted(cfg) : cfg.routes[e] = p BY <1>1 DEF MuxOf
  <2>2. \E e \in Mounted(cfg) : cfg.routes[e] = p BY <1>1
  <2>3. QED BY <2>1, <2>2
<1>3. ASSUME NEW e \in Mounted(cfg)
      PROVE  /\ cfg.routes[e] \in DOMAIN mux /\ cfg.routes[e] # Disabled
             /\ mux[cfg.routes[e]] = e
  <2>1. cfg.routes[e] \in DOMAIN mux BY <1>1
  <2>2. \A f \in Mounted(cfg) : cfg.routes[f] = cfg.routes[e] => f = e
    BY DEF Panics
  <2>3. cfg.routes[e] # Disabled BY DEF Panics
  <2>4. QED BY <1>2, <2>1, <2>2, <2>3
<1>4. QED BY <1>2, <1>3

(* What the mux and the links are computed from.                           *)
LEMMA SameProgram ==
  ASSUME UNCHANGED <<cfg, healthz>>
  PROVE  /\ Panics(cfg)' <=> Panics(cfg)
         /\ MuxOf(cfg)' = MuxOf(cfg)
         /\ Linked(cfg)' = Linked(cfg)
<1>1. Mounted(cfg)' = Mounted(cfg) BY DEF Mounted, Mounts
<1>2. MuxOf(cfg)' = MuxOf(cfg) BY <1>1 DEF MuxOf
<1>3. Panics(cfg)' <=> Panics(cfg) BY <1>1 DEF Panics
<1>4. Linked(cfg)' = Linked(cfg) BY DEF Linked
<1>5. QED BY <1>2, <1>3, <1>4

LEMMA RegisterInv ==
  ASSUME ServingInv, Register
  PROVE  ServingInv'
<1>1. /\ step = "built" /\ step' = "serving" /\ ~Panics(cfg)
      /\ mux' = MuxOf(cfg)
      /\ UNCHANGED <<opts, cfg, healthz, reply>>
  BY DEF Register, MuxOf
<1>2. MuxSoFar'
  BY <1>1 DEF MuxSoFar, Panics, MuxOf, Mounted, Mounts
<1>3. TypeOK'
  <2>1. cfg.routes \in [Endpoint -> Path] BY DEF ServingInv, TypeOK, Config
  <2>2. Mounted(cfg) \subseteq Endpoint BY DEF Mounted
  <2>3. ASSUME NEW p \in DOMAIN mux'
        PROVE  p \in Path \ {Disabled} /\ mux'[p] \in Endpoint
    <3>1. p \in {cfg.routes[e] : e \in Mounted(cfg)} BY <1>1, <2>3 DEF MuxOf
    <3>2. PICK e \in Mounted(cfg) : p = cfg.routes[e] BY <3>1
    <3>3. p \in Path /\ p # Disabled BY <1>1, <2>1, <2>2, <3>2 DEF Panics
    <3>4. mux'[p] = CHOOSE f \in Mounted(cfg) : cfg.routes[f] = p
      BY <1>1, <3>1 DEF MuxOf
    <3>5. mux'[p] \in Mounted(cfg) BY <3>2, <3>4
    <3>6. QED BY <2>2, <3>3, <3>5
  <2>4. QED BY <1>1, <2>3 DEF ServingInv, TypeOK
<1>4. reply = NoReply BY <1>1 DEF ServingInv, MuxSoFar
<1>5. (OptionsSoFar /\ SourceSoFar /\ AnswerSoFar)'
  BY <1>1, <1>4 DEF ServingInv, OptionsSoFar, SourceSoFar, AnswerSoFar, NoReply
<1>6. ResolvedRoutes' BY <1>1 DEF ServingInv, ResolvedRoutes, Given
<1>7. QED BY <1>2, <1>3, <1>5, <1>6 DEF ServingInv

LEMMA RegisterPanicsInv ==
  ASSUME ServingInv, RegisterPanics
  PROVE  ServingInv'
<1>1. /\ step = "built" /\ step' = "panicked"
      /\ UNCHANGED <<opts, cfg, healthz, mux, reply>>
  BY DEF RegisterPanics
<1>2. TypeOK' BY <1>1 DEF ServingInv, TypeOK
<1>3. reply = NoReply /\ mux = [p \in {} |-> "dashboard"]
  BY <1>1 DEF ServingInv, MuxSoFar
<1>4. (OptionsSoFar /\ SourceSoFar)'
  BY <1>1 DEF ServingInv, OptionsSoFar, SourceSoFar
<1>5. (MuxSoFar /\ AnswerSoFar)' BY <1>1, <1>3 DEF MuxSoFar, AnswerSoFar, NoReply
<1>6. ResolvedRoutes' BY <1>1 DEF ServingInv, ResolvedRoutes, Given
<1>7. QED BY <1>2, <1>4, <1>5, <1>6 DEF ServingInv

LEMMA AnswerInv ==
  ASSUME ServingInv, Answer
  PROVE  ServingInv'
<1>1. step = "serving" BY DEF Answer
<1>2. UNCHANGED <<opts, cfg, healthz, step, mux>>
  BY DEF Answer, ServeEndpoint, ServeNotFound, ServeJSON, ServePage
<1>3. /\ reply'.kind \in {"missing", "endpoint", "json", "page"}
      /\ reply'.kind = "json" => reply'.accept \in Accept /\ WantsJSON(reply'.accept)
      /\ reply'.kind = "page" =>
           /\ reply'.accept \in Accept /\ ~WantsJSON(reply'.accept)
           /\ reply'.src = cfg.src
           /\ reply'.links = [e \in Linked(cfg) |-> cfg.routes[e]]
  BY DEF Answer, ServeEndpoint, ServeNotFound, ServeJSON, ServePage
<1>4. TypeOK' BY <1>2, <1>3 DEF ServingInv, TypeOK
<1>5. AnswerSoFar' BY <1>1, <1>2, <1>3 DEF AnswerSoFar, Linked
<1>6. MuxSoFar'
  <2>1. ~Panics(cfg) /\ mux = MuxOf(cfg) BY <1>1 DEF ServingInv, MuxSoFar
  <2>2. ~Panics(cfg)' /\ mux' = MuxOf(cfg)' BY <1>2, <2>1, SameProgram
  <2>3. QED BY <1>1, <1>2, <2>2 DEF MuxSoFar
<1>7. (OptionsSoFar /\ SourceSoFar)'
  BY <1>2 DEF ServingInv, OptionsSoFar, SourceSoFar, Given
<1>8. ResolvedRoutes' BY <1>2 DEF ServingInv, ResolvedRoutes, Given
<1>9. QED BY <1>4, <1>5, <1>6, <1>7, <1>8 DEF ServingInv

LEMMA NextServingInv == ServingInv /\ [Next]_vars => ServingInv'
<1>1. ASSUME ServingInv, UNCHANGED vars PROVE ServingInv'
  <2>1. UNCHANGED <<opts, cfg, healthz, step, mux, reply>> BY <1>1 DEF vars
  <2>2. TypeOK' BY <1>1, <2>1 DEF ServingInv, TypeOK
  <2>3. (OptionsSoFar /\ ResolvedRoutes /\ SourceSoFar)'
    <3>1. OptionsSoFar' BY <1>1, <2>1 DEF ServingInv, OptionsSoFar, Given
    <3>2. ResolvedRoutes' BY <1>1, <2>1 DEF ServingInv, ResolvedRoutes, Given
    <3>3. SourceSoFar' BY <1>1, <2>1 DEF ServingInv, SourceSoFar
    <3>4. QED BY <3>1, <3>2, <3>3
  <2>4. MuxSoFar'
    <3>1. /\ Panics(cfg)' <=> Panics(cfg)
          /\ MuxOf(cfg)' = MuxOf(cfg)
      BY <2>1, SameProgram
    <3>2. CASE step = "serving"
      BY <1>1, <2>1, <3>1, <3>2 DEF ServingInv, MuxSoFar
    <3>3. CASE step # "serving"
      BY <1>1, <2>1, <3>3 DEF ServingInv, MuxSoFar, NoReply
    <3>4. QED BY <3>2, <3>3
  <2>5. AnswerSoFar' BY <1>1, <2>1, SameProgram DEF ServingInv, AnswerSoFar
  <2>6. QED BY <2>2, <2>3, <2>4, <2>5 DEF ServingInv
<1>2. QED
  BY <1>1, ApplyInv, BuildInv, RegisterInv, RegisterPanicsInv, AnswerInv DEF Next

(***************************************************************************)
(* Whatever options New is given, the routes are paths, nothing is mounted *)
(* under an empty one, and every mounted path leads to an endpoint         *)
(* (options.go, resolveRoutes; handlers.go, RegisterRoutes).               *)
(***************************************************************************)
THEOREM ServingTypeCorrect == Spec => []TypeOK
<1>1. ServingInv => TypeOK BY DEF ServingInv
<1>2. QED BY <1>1, InitServingInv, NextServingInv, PTL DEF Spec

(***************************************************************************)
(* For any number of options in any order, a route that was given a place  *)
(* is that place under the last prefix, stripped, and an empty metrics,    *)
(* trend, export, SDK or Healthz route stays empty (options.go,            *)
(* WithBasePath, WithRoutes, resolveRoutes).                               *)
(***************************************************************************)
THEOREM RoutesResolve == Spec => []RoutesAsConfigured
<1>1. ASSUME ServingInv PROVE RoutesAsConfigured
  <2>1. ResolvedRoutes BY <1>1 DEF ServingInv
  <2>2. {"metrics", "trend", "export", "datastar", "healthz"} \cap PrefixedAnyway = {}
    BY DEF PrefixedAnyway, Always
  <2>3. QED BY <2>1, <2>2 DEF ResolvedRoutes, RoutesAsConfigured
<1>2. QED BY <1>1, InitServingInv, NextServingInv, PTL DEF Spec

(* The page's tests and the mux's are the same five tests.                  *)
LEMMA LinkedIsMounted ==
  ASSUME ~Panics(cfg), NEW e \in {"sse", "favicon", "trend", "export", "metrics"}
  PROVE  e \in Linked(cfg) <=> e \in Mounted(cfg)
<1>1. e \in Endpoint BY DEF Endpoint, Always, Optional
<1>2. QED BY <1>1 DEF Linked, Mounted, Mounts, Always

(***************************************************************************)
(* What a page links is mounted and leads where it says, and a script it   *)
(* loads from this server is the embedded SDK, or a 404 just when the SDK's *)
(* route was given a trailing slash (routes.go, exportURL, trendURL,       *)
(* metricsURL; handlers.go, RegisterRoutes, embeddedSDKHandler).           *)
(***************************************************************************)
THEOREM LinksLeadSomewhere == Spec => []LinksLead
<1>1. ASSUME ServingInv PROVE LinksLead
  <2> SUFFICES ASSUME reply.kind = "page" PROVE LinksLead BY DEF LinksLead
  <2>1. /\ step = "serving" /\ reply.src = cfg.src
        /\ reply.links = [e \in Linked(cfg) |-> cfg.routes[e]]
    BY <1>1 DEF ServingInv, AnswerSoFar
  <2>2. ~Panics(cfg) /\ mux = MuxOf(cfg) BY <1>1, <2>1 DEF ServingInv, MuxSoFar
  <2>3. /\ \A p \in DOMAIN mux : mux[p] \in Mounted(cfg)
        /\ \A e \in Mounted(cfg) :
             cfg.routes[e] \in DOMAIN mux /\ mux[cfg.routes[e]] = e
    BY <2>2, MuxLeads
  <2>4. DOMAIN reply.links = Linked(cfg) BY <2>1
  <2>5. Linked(cfg) \subseteq {"sse", "favicon", "trend", "export", "metrics"}
    BY DEF Linked
  <2>6. ASSUME NEW e \in {"sse", "favicon", "trend", "export", "metrics"}
        PROVE  e \in DOMAIN reply.links <=> \E p \in DOMAIN mux : mux[p] = e
    BY <2>2, <2>3, <2>4, <2>6, LinkedIsMounted
  <2>7. ASSUME NEW e \in DOMAIN reply.links
        PROVE  mux[reply.links[e]] = e /\ Found(reply.links[e])
    <3>1. e \in Mounted(cfg) BY <2>2, <2>4, <2>5, LinkedIsMounted
    <3>2. reply.links[e] = cfg.routes[e] BY <2>1, <2>4
    <3>3. mux[reply.links[e]] = e BY <2>3, <3>1, <3>2
    <3>4. e # "datastar" BY <2>4, <2>5
    <3>5. QED BY <3>3, <3>4 DEF Found
  <2>8. ASSUME reply.src \in Path
        PROVE  /\ mux[reply.src] = "datastar"
               /\ Found(reply.src)
                    <=> Given("routes", DefaultRoutes)["datastar"] \notin Slashed
    <3>1. cfg.embedded /\ cfg.src = cfg.routes["datastar"] /\ cfg.src # Disabled
      BY <1>1, <2>1, <2>8 DEF ServingInv, SourceSoFar
    <3>2. "datastar" \in Mounted(cfg)
      BY <3>1 DEF Mounted, Mounts, Endpoint, Always, Optional
    <3>3. mux[reply.src] = "datastar" BY <2>1, <2>3, <3>1, <3>2
    <3> DEFINE place == Given("routes", DefaultRoutes)["datastar"]
               stem == Given("base", NoPrefix)[1]
    <3>4. "datastar" \in Endpoint BY DEF Endpoint, Optional
    <3>5. cfg.routes["datastar"] =
            IF place = "" /\ "datastar" \notin PrefixedAnyway
            THEN Disabled ELSE <<<<stem, 0>>, place>>
      BY <1>1, <2>1, <3>4 DEF ServingInv, ResolvedRoutes
    <3> HIDE DEF place, stem
    <3>6. reply.src = <<<<stem, 0>>, place>> BY <2>1, <3>1, <3>5
    <3>7. reply.src[2] = place BY <3>6
    <3>8. QED BY <3>3, <3>7 DEF Found, place
  <2>9. QED BY <2>6, <2>7, <2>8 DEF LinksLead
<1>2. QED BY <1>1, InitServingInv, NextServingInv, PTL DEF Spec
-----------------------------------------------------------------------------
(* Finitely many qualities have a bound: the least number of ranges without *)
(* one would have one fewer without one.                                   *)
LEMMA QualitiesBounded ==
  ASSUME NEW h \in SUBSET (MediaRange \X Nat), IsFiniteSet(h)
  PROVE  \E n \in Nat : \A p \in h : p[2] <= n
<1> DEFINE Unbounded(H) == ~\E n \in Nat : \A p \in H : p[2] <= n
           Counter == {H \in SUBSET (MediaRange \X Nat) : IsFiniteSet(H) /\ Unbounded(H)}
           Sizes == {Cardinality(H) : H \in Counter}
<1> SUFFICES ASSUME h \in Counter PROVE FALSE OBVIOUS
<1>1. \A H \in Counter : Cardinality(H) \in Nat BY FS_CardinalityType
<1>2. Sizes \in SUBSET Nat /\ Sizes # {} BY <1>1
<1>3. PICK k \in Sizes : \A j \in Sizes : k <= j
  <2> HIDE DEF Sizes
  <2> QED BY <1>2, MinOfNat
<1>4. PICK H \in Counter : Cardinality(H) = k BY <1>3
<1>5. H # {}
  <2> SUFFICES ASSUME H = {} PROVE FALSE OBVIOUS
  <2>1. \A p \in H : p[2] <= 0 OBVIOUS
  <2>2. QED BY <1>4, <2>1
<1>6. PICK q \in H : TRUE BY <1>5
<1>7. q[2] \in Nat /\ \A p \in H : p[2] \in Nat BY <1>4, <1>6
<1>8. /\ IsFiniteSet(H \ {q})
      /\ Cardinality(H \ {q}) = Cardinality(H) - 1
  BY <1>4, <1>6, FS_RemoveElement
<1>9. H \ {q} \notin Counter
  <2> SUFFICES ASSUME H \ {q} \in Counter PROVE FALSE OBVIOUS
  <2>1. Cardinality(H \ {q}) \in Sizes OBVIOUS
  <2>2. k <= k - 1 /\ k \in Nat BY <1>1, <1>3, <1>4, <1>8, <2>1
  <2>3. QED BY <2>2
<1>10. PICK n \in Nat : \A p \in H \ {q} : p[2] <= n BY <1>4, <1>8, <1>9
<1>11. PICK m \in Nat : n <= m /\ q[2] <= m
  <2>1. PICK x \in Nat : x = q[2] BY <1>7
  <2>2. PICK m \in Nat : n <= m /\ x <= m
    <3>1. n + x \in Nat /\ n <= n + x /\ x <= n + x OBVIOUS
    <3>2. QED BY <3>1
  <2>3. QED BY <2>1, <2>2
<1>12. ASSUME NEW p \in H PROVE p[2] <= m
  <2>1. PICK x \in Nat : x = p[2] BY <1>7
  <2>2. CASE p = q BY <1>11, <2>2
  <2>3. CASE p # q
    <3>1. x <= n BY <1>10, <2>1, <2>3
    <3>2. x <= m BY <1>11, <3>1
    <3>3. QED BY <2>1, <3>2
  <2>4. QED BY <2>2, <2>3
<1>13. QED BY <1>4, <1>12

(* Quality is the greatest quality of the ranges that fit, and 0 if none.   *)
LEMMA QualityIsMax ==
  ASSUME NEW h \in SUBSET (MediaRange \X Nat), IsFiniteSet(h), NEW ranges
  PROVE  /\ Quality(h, ranges) \in Nat
         /\ \A p \in h : p[1] \in ranges => p[2] <= Quality(h, ranges)
         /\ \/ Quality(h, ranges) = 0
            \/ \E p \in h : p[1] \in ranges /\ p[2] = Quality(h, ranges)
<1> DEFINE S == {0} \cup {p[2] : p \in {r \in h : r[1] \in ranges}}
<1>1. \A p \in h : p[2] \in Nat OBVIOUS
<1>2. S \in SUBSET Nat /\ S # {} BY <1>1
<1>3. PICK n \in Nat : \A p \in h : p[2] <= n BY QualitiesBounded
<1>4. \A x \in S : x <= n BY <1>1, <1>3
<1>5. Max(S) \in S /\ \A x \in S : x <= Max(S)
  <2> HIDE DEF S
  <2> QED BY <1>2, <1>4, MaxOfBounded
<1>6. Quality(h, ranges) = Max(S) BY DEF Quality
<1>7. PICK m \in S : m = Max(S) /\ \A x \in S : x <= m BY <1>5
<1>8. m \in Nat /\ \A p \in h : p[1] \in ranges => p[2] <= m BY <1>2, <1>7
<1>9. m = 0 \/ \E p \in h : p[1] \in ranges /\ p[2] = m BY <1>7
<1> HIDE DEF S
<1>10. QED BY <1>6, <1>7, <1>8, <1>9

(* The most specific range that fits a type has the best quality of all    *)
(* that fit, where no range is rated above a more specific one.            *)
LEMMA SpecificIsBest ==
  ASSUME NEW h \in SUBSET (MediaRange \X Nat), IsFiniteSet(h), Orderly(h),
         NEW ranges \in {JSONRanges, HTMLRanges}
  PROVE  RFCQuality(h, ranges) = Quality(h, {ranges[i] : i \in DOMAIN ranges})
<1> DEFINE fits == {i \in DOMAIN ranges : \E r \in h : r[1] = ranges[i]}
           all == {ranges[i] : i \in DOMAIN ranges}
<1>1. DOMAIN ranges = 1 .. 3 BY DEF JSONRanges, HTMLRanges
<1>2. \A r, s \in h : \A i, j \in DOMAIN ranges :
        r[1] = ranges[i] /\ s[1] = ranges[j] /\ i < j => r[2] >= s[2]
  BY DEF Orderly
<1>3. PICK best \in Nat :
        /\ best = Quality(h, all)
        /\ \A p \in h : p[1] \in all => p[2] <= best
        /\ best = 0 \/ \E p \in h : p[1] \in all /\ p[2] = best
  <2> HIDE DEF all
  <2> QED BY QualityIsMax
<1>4. \A p \in h : p[2] \in Nat OBVIOUS
<1>5. CASE fits = {}
  <2>1. \A p \in h : p[1] \notin all BY <1>5
  <2>2. best = 0 BY <1>3, <2>1
  <2>3. RFCQuality(h, ranges) = 0 BY <1>5 DEF RFCQuality
  <2>4. QED BY <1>3, <2>2, <2>3
<1>6. CASE fits # {}
  <2>1. fits \in SUBSET Nat BY <1>1
  <2>2. PICK m \in fits : m = Min(fits) /\ \A j \in fits : m <= j
    <3> HIDE DEF fits
    <3> QED BY <1>6, <2>1, MinOfNat
  <2>3. RFCQuality(h, ranges) = Quality(h, {ranges[m]})
    BY <1>6, <2>2 DEF RFCQuality
  <2>4. PICK own \in Nat :
          /\ own = Quality(h, {ranges[m]})
          /\ \A p \in h : p[1] \in {ranges[m]} => p[2] <= own
          /\ own = 0 \/ \E p \in h : p[1] \in {ranges[m]} /\ p[2] = own
    BY QualityIsMax
  <2>5. m \in 1 .. 3 /\ ranges[m] \in all BY <1>1
  <2>6. PICK r \in h : r[1] = ranges[m] BY <2>2
  <2>7. own <= best BY <1>3, <2>4, <2>5
  <2>8. best <= own
    <3>1. CASE best = 0 BY <3>1
    <3>2. CASE best # 0
      <4>1. PICK p \in h : p[1] \in all /\ p[2] = best BY <1>3, <3>2
      <4>2. PICK j \in fits : p[1] = ranges[j] BY <4>1
      <4>3. j \in 1 .. 3 /\ m <= j BY <1>1, <2>2, <4>2
      <4>4. CASE m = j BY <2>4, <4>1, <4>2, <4>4
      <4>5. CASE m < j
        <5>1. r[2] >= p[2] BY <1>1, <1>2, <2>5, <2>6, <4>2, <4>3, <4>5
        <5>2. r[2] <= own BY <2>4, <2>6
        <5>3. r[2] \in Nat BY <1>4
        <5>4. QED BY <4>1, <5>1, <5>2, <5>3
      <4>6. QED BY <2>5, <4>3, <4>4, <4>5
    <3>3. QED BY <3>1, <3>2
  <2>9. own = best BY <2>7, <2>8
  <2>10. QED BY <1>3, <2>3, <2>4, <2>9
<1>7. QED BY <1>5, <1>6

(***************************************************************************)
(* For every Accept header that does not rate a wildcard above a more      *)
(* specific range, the representation is the one RFC 7231's rule asks for  *)
(* (handlers.go, wantsJSON).                                               *)
(***************************************************************************)
THEOREM NegotiatesAsRFC == Spec => []NegotiationAgrees
<1>1. ASSUME NEW h \in Accept, Orderly(h)
      PROVE  WantsJSON(h) <=> RFCQuality(h, JSONRanges) > RFCQuality(h, HTMLRanges)
  <2>1. h \in SUBSET (MediaRange \X Nat) /\ IsFiniteSet(h) BY ServingAssumption
  <2>2. {JSONRanges[i] : i \in DOMAIN JSONRanges}
          = {"application/json", "application/*", "*/*"}
    BY DEF JSONRanges
  <2>3. {HTMLRanges[i] : i \in DOMAIN HTMLRanges} = {"text/html", "text/*", "*/*"}
    BY DEF HTMLRanges
  <2>4. /\ RFCQuality(h, JSONRanges)
             = Quality(h, {JSONRanges[i] : i \in DOMAIN JSONRanges})
        /\ RFCQuality(h, HTMLRanges)
             = Quality(h, {HTMLRanges[i] : i \in DOMAIN HTMLRanges})
    BY <1>1, <2>1, SpecificIsBest
  <2>5. QED BY <2>2, <2>3, <2>4 DEF WantsJSON
<1>2. ASSUME ServingInv PROVE NegotiationAgrees
  BY <1>1, <1>2 DEF ServingInv, AnswerSoFar, NegotiationAgrees
<1>3. QED BY <1>2, InitServingInv, NextServingInv, PTL DEF Spec
=============================================================================
