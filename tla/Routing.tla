------------------------------ MODULE Routing ------------------------------
(***************************************************************************)
(* The routes of a configuration: il_addRoute of api.c, findRoute and      *)
(* httpMethodMatchesEndPoint of ileastic.c.  regcomp and regexec are       *)
(* external: the expressions that routes are made of here are literals,    *)
(* ^, $, the group for a parameter and groups of the program's own.        *)
(***************************************************************************)
EXTENDS Text

CONSTANTS
  MaxRoutes,    \* bound: calls of il_addRoute
  MaxParms,     \* 256, the entries of parmNames and of parmValue
  StackNumbers  \* what may lie where il_addRoute has its variable routing

ASSUME RoutingAssumption == /\ {MaxRoutes, MaxParms} \subseteq Nat
                            /\ StackNumbers \subseteq Int

VARIABLES
  router,       \* pConfig->router, in the order of the list
  pRouting,     \* index of the route found, 0 for NULL
  parmValue     \* pRequest->parmValue, as far as it is set

routeVars == <<pRouting, parmValue>>

(* A ROUTETYPE is the set of its bits. *)
Bit == [GET |-> 0, POST |-> 1, DELETE |-> 2, PUT |-> 3, OPTIONS |-> 4,
        HEAD |-> 5, PATCH |-> 6]
IL_ANY == 0..15

httpMethodMatchesEndPoint(method, routeType) ==
  \/ routeType = IL_ANY
  \/ Len(method) = 1 /\ method[1] \in DOMAIN Bit /\ Bit[method[1]] \in routeType

-----------------------------------------------------------------------------
ParmGroup == "([^/]+)"

(* The expression for regcomp, with a group for each {name}, and the names *)
(* in their order.                                                         *)
parserRouting(routeReg) ==
  LET from[i \in 1..(Len(routeReg) + 1)] ==
        IF i > Len(routeReg) THEN [finalExpr |-> <<>>, parmNames |-> <<>>]
        ELSE IF routeReg[i] = "{"
        THEN LET end == memchr(routeReg, "}", i + 1, Len(routeReg) + 1) IN
             [finalExpr |-> <<ParmGroup>> \o from[end + 1].finalExpr,
              parmNames |-> <<SubSeq(routeReg, i + 1, end - 1)>>
                              \o from[end + 1].parmNames]
        ELSE [finalExpr |-> <<routeReg[i]>> \o from[i + 1].finalExpr,
              parmNames |-> from[i + 1].parmNames]
  IN from[1]

(* External: the alternatives of a group that a route has of its own. *)
Alternatives == [g \in {"(v1|v2)"} |-> {"v1", "v2"}]

(* External: regexec.  A group for a parameter takes all up to the next    *)
(* slash.  The first place that fits is taken.                             *)
regexec(expr, text) ==
  LET items == SelectSeq(expr, LAMBDA x : x \notin {"^", "$"})
      After(item, p) ==
        IF p = 0 \/ p > Len(text) THEN 0
        ELSE IF item = ParmGroup
             THEN LET slash == memchr(text, "/", p, Len(text) + 1) IN
                  IF slash = p THEN 0 ELSE IF slash = 0 THEN Len(text) + 1 ELSE slash
        ELSE IF \/ item = text[p]
                \/ item \in DOMAIN Alternatives /\ text[p] \in Alternatives[item]
             THEN p + 1 ELSE 0
      Places(start) ==
        LET at[k \in 1..(Len(items) + 1)] ==
              IF k = 1 THEN start ELSE After(items[k - 1], at[k - 1])
        IN at
      starts == {s \in IF Contains(expr, "^") THEN {1} ELSE 1..(Len(text) + 1) :
                   LET end == Places(s)[Len(items) + 1]
                   IN end # 0 /\ (Contains(expr, "$") => end = Len(text) + 1)}
      place == Places(Min(starts))
      groups == SelectSeq([k \in 1..Len(items) |-> k],
                          LAMBDA k : items[k] \in {ParmGroup} \cup DOMAIN Alternatives)
  IN IF starts = {} THEN [match |-> FALSE, groupArray |-> <<>>]
     ELSE [match |-> TRUE,
           groupArray |-> [g \in DOMAIN groups |->
             SubSeq(text, place[groups[g]], place[groups[g] + 1] - 1)]]

-----------------------------------------------------------------------------
(* The variable routing of il_addRoute is not initialised: parmNumbers and *)
(* parmNames are those of the call before, or any number and no names.     *)
Leftovers ==
  [parmNumbers : StackNumbers, parmNames : {<<>>}] \cup
  IF router = <<>> THEN {}
  ELSE {[parmNumbers |-> Last(router).parmNumbers, parmNames |-> Last(router).parmNames]}

(* Mutant: the list is pushed at its head. *)
il_addRouteInFront(c) ==
  LET parsed == parserRouting(c.routeReg) IN
  /\ Len(router) < MaxRoutes
  /\ router' = <<[servlet |-> c.servlet, routeId |-> IF c.parms >= 6 THEN c.routeId ELSE <<>>,
                  routeType |-> IF c.parms >= 3 THEN c.routeType ELSE IL_ANY,
                  routeReg |-> IF c.parms >= 4 THEN parsed.finalExpr ELSE NULL,
                  parmNumbers |-> Len(parsed.parmNames),
                  parmNames |-> parsed.parmNames]>> \o router
  /\ UNCHANGED routeVars

(* c.parms parameters are passed: the configuration, the servlet, the type *)
(* and the expression of the route, which *OMIT makes NULL, an expression  *)
(* for the content type, which nothing reads, and the id.                  *)
il_addRoute(c) ==
  LET given == c.parms >= 4 /\ c.routeReg # NULL
      parsed == parserRouting(c.routeReg)
  IN /\ Len(router) < MaxRoutes
     /\ \E names \in IF given THEN {[parmNumbers |-> Len(parsed.parmNames),
                                     parmNames |-> parsed.parmNames]}
                     ELSE Leftovers :
          router' = Append(router,
            [servlet |-> c.servlet,
             routeId |-> IF c.parms >= 6 THEN c.routeId ELSE <<>>,
             routeType |-> IF c.parms >= 3 THEN c.routeType ELSE IL_ANY,
             routeReg |-> IF given THEN parsed.finalExpr ELSE NULL,
             parmNumbers |-> names.parmNumbers,
             parmNames |-> names.parmNames])
     /\ UNCHANGED routeVars

Executed(r, resource) ==
  IF router[r].routeReg = NULL THEN [match |-> TRUE, groupArray |-> NULL]
  ELSE regexec(router[r].routeReg, resource)

Matching(method, resource) ==
  {r \in DOMAIN router : /\ httpMethodMatchesEndPoint(method, router[r].routeType)
                         /\ Executed(r, resource).match}

(* Mutant: all groups are kept, those of the program too. *)
findRouteAllGroups(method, resource) ==
  LET matching == Matching(method, resource) IN
  /\ pRouting' = IF matching = {} THEN 0 ELSE Min(matching)
  /\ parmValue' = IF matching = {} \/ router[Min(matching)].routeReg = NULL THEN <<>>
                  ELSE Executed(Min(matching), resource).groupArray

(* Mutant: the groups are counted from the expression itself. *)
findRouteFromGroupZero(method, resource) ==
  LET matching == Matching(method, resource) IN
  /\ pRouting' = IF matching = {} THEN 0 ELSE Min(matching)
  /\ parmValue' = IF matching = {} THEN <<>>
                  ELSE LET r == Min(matching) IN
                    SubSeq(<<resource>> \o Executed(r, resource).groupArray, 1,
                           IF router[r].routeReg = NULL THEN 0 ELSE router[r].parmNumbers)

(* How many values a route may get.                                        *)
ValuesOf(route) == {n \in 0..MaxParms : n = 0 \/ n <= route.parmNumbers}

(* The first route in the list that fits, and the values of its groups.    *)
(* Without a call of regexec groupArray is not initialised: a value is any *)
(* bytes, and one that looks like no group ends the loop.                  *)
findRoute(method, resource) ==
  LET matching == Matching(method, resource)
      first == Min(matching)
      groups == Executed(first, resource).groupArray
  IN IF matching = {}
     THEN pRouting' = 0 /\ parmValue' = <<>>
     ELSE /\ pRouting' = first
          /\ IF groups = NULL
             THEN \E n \in ValuesOf(router[first]) :
                    parmValue' = [g \in 1..n |-> <<"garbage">>]
             ELSE parmValue' = SubSeq(groups, 1, router[first].parmNumbers)

(* Such a number makes groupArray an array of no size, or one the stack    *)
(* has no room for, and a group of any bytes one the heap has none for: it *)
(* may be the end of the thread.                                           *)
findRouteDies(method, resource) ==
  LET matching == Matching(method, resource) IN
  /\ matching # {}
  /\ router[Min(matching)].routeReg = NULL /\ router[Min(matching)].parmNumbers # 0
  /\ UNCHANGED routeVars

(* il_getPathParameter: the name is looked for without regard to case, and *)
(* behind the names that were set in whatever lies there.                  *)
il_getPathParameter(parmName, dft) ==
  IF pRouting = 0 THEN dft
  ELSE LET route == router[pRouting]
           named == {i \in DOMAIN route.parmNames :
                       /\ i <= route.parmNumbers
                       /\ EqualIgnoringCase(route.parmNames[i], parmName)}
       IN IF named # {}
          THEN IF Min(named) \in DOMAIN parmValue THEN parmValue[Min(named)] ELSE <<>>
          ELSE IF route.parmNumbers > Len(route.parmNames) THEN Wild ELSE dft
=============================================================================
