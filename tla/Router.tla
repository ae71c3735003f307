------------------------------- MODULE Router -------------------------------
(***************************************************************************)
(* rest::Router: a table from path patterns to handlers, one per method,   *)
(* and Route, which walks the table in the order of a std::unordered_map.  *)
(* A path is a sequence of segments: a literal, a parameter {:name}, or a  *)
(* group, a capturing ([^/]+) somebody wrote into the path by hand.  A url *)
(* is a sequence of words and a query, a sequence of <<key, value>> pairs. *)
(* The table is filled before the server starts; Route only reads it.      *)
(***************************************************************************)
EXTENDS Naturals, SequencesExt

CONSTANTS
  Paths,     \* the patterns that may be registered
  Methods,   \* Request::Method
  Handlers,  \* handlers that may be registered
  Requests,  \* requests the properties quantify over
  MaxAdds    \* bound on the calls of AddRoute

ASSUME PathsAssumption == \A path \in Paths : path \in Seq(Range(path))
ASSUME RequestsAssumption ==
  \A req \in Requests : req.words \in Seq(STRING) /\ req.query \in Seq(STRING \X STRING)

VARIABLES
  m_routes,  \* path -> RouteInfo: method -> handler, and whether
             \* parameter_names has the names of the path's parameters
  order,     \* the order m_routes is iterated in
  added      \* the calls of AddRoute so far (history)

vars == <<m_routes, order, added>>

Init ==
  /\ m_routes = <<>>
  /\ order = <<>>
  /\ added = <<>>

(* map[key] = value, and that for all that another map holds; the provers  *)
(* know no :> and @@.                                                      *)
Put(map, key, value) ==
  [k \in DOMAIN map \cup {key} |-> IF k = key THEN value ELSE map[k]]
PutAll(map, other) ==
  [k \in DOMAIN map \cup DOMAIN other |-> IF k \in DOMAIN other THEN other[k] ELSE map[k]]

HasParams(path) == \E i \in DOMAIN path : path[i].kind = "param"

(* try_emplace(path): the entry there is, or an empty one. *)
Info(path) == IF path \in DOMAIN m_routes THEN m_routes[path]
              ELSE [named |-> ~HasParams(path), handlers |-> <<>>]

(* Inserting a path may rehash, which can put all of them in another order. *)
Emplace(path, info) ==
  /\ m_routes' = Put(m_routes, path, info)
  /\ IF path \in DOMAIN m_routes
     THEN UNCHANGED order
     ELSE order' \in SetToSeqs(DOMAIN m_routes \cup {path})

(* Mistake: a multimap, where a path may be listed twice. *)
AddRouteImpl_Multimap(path, method, handler) ==
  /\ m_routes' = Put(m_routes, path, [named |-> TRUE, handlers |-> Put(<<>>, method, handler)])
  /\ order' = Append(order, path)

(* parameter_names = ..., then handlers[method] = handler *)
AddRouteImpl(path, method, handler) ==
  Emplace(path, [named |-> TRUE, handlers |-> Put(Info(path).handlers, method, handler)])

(* Mistake: the entry is made anew before it is filled. *)
AddRouteThrows_Resets(path) ==
  /\ Len(added) < MaxAdds
  /\ Emplace(path, [named |-> ~HasParams(path), handlers |-> <<>>])
  /\ added' = Append(added, [path |-> path, done |-> FALSE])

(* std::bad_alloc after try_emplace: in copying the names to an entry that *)
(* had none, or in making room for the handler.  The entry stays.          *)
AddRouteThrows(path) ==
  /\ Len(added) < MaxAdds
  /\ \E named \in {Info(path).named, TRUE} :
       Emplace(path, [named |-> named, handlers |-> Info(path).handlers])
  /\ added' = Append(added, [path |-> path, done |-> FALSE])

AddRoute(path, method, handler) ==
  /\ Len(added) < MaxAdds
  /\ AddRouteImpl(path, method, handler)
  /\ added' = Append(added, [path |-> path, method |-> method,
                             handler |-> handler, done |-> TRUE])

Next ==
  \E p \in Paths :
    AddRouteThrows(p) \/ \E m \in Methods, h \in Handlers : AddRoute(p, m, h)

Spec == Init /\ [][Next]_vars

-----------------------------------------------------------------------------
(* A sequence of <<key, value>> pairs, and of nothing, <<>>, assigned to a *)
(* map one after the other: the last value of a key stays.                 *)
Assignments(pairs) == {i \in DOMAIN pairs : pairs[i] # <<>>}
AssignmentsTo(pairs, key) == {i \in Assignments(pairs) : pairs[i][1] = key}
Assigned(pairs) ==
  [key \in {pairs[i][1] : i \in Assignments(pairs)} |->
     pairs[Max(AssignmentsTo(pairs, key))][2]]

Empty == ""  \* has a name because the provers know no empty string

(* std::regex_match with every {:name} replaced by ([^/]+) *)
Matches(path, words) ==
  /\ Len(path) = Len(words)
  /\ \A i \in DOMAIN path :
       IF path[i].kind = "literal" THEN words[i] = path[i].text ELSE words[i] # Empty

(* <<name, value>> of every segment that is a parameter, in order *)
PathParams(path, words) ==
  [i \in DOMAIN path |->
     IF path[i].kind = "param" THEN <<path[i].name, words[i]>> ELSE <<>>]

HasGroup(path) == \E i \in DOMAIN path : path[i].kind = "group"

(* match.size() = parameter_names.size() + 1 *)
NamesFit(path) == m_routes[path].named /\ ~HasGroup(path)

Status(s) == [status |-> s]

(* Mistake: the query overrides the path. *)
Dispatch_QueryWins(path, req) ==
  CASE ~NamesFit(path) -> Status("InternalServerError")
    [] NamesFit(path) /\ req.method \notin DOMAIN m_routes[path].handlers ->
         Status("MethodNotAllowed")
    [] OTHER ->
         [handler |-> m_routes[path].handlers[req.method],
          params  |-> PutAll(Assigned(PathParams(path, req.words)), Assigned(req.query))]

(* The rest of the loop body, once a pattern matched. *)
Dispatch(path, req) ==
  CASE ~NamesFit(path) -> Status("InternalServerError")
    [] NamesFit(path) /\ req.method \notin DOMAIN m_routes[path].handlers ->
         Status("MethodNotAllowed")
    [] OTHER ->
         [handler |-> m_routes[path].handlers[req.method],
          params  |-> PutAll(Assigned(req.query), Assigned(PathParams(path, req.words)))]

(* Mistake: no continue after a pattern that does not match. *)
Route_NoContinue(req) ==
  IF order = <<>> THEN Status("NotFound")
  ELSE IF ~Matches(Head(order), req.words) THEN Status("NotFound")
  ELSE Dispatch(Head(order), req)

(* The first pattern of the iteration that matches, if any. *)
Hits(words) == {i \in DOMAIN order : Matches(order[i], words)}
Route(req) ==
  IF Hits(req.words) = {} THEN Status("NotFound")
  ELSE Dispatch(order[Min(Hits(req.words))], req)

-----------------------------------------------------------------------------
TypeOK ==
  /\ DOMAIN m_routes \subseteq Paths
  /\ \A p \in DOMAIN m_routes :
       /\ m_routes[p].named \in BOOLEAN
       /\ DOMAIN m_routes[p].handlers \subseteq Methods
       /\ Range(m_routes[p].handlers) \subseteq Handlers
  /\ order \in SetToSeqs(DOMAIN m_routes)

Handles(answer) == DOMAIN answer = {"handler", "params"}

(* Calls of AddRoute for a path, those that did not throw, and of those    *)
(* the ones for a method.                                                  *)
TriedFor(path) == {i \in DOMAIN added : added[i].path = path}
AddedFor(path) == {i \in TriedFor(path) : added[i].done}
AddedAt(path, method) == {i \in AddedFor(path) : added[i].method = method}

(* What a request may be answered if it is the path's to answer, told from *)
(* the calls of AddRoute alone: the handler is the last one registered.    *)
Answers(path, req, answer) ==
  IF Handles(answer)
  THEN \E i \in AddedAt(path, req.method) :
         /\ \A j \in AddedAt(path, req.method) : j <= i
         /\ answer.handler = added[i].handler
  ELSE IF answer = Status("MethodNotAllowed")
  THEN AddedAt(path, req.method) = {}
  ELSE /\ answer = Status("InternalServerError")
       /\ HasGroup(path) \/ AddedFor(path) = {}

(* Whatever was registered, in whatever order, whichever registrations     *)
(* threw, and however the table was rehashed: a request is answered by one *)
(* of the paths it matches, with the handler last registered there for its *)
(* method; NotFound is said only if it matches none; and a registration    *)
(* that throws takes no handler away from its path.                        *)
RouteFollowsRegistrations ==
  \A req \in Requests :
    LET Fits == {p \in Paths : TriedFor(p) # {} /\ Matches(p, req.words)}
        answer == Route(req)
    IN  IF answer = Status("NotFound") THEN Fits = {}
        ELSE \E p \in Fits : Answers(p, req, answer)

(* A handler finds a path parameter with the word the url has in its       *)
(* place, though the query uses the same key, and a query key that is no   *)
(* path parameter with the value the query gave it last.                   *)
PathParamsWin ==
  \A req \in Requests : LET answer == Route(req) IN
    Handles(answer) =>
      \E p \in DOMAIN m_routes :
        LET Named(k) == {i \in DOMAIN p : p[i].kind = "param" /\ p[i].name = k}
            Asked(k) == {i \in DOMAIN req.query : req.query[i][1] = k}
        IN  /\ Matches(p, req.words)
            /\ \A i \in DOMAIN p : p[i].kind = "param" => p[i].name \in DOMAIN answer.params
            /\ \A k \in DOMAIN answer.params :
                 IF Named(k) # {}
                 THEN answer.params[k] = req.words[Max(Named(k))]
                 ELSE Asked(k) # {} /\ answer.params[k] = req.query[Max(Asked(k))][2]

(* A route added for another path does not change the answer to a request  *)
(* that matches at most one path, though it may reorder the whole table.   *)
UnrelatedRoutesDoNotInterfere ==
  [][\A req \in Requests :
       LET Fits == {p \in DOMAIN m_routes' : Matches(p, req.words)}
       IN  (\A p, q \in Fits : p = q) /\ added'[Len(added')].path \notin Fits
             => Route(req)' = Route(req)]_vars

(* The inductive invariant behind all of these: what the table holds under *)
(* a path is what the calls of AddRoute for that path have left there.     *)
RouteCalls == [path : Paths, method : Methods, handler : Handlers, done : {TRUE}]
                \cup [path : Paths, done : {FALSE}]
TableInv ==
  /\ IsFiniteSet(DOMAIN m_routes)
  /\ added \in Seq(RouteCalls)
  /\ DOMAIN m_routes = {p \in Paths : TriedFor(p) # {}}
  /\ \A p \in DOMAIN m_routes :
       /\ AddedFor(p) # {} => m_routes[p].named
       /\ DOMAIN m_routes[p].handlers = {m \in Methods : AddedAt(p, m) # {}}
       /\ \A m \in DOMAIN m_routes[p].handlers : \E i \in AddedAt(p, m) :
            /\ \A j \in AddedAt(p, m) : j <= i
            /\ m_routes[p].handlers[m] = added[i].handler

IInv == TypeOK /\ TableInv

(* rest_router.hpp says Route returns the response of the matching         *)
(* handler.  When two paths match and only one has the method, it depends  *)
(* on the order of the table whether its handler runs, though no           *)
(* registration threw.                                                     *)
MatchingHandlerAnswers ==
  \A req \in Requests :
    /\ \A i \in DOMAIN added : added[i].done
    /\ \E p \in DOMAIN m_routes :
         Matches(p, req.words) /\ NamesFit(p) /\ req.method \in DOMAIN m_routes[p].handlers
    => Handles(Route(req))
=============================================================================
