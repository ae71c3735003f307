---------------------------- MODULE RouterProofs ----------------------------
(* Theorems about Router, for any paths, methods, handlers and requests.   *)
EXTENDS RouterTest, FiniteSetTheorems, TLAPS

-----------------------------------------------------------------------------
(* The operators of the model.                                             *)

(* A set of naturals that is not empty has a least element ... *)
LEMMA LeastElement ==
  ASSUME NEW T, T \subseteq Nat, T # {}
  PROVE  Min(T) \in T /\ \A n \in T : Min(T) <= n
<1>1. PICK m \in T : \A n \in T : ~(<<n, m>> \in OpToRel(<, Nat))
  BY NatLessThanWellFounded, WFMin
<1>2. \A n \in T : ~(n < m)
  BY <1>1 DEF OpToRel
<1>3. \E x \in T : \A y \in T : x <= y
  BY <1>2
<1> QED BY <1>3 DEF Min

(* ... and, if it has a bound, a greatest one. *)
LEMMA GreatestElement ==
  ASSUME NEW bound \in Nat, NEW T, T \subseteq 0..bound, T # {}
  PROVE  Max(T) \in T /\ \A n \in T : n <= Max(T)
<1> DEFINE Gaps == {bound - n : n \in T}
<1>1. Gaps \subseteq Nat /\ Gaps # {}
  <2>1. \A n \in T : bound - n \in Nat
    OBVIOUS
  <2> QED BY <2>1
<1>2. PICK g \in Gaps : \A h \in Gaps : g <= h
  BY <1>1, LeastElement
<1>3. PICK m \in T : g = bound - m
  BY <1>2
<1>4. \A n \in T : n <= m
  BY <1>2, <1>3
<1> QED BY <1>4 DEF Max

(* An order of a finite set lists every element, and no other. *)
LEMMA OrdersListAll ==
  ASSUME NEW S, IsFiniteSet(S), NEW f \in SetToSeqs(S)
  PROVE  /\ DOMAIN f = 1..Cardinality(S) /\ Cardinality(S) \in Nat
         /\ \A x \in S : \E i \in DOMAIN f : f[i] = x
         /\ \A i \in DOMAIN f : f[i] \in S
<1> DEFINE D == 1..Cardinality(S)
<1>1. Cardinality(S) \in Nat
  BY FS_CardinalityType
<1>2. f \in Injection(D, S)
  BY DEF SetToSeqs, Injection, IsInjective
<1>3. IsFiniteSet(D) /\ Cardinality(D) = Cardinality(S)
  BY <1>1, FS_Interval
<1>4. f \in Surjection(D, S)
  BY <1>2, <1>3, FS_Injection
<1> QED BY <1>1, <1>4 DEF Surjection

-----------------------------------------------------------------------------
(* The table and the calls that filled it.                                 *)

LEMMA InitIInv == Init => IInv
<1> SUFFICES ASSUME Init PROVE IInv
  OBVIOUS
<1>1. DOMAIN m_routes = {} /\ DOMAIN added = {} /\ added \in Seq(RouteCalls)
  BY DEF Init
<1>2. IsFiniteSet({}) /\ Cardinality({}) = 0
  BY FS_EmptySet
<1>3. order \in SetToSeqs(DOMAIN m_routes)
  BY <1>1, <1>2 DEF SetToSeqs, Init
<1> QED BY <1>1, <1>2, <1>3 DEF IInv, TypeOK, TableInv, TriedFor

LEMMA OneMoreCall ==
  ASSUME added \in Seq(RouteCalls), NEW c \in RouteCalls, added' = Append(added, c)
  PROVE  /\ added' \in Seq(RouteCalls) /\ Len(added) \in Nat
         /\ DOMAIN added = 1..Len(added) /\ DOMAIN added' = 1..(Len(added) + 1)
         /\ added'[Len(added) + 1] = c
         /\ \A i \in DOMAIN added : added'[i] = added[i]
OBVIOUS

(* The entry of one path is replaced, or made; the others stay. *)
LEMMA EmplaceKeepsTypes ==
  ASSUME TypeOK, IsFiniteSet(DOMAIN m_routes), NEW path \in Paths,
         DOMAIN m_routes' = DOMAIN m_routes \cup {path},
         \A q \in DOMAIN m_routes : q # path => m_routes'[q] = m_routes[q],
         m_routes'[path].named \in BOOLEAN,
         DOMAIN m_routes'[path].handlers \subseteq Methods,
         \A m \in DOMAIN m_routes'[path].handlers : m_routes'[path].handlers[m] \in Handlers,
         path \in DOMAIN m_routes => order' = order,
         path \notin DOMAIN m_routes => order' \in SetToSeqs(DOMAIN m_routes \cup {path})
  PROVE  TypeOK' /\ IsFiniteSet(DOMAIN m_routes')
<1>1. IsFiniteSet(DOMAIN m_routes')
  BY FS_AddElement
<1>2. order' \in SetToSeqs(DOMAIN m_routes')
  <2>1. CASE path \in DOMAIN m_routes
    <3>1. DOMAIN m_routes' = DOMAIN m_routes
      BY <2>1
    <3> QED BY <2>1, <3>1 DEF TypeOK
  <2>2. CASE path \notin DOMAIN m_routes
    BY <2>2
  <2> QED BY <2>1, <2>2
<1>3. Range(m_routes'[path].handlers) \subseteq Handlers
  BY DEF Range
<1>4. TypeOK'
  BY <1>2, <1>3 DEF TypeOK
<1> QED BY <1>1, <1>4

LEMMA NextIInv == IInv /\ [Next]_vars => IInv'
<1> SUFFICES ASSUME IInv, [Next]_vars PROVE IInv'
  OBVIOUS
<1>0. TypeOK /\ TableInv /\ IsFiniteSet(DOMAIN m_routes) /\ added \in Seq(RouteCalls)
  BY DEF IInv, TableInv
<1>1. ASSUME NEW path \in Paths
      PROVE  /\ Info(path).named \in BOOLEAN
             /\ DOMAIN Info(path).handlers \subseteq Methods
             /\ \A m \in DOMAIN Info(path).handlers : Info(path).handlers[m] \in Handlers
             /\ path \notin DOMAIN m_routes => DOMAIN Info(path).handlers = {}
             /\ path \in DOMAIN m_routes => Info(path) = m_routes[path]
  <2>1. CASE path \in DOMAIN m_routes
    BY <1>0, <2>1 DEF Info, TypeOK, Range
  <2>2. CASE path \notin DOMAIN m_routes
    BY <2>2 DEF Info, HasParams
  <2> QED BY <2>1, <2>2
<1>2. ASSUME NEW path \in Paths, NEW method \in Methods, NEW handler \in Handlers,
             AddRoute(path, method, handler)
      PROVE  IInv'
  <2> DEFINE c == [path |-> path, method |-> method, handler |-> handler, done |-> TRUE]
             handlers == Put(Info(path).handlers, method, handler)
             n == Len(added) + 1
  <2>1. c \in RouteCalls /\ added' = Append(added, c)
    BY <1>2 DEF AddRoute, RouteCalls
  <2>2. /\ DOMAIN handlers = DOMAIN Info(path).handlers \cup {method}
        /\ handlers[method] = handler
        /\ \A m \in DOMAIN Info(path).handlers : m # method => handlers[m] = Info(path).handlers[m]
    BY DEF Put
  <2>3. Emplace(path, [named |-> TRUE, handlers |-> handlers])
    BY <1>2 DEF AddRoute, AddRouteImpl
  <2> HIDE DEF handlers
  <2>4. /\ TypeOK' /\ IsFiniteSet(DOMAIN m_routes')
        /\ DOMAIN m_routes' = DOMAIN m_routes \cup {path}
        /\ m_routes'[path] = [named |-> TRUE, handlers |-> handlers]
        /\ \A q \in DOMAIN m_routes : q # path => m_routes'[q] = m_routes[q]
    <3>1. DOMAIN handlers \subseteq Methods /\ \A m \in DOMAIN handlers : handlers[m] \in Handlers
      BY <1>1, <2>2
    <3> DEFINE info == [named |-> TRUE, handlers |-> handlers]
    <3>2. /\ DOMAIN m_routes' = DOMAIN m_routes \cup {path}
          /\ m_routes'[path] = info
          /\ \A q \in DOMAIN m_routes : q # path => m_routes'[q] = m_routes[q]
      BY <2>3 DEF Emplace, Put
    <3>3. /\ path \in DOMAIN m_routes => order' = order
          /\ path \notin DOMAIN m_routes => order' \in SetToSeqs(DOMAIN m_routes \cup {path})
      BY <2>3 DEF Emplace
    <3>4. m_routes'[path].named \in BOOLEAN /\ m_routes'[path].handlers = handlers
      BY <3>2
    <3> QED BY <1>0, <3>1, <3>2, <3>3, <3>4, EmplaceKeepsTypes
  <2>5. /\ added' \in Seq(RouteCalls) /\ Len(added) \in Nat
        /\ DOMAIN added = 1..(n - 1) /\ DOMAIN added' = 1..n
        /\ added'[n] = c /\ \A i \in 1..(n - 1) : added'[i] = added[i]
    BY <1>0, <2>1, OneMoreCall
  <2>6. c.path = path /\ c.method = method /\ c.handler = handler /\ c.done = TRUE
    OBVIOUS
  <2> HIDE DEF c
  <2>7. \A p : TriedFor(p)' # {} <=> TriedFor(p) # {} \/ p = path
    BY <2>5, <2>6 DEF TriedFor
  <2>8. ASSUME NEW p \in DOMAIN m_routes'
        PROVE  /\ AddedFor(p)' # {} => m_routes'[p].named
               /\ DOMAIN m_routes'[p].handlers = {m \in Methods : AddedAt(p, m)' # {}}
               /\ \A m \in DOMAIN m_routes'[p].handlers : \E i \in AddedAt(p, m)' :
                    /\ \A j \in AddedAt(p, m)' : j <= i
                    /\ m_routes'[p].handlers[m] = added'[i].handler
    <3>1. CASE p # path
      <4>1. p \in DOMAIN m_routes /\ m_routes'[p] = m_routes[p]
        BY <2>4, <3>1
      <4>2. AddedFor(p)' = AddedFor(p)
        BY <2>5, <2>6, <3>1 DEF AddedFor, TriedFor
      <4>3. ASSUME NEW m PROVE AddedAt(p, m)' = AddedAt(p, m)
        BY <2>5, <2>6, <3>1 DEF AddedAt, AddedFor, TriedFor
      <4>4. ASSUME NEW m, NEW i \in AddedAt(p, m) PROVE added'[i] = added[i]
        BY <2>5 DEF AddedAt, AddedFor, TriedFor
      <4>5. DOMAIN m_routes'[p].handlers = {m \in Methods : AddedAt(p, m)' # {}}
        BY <1>0, <4>1, <4>3 DEF TableInv
      <4>6. ASSUME NEW m \in DOMAIN m_routes'[p].handlers
            PROVE  \E i \in AddedAt(p, m)' :
                    /\ \A j \in AddedAt(p, m)' : j <= i
                    /\ m_routes'[p].handlers[m] = added'[i].handler
        <5>1. PICK i \in AddedAt(p, m) : /\ \A j \in AddedAt(p, m) : j <= i
                                         /\ m_routes[p].handlers[m] = added[i].handler
          BY <1>0, <4>1 DEF TableInv
        <5> QED BY <5>1, <4>1, <4>3, <4>4
      <4> QED BY <1>0, <4>1, <4>2, <4>5, <4>6 DEF TableInv
    <3>2. CASE p = path
      <4>1. m_routes'[p].named /\ m_routes'[p].handlers = handlers
        BY <2>4, <3>2
      <4>2. ASSUME NEW m PROVE AddedAt(p, m)' = AddedAt(p, m) \cup IF m = method THEN {n} ELSE {}
        BY <2>5, <2>6, <3>2 DEF AddedAt, AddedFor, TriedFor
      <4>3. ASSUME NEW m \in Methods PROVE m \in DOMAIN Info(path).handlers <=> AddedAt(p, m) # {}
        <5>1. CASE path \in DOMAIN m_routes
          BY <1>0, <1>1, <3>2, <5>1 DEF TableInv
        <5>2. CASE path \notin DOMAIN m_routes
          <6>1. TriedFor(p) = {}
            BY <1>0, <3>2, <5>2 DEF TableInv
          <6> QED BY <1>1, <5>2, <6>1 DEF AddedAt, AddedFor
        <5> QED BY <5>1, <5>2
      <4>4. DOMAIN handlers = {m \in Methods : AddedAt(p, m)' # {}}
        <5>1. ASSUME NEW m \in Methods PROVE m \in DOMAIN handlers <=> AddedAt(p, m)' # {}
          BY <2>2, <4>2, <4>3
        <5> QED BY <1>1, <2>2, <5>1
      <4>5. ASSUME NEW m \in DOMAIN handlers
            PROVE  \E i \in AddedAt(p, m)' :
                    /\ \A j \in AddedAt(p, m)' : j <= i
                    /\ handlers[m] = added'[i].handler
        <5>1. AddedAt(p, m) \subseteq 1..(n - 1)
          BY <2>5 DEF AddedAt, AddedFor, TriedFor
        <5>2. CASE m = method
          BY <2>2, <2>5, <2>6, <4>2, <5>1, <5>2
        <5>3. CASE m # method
          <6>1. m \in DOMAIN Info(path).handlers /\ handlers[m] = Info(path).handlers[m]
            BY <2>2, <5>3
          <6>2. path \in DOMAIN m_routes /\ Info(path) = m_routes[path]
            BY <1>1, <6>1
          <6>3. PICK i \in AddedAt(p, m) : /\ \A j \in AddedAt(p, m) : j <= i
                                           /\ m_routes[p].handlers[m] = added[i].handler
            BY <1>0, <3>2, <6>1, <6>2 DEF TableInv
          <6> QED BY <2>5, <3>2, <4>2, <5>1, <5>3, <6>1, <6>2, <6>3
        <5> QED BY <5>2, <5>3
      <4> QED BY <4>1, <4>4, <4>5
    <3> QED BY <3>1, <3>2
  <2>9. DOMAIN m_routes' = {p \in Paths : TriedFor(p)' # {}}
    <3>1. \A p \in Paths : p \in DOMAIN m_routes' <=> TriedFor(p)' # {}
      BY <1>0, <2>4, <2>7 DEF TableInv
    <3> QED BY <2>4, <3>1 DEF TypeOK
  <2> QED BY <2>4, <2>5, <2>8, <2>9 DEF IInv, TableInv
<1>3. ASSUME NEW path \in Paths, AddRouteThrows(path) PROVE IInv'
  <2> DEFINE c == [path |-> path, done |-> FALSE]
             handlers == Info(path).handlers
             n == Len(added) + 1
  <2>1. c \in RouteCalls /\ added' = Append(added, c)
    BY <1>3 DEF AddRouteThrows, RouteCalls
  <2>2. PICK has \in {Info(path).named, TRUE} : Emplace(path, [named |-> has, handlers |-> handlers])
    BY <1>3 DEF AddRouteThrows
  <2> HIDE DEF handlers
  <2>3. has \in BOOLEAN
    BY <1>1
  <2>4. /\ TypeOK' /\ IsFiniteSet(DOMAIN m_routes')
        /\ DOMAIN m_routes' = DOMAIN m_routes \cup {path}
        /\ m_routes'[path] = [named |-> has, handlers |-> handlers]
        /\ \A q \in DOMAIN m_routes : q # path => m_routes'[q] = m_routes[q]
    <3>1. DOMAIN handlers \subseteq Methods /\ \A m \in DOMAIN handlers : handlers[m] \in Handlers
      BY <1>1 DEF handlers
    <3> DEFINE info == [named |-> has, handlers |-> handlers]
    <3>2. /\ DOMAIN m_routes' = DOMAIN m_routes \cup {path}
          /\ m_routes'[path] = info
          /\ \A q \in DOMAIN m_routes : q # path => m_routes'[q] = m_routes[q]
      BY <2>2 DEF Emplace, Put
    <3>3. /\ path \in DOMAIN m_routes => order' = order
          /\ path \notin DOMAIN m_routes => order' \in SetToSeqs(DOMAIN m_routes \cup {path})
      BY <2>2 DEF Emplace
    <3>4. m_routes'[path].named \in BOOLEAN /\ m_routes'[path].handlers = handlers
      BY <2>3, <3>2
    <3> QED BY <1>0, <3>1, <3>2, <3>3, <3>4, EmplaceKeepsTypes
  <2>5. /\ added' \in Seq(RouteCalls) /\ Len(added) \in Nat
        /\ DOMAIN added = 1..(n - 1) /\ DOMAIN added' = 1..n
        /\ added'[n] = c /\ \A i \in 1..(n - 1) : added'[i] = added[i]
    BY <1>0, <2>1, OneMoreCall
  <2>6. c.path = path /\ c.done = FALSE
    OBVIOUS
  <2> HIDE DEF c
  <2>7. \A p : TriedFor(p)' # {} <=> TriedFor(p) # {} \/ p = path
    BY <2>5, <2>6 DEF TriedFor
  <2>8. ASSUME NEW p, NEW m PROVE AddedFor(p)' = AddedFor(p) /\ AddedAt(p, m)' = AddedAt(p, m)
    BY <2>5, <2>6 DEF AddedFor, AddedAt, TriedFor
  <2>9. ASSUME NEW p, NEW m, NEW i \in AddedAt(p, m) PROVE added'[i] = added[i]
    BY <2>5 DEF AddedAt, AddedFor, TriedFor
  <2>10. ASSUME NEW p \in DOMAIN m_routes'
         PROVE  /\ AddedFor(p)' # {} => m_routes'[p].named
                /\ DOMAIN m_routes'[p].handlers = {m \in Methods : AddedAt(p, m)' # {}}
                /\ \A m \in DOMAIN m_routes'[p].handlers : \E i \in AddedAt(p, m)' :
                     /\ \A j \in AddedAt(p, m)' : j <= i
                     /\ m_routes'[p].handlers[m] = added'[i].handler
    <3>1. CASE p \in DOMAIN m_routes
      <4>1. m_routes'[p].handlers = m_routes[p].handlers /\ (m_routes[p].named => m_routes'[p].named)
        <5>1. CASE p = path
          <6>1. Info(path) = m_routes[p] /\ m_routes'[p] = [named |-> has, handlers |-> handlers]
            BY <1>1, <2>4, <3>1, <5>1
          <6>2. CASE has = TRUE
            BY <6>1, <6>2 DEF handlers
          <6>3. CASE has = Info(path).named
            BY <6>1, <6>3 DEF handlers
          <6> QED BY <2>2, <6>2, <6>3
        <5>2. CASE p # path
          BY <2>4, <3>1, <5>2
        <5> QED BY <5>1, <5>2
      <4>2. DOMAIN m_routes'[p].handlers = {m \in Methods : AddedAt(p, m)' # {}}
        BY <1>0, <2>8, <3>1, <4>1 DEF TableInv
      <4>3. ASSUME NEW m \in DOMAIN m_routes'[p].handlers
            PROVE  \E i \in AddedAt(p, m)' :
                     /\ \A j \in AddedAt(p, m)' : j <= i
                     /\ m_routes'[p].handlers[m] = added'[i].handler
        <5>1. PICK i \in AddedAt(p, m) : /\ \A j \in AddedAt(p, m) : j <= i
                                         /\ m_routes[p].handlers[m] = added[i].handler
          BY <1>0, <3>1, <4>1 DEF TableInv
        <5> QED BY <5>1, <4>1, <2>8, <2>9
      <4> QED BY <1>0, <2>8, <3>1, <4>1, <4>2, <4>3 DEF TableInv
    <3>2. CASE p \notin DOMAIN m_routes
      <4>1. p = path /\ m_routes'[p].handlers = handlers /\ DOMAIN handlers = {}
        BY <1>1, <2>4, <3>2 DEF handlers
      <4>2. TriedFor(p) = {}
        BY <1>0, <3>2, <4>1 DEF TableInv
      <4>3. ASSUME NEW m PROVE AddedFor(p)' = {} /\ AddedAt(p, m)' = {}
        BY <2>8, <4>2 DEF AddedAt, AddedFor
      <4> QED BY <4>1, <4>3
    <3> QED BY <3>1, <3>2
  <2>11. DOMAIN m_routes' = {p \in Paths : TriedFor(p)' # {}}
    <3>1. \A p \in Paths : p \in DOMAIN m_routes' <=> TriedFor(p)' # {}
      BY <1>0, <2>4, <2>7 DEF TableInv
    <3> QED BY <2>4, <3>1 DEF TypeOK
  <2> QED BY <2>4, <2>5, <2>10, <2>11 DEF IInv, TableInv
<1>4. CASE UNCHANGED vars
  BY <1>0, <1>4 DEF vars, IInv, TypeOK, TableInv, TriedFor, AddedFor, AddedAt
<1> QED BY <1>2, <1>3, <1>4 DEF Next
(* What the table holds under a path is what the calls of AddRoute for it, *)
(* those that threw included, have left there.                             *)
THEOREM Invariance == Spec => []IInv
BY InitIInv, NextIInv, PTL DEF Spec

-----------------------------------------------------------------------------
(* Route.                                                                  *)

(* It answers NotFound if the request matches no path of the table, and is *)
(* otherwise at the mercy of one path that it matches.                     *)
LEMMA RouteDispatches ==
  ASSUME TypeOK, IsFiniteSet(DOMAIN m_routes), NEW req
  PROVE  \/ /\ Route(req) = Status("NotFound")
            /\ \A p \in DOMAIN m_routes : ~Matches(p, req.words)
         \/ \E p \in DOMAIN m_routes :
              Matches(p, req.words) /\ Route(req) = Dispatch(p, req)
<1>1. /\ DOMAIN order = 1..Cardinality(DOMAIN m_routes) /\ Cardinality(DOMAIN m_routes) \in Nat
      /\ \A p \in DOMAIN m_routes : \E i \in DOMAIN order : order[i] = p
      /\ \A i \in DOMAIN order : order[i] \in DOMAIN m_routes
  BY OrdersListAll DEF TypeOK
<1>2. CASE Hits(req.words) = {}
  BY <1>1, <1>2 DEF Hits, Route
<1>3. CASE Hits(req.words) # {}
  <2>1. Hits(req.words) \subseteq Nat
    BY <1>1 DEF Hits
  <2>2. Min(Hits(req.words)) \in Hits(req.words)
    BY <1>3, <2>1, LeastElement
  <2> QED BY <1>1, <1>3, <2>2 DEF Hits, Route
<1> QED BY <1>2, <1>3

(* The three answers of a path that matches. *)
LEMMA DispatchAnswers ==
  ASSUME NEW p, NEW req
  PROVE  \/ ~NamesFit(p) /\ Dispatch(p, req) = Status("InternalServerError")
         \/ /\ NamesFit(p) /\ req.method \notin DOMAIN m_routes[p].handlers
            /\ Dispatch(p, req) = Status("MethodNotAllowed")
         \/ /\ NamesFit(p) /\ req.method \in DOMAIN m_routes[p].handlers
            /\ Dispatch(p, req) =
                 [handler |-> m_routes[p].handlers[req.method],
                  params  |-> PutAll(Assigned(req.query), Assigned(PathParams(p, req.words)))]
BY DEF Dispatch

LEMMA AnswersDiffer ==
  /\ Status("NotFound") # Status("MethodNotAllowed")
  /\ Status("NotFound") # Status("InternalServerError")
  /\ Status("MethodNotAllowed") # Status("InternalServerError")
  /\ \A s : ~Handles(Status(s))
  /\ \A h, params : Handles([handler |-> h, params |-> params])
  /\ \A h, params, s : [handler |-> h, params |-> params] # Status(s)
BY DEF Status, Handles

(* A request is answered by a path it matches, with the handler registered *)
(* there last, and NotFound only if there is no such path: whatever the    *)
(* order of the table and whichever registrations threw.                   *)
THEOREM RoutesAsRegistered == Spec => []RouteFollowsRegistrations
<1>1. IInv => RouteFollowsRegistrations
  <2> SUFFICES ASSUME IInv, NEW req \in Requests
               PROVE  LET Fits == {p \in Paths : TriedFor(p) # {} /\ Matches(p, req.words)}
                      IN  IF Route(req) = Status("NotFound") THEN Fits = {}
                          ELSE \E p \in Fits : Answers(p, req, Route(req))
    BY DEF RouteFollowsRegistrations
  <2> DEFINE Fits == {p \in Paths : TriedFor(p) # {} /\ Matches(p, req.words)}
  <2>1. Fits = {p \in DOMAIN m_routes : Matches(p, req.words)}
    BY DEF IInv, TableInv
  <2>2. CASE /\ Route(req) = Status("NotFound")
             /\ \A p \in DOMAIN m_routes : ~Matches(p, req.words)
    BY <2>1, <2>2
  <2>3. ASSUME NEW p \in DOMAIN m_routes, Matches(p, req.words), Route(req) = Dispatch(p, req)
        PROVE  p \in Fits /\ Route(req) # Status("NotFound") /\ Answers(p, req, Route(req))
    <3>1. CASE ~NamesFit(p) /\ Route(req) = Status("InternalServerError")
      <4>1. HasGroup(p) \/ AddedFor(p) = {}
        BY <3>1 DEF NamesFit, IInv, TableInv
      <4> QED BY <2>1, <2>3, <3>1, <4>1, AnswersDiffer DEF Answers
    <3>2. CASE /\ req.method \notin DOMAIN m_routes[p].handlers
               /\ Route(req) = Status("MethodNotAllowed")
      <4>1. AddedAt(p, req.method) = {}
        <5>1. AddedAt(p, req.method) # {} => req.method \in Methods
          <6> SUFFICES ASSUME NEW i \in AddedAt(p, req.method) PROVE req.method \in Methods
            OBVIOUS
          <6>1. added[i] \in RouteCalls /\ added[i].done /\ added[i].method = req.method
            BY DEF IInv, TableInv, AddedAt, AddedFor, TriedFor
          <6> QED BY <6>1 DEF RouteCalls
        <5> QED BY <3>2, <5>1 DEF IInv, TableInv
      <4> QED BY <2>1, <2>3, <3>2, <4>1, AnswersDiffer DEF Answers
    <3>3. ASSUME req.method \in DOMAIN m_routes[p].handlers,
                 NEW params,
                 Route(req) = [handler |-> m_routes[p].handlers[req.method], params |-> params]
          PROVE  p \in Fits /\ Route(req) # Status("NotFound") /\ Answers(p, req, Route(req))
      <4>1. PICK i \in AddedAt(p, req.method) :
              /\ \A j \in AddedAt(p, req.method) : j <= i
              /\ m_routes[p].handlers[req.method] = added[i].handler
        BY <3>3 DEF IInv, TableInv
      <4>2. Route(req).handler = added[i].handler
        BY <3>3, <4>1
      <4> QED BY <2>1, <2>3, <3>3, <4>1, <4>2, AnswersDiffer DEF Answers
    <3> QED BY <2>3, <3>1, <3>2, <3>3, DispatchAnswers
  <2> QED BY <2>2, <2>3, RouteDispatches DEF IInv, TableInv
<1> QED BY <1>1, Invariance, PTL
LEMMA PairsAreNotBlank == ASSUME NEW pair \in STRING \X STRING PROVE pair # <<>>
OBVIOUS

(* A map filled from a sequence has, for every key it was given, the value *)
(* it was given last.                                                      *)
LEMMA AssignedLast ==
  ASSUME NEW n \in Nat, NEW pairs, DOMAIN pairs = 1..n, NEW key
  PROVE  /\ key \in DOMAIN Assigned(pairs) <=> AssignmentsTo(pairs, key) # {}
         /\ key \in DOMAIN Assigned(pairs) =>
              /\ Max(AssignmentsTo(pairs, key)) \in AssignmentsTo(pairs, key)
              /\ Assigned(pairs)[key] = pairs[Max(AssignmentsTo(pairs, key))][2]
<1>1. AssignmentsTo(pairs, key) \subseteq 0..n
  BY DEF AssignmentsTo, Assignments
<1>2. key \in DOMAIN Assigned(pairs) <=> AssignmentsTo(pairs, key) # {}
  BY DEF Assigned, AssignmentsTo
<1>3. key \in DOMAIN Assigned(pairs) =>
        Assigned(pairs)[key] = pairs[Max(AssignmentsTo(pairs, key))][2]
  BY DEF Assigned
<1> QED BY <1>1, <1>2, <1>3, GreatestElement

(* A handler is given the words of the url under the names of the path,    *)
(* and of the query what it says last under any other name.                *)
THEOREM PathBeforeQuery == Spec => []PathParamsWin
<1>1. IInv => PathParamsWin
  <2> SUFFICES ASSUME IInv, NEW req \in Requests, Handles(Route(req))
               PROVE  \E p \in DOMAIN m_routes :
        LET Named(k) == {i \in DOMAIN p : p[i].kind = "param" /\ p[i].name = k}
            Asked(k) == {i \in DOMAIN req.query : req.query[i][1] = k}
            params == Route(req).params
        IN  /\ Matches(p, req.words)
            /\ \A i \in DOMAIN p : p[i].kind = "param" => p[i].name \in DOMAIN params
            /\ \A k \in DOMAIN params :
                 IF Named(k) # {}
                 THEN params[k] = req.words[Max(Named(k))]
                 ELSE Asked(k) # {} /\ params[k] = req.query[Max(Asked(k))][2]
    BY DEF PathParamsWin
  <2>1. PICK p \in DOMAIN m_routes : Matches(p, req.words) /\ Route(req) = Dispatch(p, req)
    BY RouteDispatches, AnswersDiffer DEF IInv, TableInv
  <2> DEFINE Named(k) == {i \in DOMAIN p : p[i].kind = "param" /\ p[i].name = k}
             Asked(k) == {i \in DOMAIN req.query : req.query[i][1] = k}
             inPath == PathParams(p, req.words)
             params == Route(req).params
  <2>2. params = PutAll(Assigned(req.query), Assigned(inPath))
    BY <2>1, DispatchAnswers, AnswersDiffer
  <2>3. Len(p) \in Nat /\ DOMAIN p = 1..Len(p) /\ DOMAIN inPath = 1..Len(p)
    BY PathsAssumption DEF IInv, TypeOK, PathParams
  <2>4. /\ Len(req.query) \in Nat /\ DOMAIN req.query = 1..Len(req.query)
        /\ \A i \in DOMAIN req.query : req.query[i] \in STRING \X STRING
    BY RequestsAssumption
  <2>5. \A k : AssignmentsTo(inPath, k) = Named(k)
    BY DEF AssignmentsTo, Assignments, PathParams
  <2>6. \A i \in DOMAIN req.query : req.query[i] # <<>>
    BY <2>4, PairsAreNotBlank
  <2>7. \A k : AssignmentsTo(req.query, k) = Asked(k)
    BY <2>6 DEF AssignmentsTo, Assignments
  <2>8. ASSUME NEW k
        PROVE  /\ k \in DOMAIN Assigned(inPath) <=> Named(k) # {}
               /\ k \in DOMAIN Assigned(inPath) => Assigned(inPath)[k] = req.words[Max(Named(k))]
    <3>1. /\ k \in DOMAIN Assigned(inPath) <=> Named(k) # {}
          /\ k \in DOMAIN Assigned(inPath) =>
               Max(Named(k)) \in Named(k) /\ Assigned(inPath)[k] = inPath[Max(Named(k))][2]
      <4>1. AssignmentsTo(inPath, k) = Named(k)
        BY <2>5
      <4> HIDE DEF inPath, Named
      <4> QED BY <2>3, <4>1, AssignedLast
    <3>2. \A i \in Named(k) : inPath[i][2] = req.words[i]
      BY DEF PathParams
    <3> QED BY <3>1, <3>2
  <2>9. ASSUME NEW k
        PROVE  /\ k \in DOMAIN Assigned(req.query) <=> Asked(k) # {}
               /\ k \in DOMAIN Assigned(req.query) =>
                    Assigned(req.query)[k] = req.query[Max(Asked(k))][2]
    <3>1. AssignmentsTo(req.query, k) = Asked(k)
      BY <2>7
    <3> HIDE DEF Asked
    <3> QED BY <2>4, <3>1, AssignedLast
  <2>10. \A i \in DOMAIN p : p[i].kind = "param" => p[i].name \in DOMAIN params
    <3> SUFFICES ASSUME NEW i \in DOMAIN p, p[i].kind = "param" PROVE p[i].name \in DOMAIN params
      OBVIOUS
    <3>1. i \in Named(p[i].name)
      OBVIOUS
    <3>2. p[i].name \in DOMAIN Assigned(inPath)
      BY <3>1, <2>8
    <3> QED BY <3>2, <2>2 DEF PutAll
  <2>11. ASSUME NEW k \in DOMAIN params
         PROVE  IF Named(k) # {} THEN params[k] = req.words[Max(Named(k))]
                ELSE Asked(k) # {} /\ params[k] = req.query[Max(Asked(k))][2]
    <3>1. /\ k \in DOMAIN Assigned(inPath) => params[k] = Assigned(inPath)[k]
          /\ k \notin DOMAIN Assigned(inPath) =>
               k \in DOMAIN Assigned(req.query) /\ params[k] = Assigned(req.query)[k]
      BY <2>2 DEF PutAll
    <3> HIDE DEF Named, Asked, inPath, params
    <3> QED BY <3>1, <2>8, <2>9
  <2> QED BY <2>1, <2>10, <2>11
<1> QED BY <1>1, Invariance, PTL

(* RouteDispatches, in a form that holds of the next state too. *)
AsksItsPaths ==
  \A req \in Requests :
    \/ /\ Route(req) = Status("NotFound")
       /\ \A p \in DOMAIN m_routes : ~Matches(p, req.words)
    \/ \E p \in DOMAIN m_routes : Matches(p, req.words) /\ Route(req) = Dispatch(p, req)

LEMMA RouteAsksItsPaths == IInv => AsksItsPaths
BY RouteDispatches DEF AsksItsPaths, IInv, TableInv

(* A call of AddRoute leaves the entries of the other paths as they are. *)
LEMMA OtherEntriesStay ==
  ASSUME IInv, Next
  PROVE  \E path \in DOMAIN m_routes' :
           /\ path = added'[Len(added')].path
           /\ DOMAIN m_routes' = DOMAIN m_routes \cup {path}
           /\ \A q \in DOMAIN m_routes : q # path => m_routes'[q] = m_routes[q]
<1>1. added \in Seq(RouteCalls)
  BY DEF IInv, TableInv
<1>2. PICK path \in Paths :
        /\ \E info : m_routes' = Put(m_routes, path, info)
        /\ \E c \in RouteCalls : c.path = path /\ added' = Append(added, c)
  BY DEF Next, AddRoute, AddRouteImpl, AddRouteThrows, Emplace, RouteCalls
<1>3. path = added'[Len(added')].path
  BY <1>1, <1>2
<1>4. /\ DOMAIN m_routes' = DOMAIN m_routes \cup {path}
      /\ \A q \in DOMAIN m_routes : q # path => m_routes'[q] = m_routes[q]
  BY <1>2 DEF Put
<1> QED BY <1>3, <1>4

(* A call of AddRoute for a path that does not match a request does not    *)
(* change the answer, unless it is ambiguous already.                      *)
THEOREM OtherRoutesDoNotMatter == Spec => UnrelatedRoutesDoNotInterfere
<1>1. IInv /\ AsksItsPaths /\ AsksItsPaths' /\ [Next]_vars
        => [\A req \in Requests :
              LET Fits == {p \in DOMAIN m_routes' : Matches(p, req.words)}
              IN  (\A p, q \in Fits : p = q) /\ added'[Len(added')].path \notin Fits
                    => Route(req)' = Route(req)]_vars
  <2> DEFINE Fits(req) == {p \in DOMAIN m_routes' : Matches(p, req.words)}
  <2> SUFFICES ASSUME IInv, AsksItsPaths, AsksItsPaths', Next, NEW req \in Requests,
                      \A p, q \in Fits(req) : p = q,
                      added'[Len(added')].path \notin Fits(req)
               PROVE  Route(req)' = Route(req)
    OBVIOUS
  <2>1. PICK path \in DOMAIN m_routes' :
           /\ path = added'[Len(added')].path
           /\ DOMAIN m_routes' = DOMAIN m_routes \cup {path}
           /\ \A q \in DOMAIN m_routes : q # path => m_routes'[q] = m_routes[q]
    BY OtherEntriesStay
  <2>2. ~Matches(path, req.words)
    BY <2>1
  <2>3. CASE \A p \in DOMAIN m_routes' : ~Matches(p, req.words)
    BY <2>1, <2>3 DEF AsksItsPaths, Status
  <2>4. ASSUME NEW p \in DOMAIN m_routes', Matches(p, req.words) PROVE Route(req)' = Route(req)
    <3>1. Fits(req) = {p}
      BY <2>4
    <3>2. p \in DOMAIN m_routes /\ m_routes'[p] = m_routes[p]
      BY <2>1, <2>2, <2>4
    <3>3. Dispatch(p, req)' = Dispatch(p, req)
      BY <3>2 DEF Dispatch, NamesFit
    <3>4. Route(req) = Dispatch(p, req)
      BY <2>1, <2>4, <3>1, <3>2 DEF AsksItsPaths
    <3>5. Route(req)' = Dispatch(p, req)'
      BY <2>4, <3>1 DEF AsksItsPaths
    <3> QED BY <3>3, <3>4, <3>5
  <2> QED BY <2>3, <2>4
<1> QED BY <1>1, Invariance, RouteAsksItsPaths, PTL DEF Spec, UnrelatedRoutesDoNotInterfere

-----------------------------------------------------------------------------
(* The unit test.                                                          *)

(* A request that matches none of the paths tried, and one that matches    *)
(* one of them.                                                            *)
LEMMA NoPathAnswers ==
  ASSUME IInv, NEW req, \A call \in Range(added) : ~Matches(call.path, req.words)
  PROVE  Route(req) = Status("NotFound")
<1>1. ASSUME NEW p \in DOMAIN m_routes PROVE ~Matches(p, req.words)
  <2>1. PICK i \in DOMAIN added : added[i].path = p
    BY DEF IInv, TableInv, TriedFor
  <2> QED BY <2>1 DEF Range
<1> QED BY <1>1, RouteDispatches DEF IInv, TableInv

(* The route of p answers req: with the handler added for the method, or   *)
(* that there is none.                                                     *)
AnsweredAt(p, req) ==
  /\ AddedAt(p, req.method) = {} => Route(req) = Status("MethodNotAllowed")
  /\ \A h : /\ AddedAt(p, req.method) # {}
            /\ \A i \in AddedAt(p, req.method) : added[i].handler = h
         => Route(req) = [handler |-> h,
              params |-> PutAll(Assigned(req.query), Assigned(PathParams(p, req.words)))]

LEMMA OnlyPathAnswers ==
  ASSUME IInv, NEW req, NEW p, Matches(p, req.words), ~HasGroup(p), AddedFor(p) # {},
         \A call \in Range(added) : Matches(call.path, req.words) => call.path = p
  PROVE  AnsweredAt(p, req)
<1>1. ASSUME NEW q \in DOMAIN m_routes, Matches(q, req.words) PROVE q = p
  <2>1. PICK i \in DOMAIN added : added[i].path = q
    BY DEF IInv, TableInv, TriedFor
  <2> QED BY <1>1, <2>1 DEF Range
<1>2. p \in DOMAIN m_routes
  <2>1. PICK i \in DOMAIN added : added[i].path = p
    BY DEF AddedFor, TriedFor
  <2>2. added[i] \in RouteCalls
    BY DEF IInv, TableInv
  <2>3. p \in Paths /\ TriedFor(p) # {}
    BY <2>1, <2>2 DEF RouteCalls, TriedFor
  <2> QED BY <2>3 DEF IInv, TableInv
<1>3. Route(req) = Dispatch(p, req)
  BY <1>1, <1>2, RouteDispatches DEF IInv, TableInv
<1>4. NamesFit(p)
  BY <1>2 DEF NamesFit, IInv, TableInv
<1>5. CASE AddedAt(p, req.method) = {}
  <2>1. req.method \notin DOMAIN m_routes[p].handlers
    BY <1>2, <1>5 DEF IInv, TableInv
  <2> QED BY <1>3, <1>4, <1>5, <2>1 DEF Dispatch, AnsweredAt
<1>6. CASE AddedAt(p, req.method) # {}
  <2>1. req.method \in Methods
    <3>1. PICK i \in AddedAt(p, req.method) : TRUE
      BY <1>6
    <3>2. added[i] \in RouteCalls /\ added[i].done /\ added[i].method = req.method
      BY DEF IInv, TableInv, AddedAt, AddedFor, TriedFor
    <3> QED BY <3>2 DEF RouteCalls
  <2>2. req.method \in DOMAIN m_routes[p].handlers
    BY <1>2, <1>6, <2>1 DEF IInv, TableInv
  <2>3. PICK i \in AddedAt(p, req.method) : m_routes[p].handlers[req.method] = added[i].handler
    BY <1>2, <2>2 DEF IInv, TableInv
  <2> QED BY <1>3, <1>4, <1>6, <2>2, <2>3 DEF Dispatch, AnsweredAt
<1> QED BY <1>5, <1>6

(* What there is in the table for the registrations of a test, if no other *)
(* call matches its request.                                               *)
LEMMA RegistrationsOf ==
  ASSUME IInv, NEW p, NEW words, NEW calls,
         \A call \in calls : call.path = p /\ call.done,
         {call \in Range(added) : call \in calls \/ Matches(call.path, words)} = calls
  PROVE  /\ \A call \in Range(added) : Matches(call.path, words) => call \in calls
         /\ calls # {} => AddedFor(p) # {}
         /\ Matches(p, words) => \A m :
              /\ AddedAt(p, m) = {} <=> {call \in calls : call.method = m} = {}
              /\ \A i \in AddedAt(p, m) : added[i] \in calls /\ added[i].method = m
<1>1. \A call \in calls : \E i \in DOMAIN added : added[i] = call
  BY DEF Range
<1>2. \A i \in DOMAIN added : added[i] \in Range(added)
  BY DEF Range
<1>3. ASSUME Matches(p, words), NEW m, NEW i \in AddedAt(p, m)
      PROVE  added[i] \in calls /\ added[i].method = m
  BY <1>2, <1>3 DEF AddedAt, AddedFor, TriedFor
<1>4. ASSUME NEW call \in calls
      PROVE  AddedFor(p) # {} /\ AddedAt(p, call.method) # {}
  <2>1. PICK i \in DOMAIN added : added[i] = call
    BY <1>1
  <2> QED BY <2>1 DEF AddedAt, AddedFor, TriedFor
<1> QED BY <1>3, <1>4

(* The paths of the test, and which of its urls they match.                *)
LEMMA TestSegments ==
  /\ Len(Test) = 1 /\ DOMAIN Test = 1..1
  /\ Test[1].kind = "literal" /\ Test[1].text = "test"
  /\ Len(TestSlash) = 2 /\ DOMAIN TestSlash = 1..2
  /\ TestSlash[1].kind = "literal" /\ TestSlash[1].text = "test"
  /\ TestSlash[2].kind = "literal" /\ TestSlash[2].text = Empty
  /\ Len(Subtest) = 3 /\ DOMAIN Subtest = 1..3
  /\ Subtest[1].kind = "literal" /\ Subtest[1].text = "test"
  /\ Subtest[2].kind = "param" /\ Subtest[2].name = "id"
  /\ Subtest[3].kind = "literal" /\ Subtest[3].text = "subtest"
<1>1. ASSUME NEW text
      PROVE  /\ Literal(text).kind = "literal" /\ Literal(text).text = text
             /\ Param(text).kind = "param" /\ Param(text).name = text
  BY DEF Literal, Param
<1>2. ASSUME NEW x
      PROVE  Len(<<x>>) = 1 /\ DOMAIN <<x>> = 1..1 /\ <<x>>[1] = x
  OBVIOUS
<1>3. ASSUME NEW x, NEW y
      PROVE  Len(<<x, y>>) = 2 /\ DOMAIN <<x, y>> = 1..2 /\ <<x, y>>[1] = x /\ <<x, y>>[2] = y
  OBVIOUS
<1>4. ASSUME NEW x, NEW y, NEW z
      PROVE  /\ Len(<<x, y, z>>) = 3 /\ DOMAIN <<x, y, z>> = 1..3
             /\ <<x, y, z>>[1] = x /\ <<x, y, z>>[2] = y /\ <<x, y, z>>[3] = z
  OBVIOUS
<1>5. Len(Test) = 1 /\ DOMAIN Test = 1..1 /\ Test[1] = Literal("test")
  BY <1>2 DEF Test
<1>6. /\ Len(TestSlash) = 2 /\ DOMAIN TestSlash = 1..2
      /\ TestSlash[1] = Literal("test") /\ TestSlash[2] = Literal(Empty)
  BY <1>3 DEF TestSlash
<1>7. /\ Len(Subtest) = 3 /\ DOMAIN Subtest = 1..3
      /\ Subtest[1] = Literal("test") /\ Subtest[2] = Param("id")
      /\ Subtest[3] = Literal("subtest")
  BY <1>4 DEF Subtest
<1> QED BY <1>1, <1>5, <1>6, <1>7

LEMMA TestPathsMatch ==
  /\ \A p \in TestPaths : ~HasGroup(p)
  /\ Matches(Test, <<"test">>) /\ ~Matches(Test, <<"test_2">>)
  /\ Matches(TestSlash, <<"test", Empty>>)
  /\ \A id \in {"135", "23"} : Matches(Subtest, <<"test", id, "subtest">>)
  /\ ~Matches(Subtest, <<"test", "135">>)
<1> DEFINE Fits(segment, word) ==
             IF segment.kind = "literal" THEN word = segment.text ELSE word # Empty
<1>2. ~HasGroup(Test) /\ ~HasGroup(TestSlash) /\ ~HasGroup(Subtest)
  <2>1. ~HasGroup(Test)
    BY TestSegments DEF HasGroup
  <2>2. ~HasGroup(TestSlash)
    BY TestSegments DEF HasGroup
  <2>3. ~HasGroup(Subtest)
    BY TestSegments DEF HasGroup
  <2> QED BY <2>1, <2>2, <2>3
<1>3. ASSUME NEW path, NEW words, Len(path) = Len(words),
             \A i \in DOMAIN path : Fits(path[i], words[i])
      PROVE  Matches(path, words)
  BY <1>3 DEF Matches
<1>4. Matches(Test, <<"test">>)
  <2>1. Len(<<"test">>) = 1 /\ <<"test">>[1] = "test"
    OBVIOUS
  <2>2. Fits(Test[1], "test")
    BY TestSegments
  <2> HIDE DEF Fits
  <2> QED BY <1>3, <2>1, <2>2, TestSegments
<1>5. ~Matches(Test, <<"test_2">>)
  <2>1. <<"test_2">>[1] = "test_2" /\ 1 \in DOMAIN Test
    BY TestSegments
  <2>2. ~Fits(Test[1], "test_2")
    BY TestSegments
  <2> QED BY <2>1, <2>2 DEF Matches
<1>6. Matches(TestSlash, <<"test", Empty>>)
  <2>1. Len(<<"test", Empty>>) = 2 /\ <<"test", Empty>>[1] = "test" /\ <<"test", Empty>>[2] = Empty
    OBVIOUS
  <2>2. Fits(TestSlash[1], "test") /\ Fits(TestSlash[2], Empty)
    BY TestSegments
  <2> HIDE DEF Fits
  <2> QED BY <1>3, <2>1, <2>2, TestSegments
<1>7. ASSUME NEW id \in {"135", "23"} PROVE Matches(Subtest, <<"test", id, "subtest">>)
  <2> DEFINE words == <<"test", id, "subtest">>
  <2>1. Len(words) = 3 /\ words[1] = "test" /\ words[2] = id /\ words[3] = "subtest"
    OBVIOUS
  <2>2. id # Empty
    <3>1. "135" # "" /\ "23" # ""
      OBVIOUS
    <3> QED BY <3>1 DEF Empty
  <2>3. Fits(Subtest[1], "test") /\ Fits(Subtest[2], id) /\ Fits(Subtest[3], "subtest")
    BY <2>2, TestSegments
  <2> HIDE DEF Fits, words
  <2>4. Matches(Subtest, words)
    BY <1>3, <2>1, <2>3, TestSegments
  <2> QED BY <2>4 DEF words
<1>8. ~Matches(Subtest, <<"test", "135">>)
  <2>1. Len(<<"test", "135">>) = 2
    OBVIOUS
  <2> QED BY <2>1, TestSegments DEF Matches
<1> QED BY <1>2, <1>4, <1>5, <1>6, <1>7, <1>8 DEF TestPaths

(* What the handlers of the test are given.                                *)
Params(path, words, query) == PutAll(Assigned(query), Assigned(PathParams(path, words)))

LEMMA AssignedOnce ==
  ASSUME NEW pairs, Assignments(pairs) \subseteq Nat,
         \A i, j \in Assignments(pairs) : pairs[i][1] = pairs[j][1] => i = j
  PROVE  /\ DOMAIN Assigned(pairs) = {pairs[i][1] : i \in Assignments(pairs)}
         /\ \A i \in Assignments(pairs) : Assigned(pairs)[pairs[i][1]] = pairs[i][2]
<1>1. ASSUME NEW i \in Assignments(pairs) PROVE Assigned(pairs)[pairs[i][1]] = pairs[i][2]
  <2>1. AssignmentsTo(pairs, pairs[i][1]) = {i}
    BY DEF AssignmentsTo
  <2>2. Max({i}) = i
    <3>1. i \in Nat
      OBVIOUS
    <3> QED BY <3>1, GreatestElement
  <2> QED BY <2>1, <2>2 DEF Assigned
<1> QED BY <1>1 DEF Assigned

LEMMA TestParams ==
  /\ Params(Test, <<"test">>, <<>>) = <<>>
  /\ Params(Subtest, <<"test", "135", "subtest">>, <<>>) = [id |-> "135"]
  /\ Params(TestSlash, <<"test", Empty>>, KeyValue) = [key |-> "value"]
  /\ Params(Subtest, <<"test", "23", "subtest">>, TwoKeys) =
       [id |-> "23", key |-> "value", key2 |-> "value2"]
<1>1. DOMAIN Assigned(<<>>) = {}
  BY DEF Assigned, Assignments
<1>2. DOMAIN Assigned(PathParams(Test, <<"test">>)) = {}
  <2>1. Assignments(PathParams(Test, <<"test">>)) = {}
    BY TestSegments DEF Assignments, PathParams
  <2> QED BY <2>1 DEF Assigned
<1>3. DOMAIN Assigned(PathParams(TestSlash, <<"test", Empty>>)) = {}
  <2>1. Assignments(PathParams(TestSlash, <<"test", Empty>>)) = {}
    BY TestSegments DEF Assignments, PathParams
  <2> QED BY <2>1 DEF Assigned
<1>4. ASSUME NEW pairs, NEW n \in Nat, Assignments(pairs) = {n},
             NEW key, NEW value, pairs[n] = <<key, value>>
      PROVE  DOMAIN Assigned(pairs) = {key} /\ Assigned(pairs)[key] = value
  <2>1. pairs[n][1] = key /\ pairs[n][2] = value
    BY <1>4
  <2>2. \A i, j \in Assignments(pairs) : i = j
    BY <1>4
  <2>3. /\ DOMAIN Assigned(pairs) = {pairs[i][1] : i \in {n}}
        /\ Assigned(pairs)[pairs[n][1]] = pairs[n][2]
    BY <1>4, <2>2, AssignedOnce
  <2> QED BY <2>1, <2>3
<1>5. ASSUME NEW id
      PROVE  LET f == Assigned(PathParams(Subtest, <<"test", id, "subtest">>))
             IN  DOMAIN f = {"id"} /\ f["id"] = id
  <2> DEFINE pairs == PathParams(Subtest, <<"test", id, "subtest">>)
  <2>1. DOMAIN pairs = {1, 2, 3} /\ pairs[1] = <<>> /\ pairs[2] = <<"id", id>> /\ pairs[3] = <<>>
    BY TestSegments DEF PathParams
  <2>2. <<"id", id>> # <<>> /\ {1, 2, 3} = 1..3
    OBVIOUS
  <2> HIDE DEF pairs
  <2>3. Assignments(pairs) = {2}
    BY <2>1, <2>2 DEF Assignments
  <2>4. /\ DOMAIN Assigned(pairs) = {pairs[i][1] : i \in {2}}
        /\ Assigned(pairs)[pairs[2][1]] = pairs[2][2]
    <3>1. Assignments(pairs) \subseteq Nat /\ \A i, j \in Assignments(pairs) : i = j
      BY <2>3
    <3> QED BY <2>3, <3>1, AssignedOnce
  <2>5. pairs[2][1] = "id" /\ pairs[2][2] = id
    BY <2>1
  <2>6. DOMAIN Assigned(pairs) = {"id"} /\ Assigned(pairs)["id"] = id
    BY <2>4, <2>5
  <2> QED BY <2>6 DEF pairs
<1>6. LET f == Assigned(KeyValue) IN DOMAIN f = {"key"} /\ f["key"] = "value"
  <2>1. DOMAIN KeyValue = 1..1 /\ KeyValue[1] = <<"key", "value">>
    BY DEF KeyValue
  <2>2. Assignments(KeyValue) = {1}
    BY <2>1 DEF Assignments
  <2>3. DOMAIN Assigned(KeyValue) = {"key"} /\ Assigned(KeyValue)["key"] = "value"
    <3>1. \E n \in Nat : Assignments(KeyValue) = {n} /\ KeyValue[n] = <<"key", "value">>
      BY <2>1, <2>2
    <3> QED BY <3>1, <1>4
  <2> QED BY <2>3
<1>7. LET f == Assigned(TwoKeys)
      IN  DOMAIN f = {"key", "key2"} /\ f["key"] = "value" /\ f["key2"] = "value2"
  <2>1. /\ DOMAIN TwoKeys = 1..2
        /\ TwoKeys[1] = <<"key", "value">> /\ TwoKeys[2] = <<"key2", "value2">>
    BY DEF TwoKeys, KeyValue
  <2>2. Assignments(TwoKeys) = {1, 2}
    BY <2>1 DEF Assignments
  <2>3. /\ TwoKeys[1][1] = "key" /\ TwoKeys[1][2] = "value"
        /\ TwoKeys[2][1] = "key2" /\ TwoKeys[2][2] = "value2"
    BY <2>1
  <2>4. /\ DOMAIN Assigned(TwoKeys) = {TwoKeys[i][1] : i \in {1, 2}}
        /\ \A i \in {1, 2} : Assigned(TwoKeys)[TwoKeys[i][1]] = TwoKeys[i][2]
    <3>1. /\ Assignments(TwoKeys) \subseteq Nat
          /\ \A i, j \in Assignments(TwoKeys) : TwoKeys[i][1] = TwoKeys[j][1] => i = j
      BY <2>2, <2>3
    <3>2. /\ DOMAIN Assigned(TwoKeys) = {TwoKeys[i][1] : i \in Assignments(TwoKeys)}
          /\ \A i \in Assignments(TwoKeys) : Assigned(TwoKeys)[TwoKeys[i][1]] = TwoKeys[i][2]
      BY <3>1, AssignedOnce
    <3> QED BY <2>2, <3>2
  <2> QED BY <2>3, <2>4
<1>8. ASSUME NEW p, NEW words, NEW query
      PROVE  LET f == Params(p, words, query) IN f = [k \in DOMAIN f |-> f[k]]
  BY DEF Params, PutAll
<1>9. Params(Test, <<"test">>, <<>>) = <<>>
  <2>1. DOMAIN Params(Test, <<"test">>, <<>>) = {}
    BY <1>1, <1>2 DEF Params, PutAll
  <2> QED BY <2>1, <1>8
<1>10. Params(Subtest, <<"test", "135", "subtest">>, <<>>) = [id |-> "135"]
  <2> DEFINE f == Params(Subtest, <<"test", "135", "subtest">>, <<>>)
  <2>1. DOMAIN f = {"id"} /\ f["id"] = "135"
    BY <1>1, <1>5 DEF Params, PutAll
  <2> HIDE DEF f
  <2>2. f = [k \in DOMAIN f |-> f[k]]
    BY <1>8 DEF f
  <2>3. f = [id |-> "135"]
    BY <2>1, <2>2
  <2> QED BY <2>3 DEF f
<1>11. Params(TestSlash, <<"test", Empty>>, KeyValue) = [key |-> "value"]
  <2> DEFINE f == Params(TestSlash, <<"test", Empty>>, KeyValue)
  <2>1. DOMAIN f = {"key"} /\ f["key"] = "value"
    BY <1>3, <1>6 DEF Params, PutAll
  <2> HIDE DEF f
  <2>2. f = [k \in DOMAIN f |-> f[k]]
    BY <1>8 DEF f
  <2>3. f = [key |-> "value"]
    BY <2>1, <2>2
  <2> QED BY <2>3 DEF f
<1>12. Params(Subtest, <<"test", "23", "subtest">>, TwoKeys) =
         [id |-> "23", key |-> "value", key2 |-> "value2"]
  <2> DEFINE f == Params(Subtest, <<"test", "23", "subtest">>, TwoKeys)
  <2>1. /\ DOMAIN f = {"id", "key", "key2"}
        /\ f["id"] = "23" /\ f["key"] = "value" /\ f["key2"] = "value2"
    BY <1>5, <1>7 DEF Params, PutAll
  <2> HIDE DEF f
  <2>2. f = [k \in DOMAIN f |-> f[k]]
    BY <1>8 DEF f
  <2>3. f = [id |-> "23", key |-> "value", key2 |-> "value2"]
    BY <2>1, <2>2
  <2> QED BY <2>3 DEF f
<1> QED BY <1>9, <1>10, <1>11, <1>12

(* A case of the test that demands an answer of its own registrations, if  *)
(* nothing else that was registered matches the request.                   *)
Holds(calls, req, answer) ==
  {call \in Range(added) : call \in Range(calls) \/ Matches(call.path, req.words)} = Range(calls)
    => Route(req) = answer

LEMMA NothingMatches ==
  ASSUME IInv, NEW calls, NEW req, \A call \in Range(calls) : ~Matches(call.path, req.words)
  PROVE  Holds(calls, req, Status("NotFound"))
BY NoPathAnswers DEF Holds

LEMMA PathMatches ==
  ASSUME IInv, NEW calls, NEW req, NEW p, Matches(p, req.words), ~HasGroup(p),
         Range(calls) # {}, \A call \in Range(calls) : call.path = p /\ call.done
  PROVE  /\ (\A call \in Range(calls) : call.method # req.method)
              => Holds(calls, req, Status("MethodNotAllowed"))
         /\ \A h : /\ \E call \in Range(calls) : call.method = req.method
                   /\ \A call \in Range(calls) : call.method = req.method => call.handler = h
              => Holds(calls, req, Calls(h, Params(p, req.words, req.query)))
<1> DEFINE set == Range(calls)
<1> SUFFICES ASSUME {call \in Range(added) : call \in set \/ Matches(call.path, req.words)} = set
             PROVE  /\ (\A call \in set : call.method # req.method)
                         => Route(req) = Status("MethodNotAllowed")
                    /\ \A h : /\ \E call \in set : call.method = req.method
                              /\ \A call \in set : call.method = req.method => call.handler = h
                         => Route(req) = Calls(h, Params(p, req.words, req.query))
  BY DEF Holds
<1>1. set # {} /\ \A call \in set : call.path = p /\ call.done
  OBVIOUS
<1> HIDE DEF set
<1>2. /\ \A call \in Range(added) : Matches(call.path, req.words) => call \in set
      /\ AddedFor(p) # {}
      /\ \A m : /\ AddedAt(p, m) = {} <=> {call \in set : call.method = m} = {}
                /\ \A i \in AddedAt(p, m) : added[i] \in set /\ added[i].method = m
  BY <1>1, RegistrationsOf
<1>3. \A call \in Range(added) : Matches(call.path, req.words) => call.path = p
  BY <1>1, <1>2
<1>4. /\ AddedAt(p, req.method) = {} => Route(req) = Status("MethodNotAllowed")
      /\ \A h : AddedAt(p, req.method) # {}
              /\ (\A i \in AddedAt(p, req.method) : added[i].handler = h)
           => Route(req) = [handler |-> h, params |-> Params(p, req.words, req.query)]
  <2>1. AnsweredAt(p, req)
    BY <1>2, <1>3, OnlyPathAnswers
  <2> QED BY <2>1 DEF AnsweredAt, Params
<1>5. ASSUME \A call \in set : call.method # req.method
      PROVE  Route(req) = Status("MethodNotAllowed")
  BY <1>2, <1>4, <1>5
<1>6. ASSUME NEW h, \E call \in set : call.method = req.method,
             \A call \in set : call.method = req.method => call.handler = h
      PROVE  Route(req) = Calls(h, Params(p, req.words, req.query))
  <2>1. AddedAt(p, req.method) # {}
    BY <1>2, <1>6
  <2>2. \A i \in AddedAt(p, req.method) : added[i].handler = h
    BY <1>2, <1>6
  <2> QED BY <1>4, <2>1, <2>2 DEF Calls
<1> QED BY <1>5, <1>6

(* A test that registers one path, for one method or for two.              *)
LEMMA TestLists ==
  /\ Range(<<>>) = {}
  /\ \A x : Range(<<x>>) = {x}
  /\ \A x, y : Range(<<x, y>>) = {x, y}
<1>1. Range(<<>>) = {}
  BY DEF Range
<1>2. ASSUME NEW x PROVE Range(<<x>>) = {x}
  <2>1. DOMAIN <<x>> = {1} /\ <<x>>[1] = x
    OBVIOUS
  <2> QED BY <2>1 DEF Range
<1>3. ASSUME NEW x, NEW y PROVE Range(<<x, y>>) = {x, y}
  <2>1. DOMAIN <<x, y>> = {1, 2} /\ <<x, y>>[1] = x /\ <<x, y>>[2] = y
    OBVIOUS
  <2> QED BY <2>1 DEF Range
<1> QED BY <1>1, <1>2, <1>3

LEMMA TestRecords ==
  /\ \A p, m, h : /\ Added(p, m, h).path = p /\ Added(p, m, h).method = m
                  /\ Added(p, m, h).handler = h /\ Added(p, m, h).done
  /\ \A w, q : Get(w, q).method = "Get" /\ Get(w, q).words = w /\ Get(w, q).query = q
  /\ \A w : Post(w).method = "Post" /\ Post(w).words = w /\ Post(w).query = <<>>
<1>1. ASSUME NEW p, NEW m, NEW h
      PROVE  /\ Added(p, m, h).path = p /\ Added(p, m, h).method = m
             /\ Added(p, m, h).handler = h /\ Added(p, m, h).done
  BY DEF Added
<1>2. ASSUME NEW w, NEW q
      PROVE  Get(w, q).method = "Get" /\ Get(w, q).words = w /\ Get(w, q).query = q
  BY DEF Get
<1>3. ASSUME NEW w
      PROVE  Post(w).method = "Post" /\ Post(w).words = w /\ Post(w).query = <<>>
  BY DEF Post
<1> QED BY <1>1, <1>2, <1>3

(* What the unit test requires of the router holds whatever else was       *)
(* registered, before or after, as long as the request does not match it.  *)
THEOREM UnitTestHoldsBesideOtherRoutes == Spec => []TestHoldsBesideOtherRoutes
<1>1. ASSUME IInv PROVE TestHoldsBesideOtherRoutes
  <2> DEFINE get == Added(Test, "Get", "ok")
             post == Added(Test, "Post", "processing")
             slash == Added(TestSlash, "Get", "ok")
             sub == Added(Subtest, "Get", "ok")
  <2>1. ASSUME NEW req
        PROVE  Holds(<<>>, req, Status("NotFound"))
    BY <1>1, TestLists, NothingMatches
  <2>2. ASSUME NEW p, NEW m, NEW h, NEW req, ~Matches(p, req.words)
        PROVE  Holds(<<Added(p, m, h)>>, req, Status("NotFound"))
    <3> DEFINE call == Added(p, m, h)
    <3>1. Range(<<call>>) = {call} /\ call.path = p
      BY TestLists, TestRecords
    <3> HIDE DEF call
    <3>2. Holds(<<call>>, req, Status("NotFound"))
      BY <1>1, <2>2, <3>1, NothingMatches
    <3> QED BY <3>2 DEF call
  <2>3. ASSUME NEW p, NEW m, NEW h, NEW req, Matches(p, req.words), ~HasGroup(p)
        PROVE  /\ m # req.method => Holds(<<Added(p, m, h)>>, req, Status("MethodNotAllowed"))
               /\ m = req.method
                    => Holds(<<Added(p, m, h)>>, req, Calls(h, Params(p, req.words, req.query)))
    <3> DEFINE call == Added(p, m, h)
    <3>1. /\ Range(<<call>>) = {call} /\ call.path = p /\ call.method = m
          /\ call.handler = h /\ call.done
      BY TestLists, TestRecords
    <3> HIDE DEF call
    <3>2. /\ m # req.method => Holds(<<call>>, req, Status("MethodNotAllowed"))
          /\ m = req.method
               => Holds(<<call>>, req, Calls(h, Params(p, req.words, req.query)))
      BY <1>1, <2>3, <3>1, PathMatches
    <3> QED BY <3>2 DEF call
  <2>4. ASSUME NEW p, NEW m1, NEW h1, NEW m2, NEW h2, m1 # m2,
               NEW req, Matches(p, req.words), ~HasGroup(p)
        PROVE  LET both == <<Added(p, m1, h1), Added(p, m2, h2)>>
               IN  /\ m1 = req.method => Holds(both, req, Calls(h1, Params(p, req.words, req.query)))
                   /\ m2 = req.method => Holds(both, req, Calls(h2, Params(p, req.words, req.query)))
    <3> DEFINE call1 == Added(p, m1, h1)
               call2 == Added(p, m2, h2)
               both == <<call1, call2>>
    <3>1. /\ call1.path = p /\ call1.method = m1 /\ call1.handler = h1 /\ call1.done
          /\ call2.path = p /\ call2.method = m2 /\ call2.handler = h2 /\ call2.done
      BY TestRecords
    <3> HIDE DEF call1, call2
    <3>2. Range(both) = {call1, call2}
      BY TestLists
    <3> HIDE DEF both
    <3>3. Range(both) # {} /\ \A call \in Range(both) : call.path = p /\ call.done
      BY <3>1, <3>2
    <3>4. m1 = req.method => Holds(both, req, Calls(h1, Params(p, req.words, req.query)))
      <4>1. ASSUME m1 = req.method
            PROVE  /\ \E call \in Range(both) : call.method = req.method
                   /\ \A call \in Range(both) : call.method = req.method => call.handler = h1
        BY <2>4, <3>1, <3>2, <4>1
      <4> QED BY <1>1, <2>4, <3>3, <4>1, PathMatches
    <3>5. m2 = req.method => Holds(both, req, Calls(h2, Params(p, req.words, req.query)))
      <4>1. ASSUME m2 = req.method
            PROVE  /\ \E call \in Range(both) : call.method = req.method
                   /\ \A call \in Range(both) : call.method = req.method => call.handler = h2
        BY <2>4, <3>1, <3>2, <4>1
      <4> QED BY <1>1, <2>4, <3>3, <4>1, PathMatches
    <3> QED BY <3>4, <3>5 DEF both, call1, call2
  <2>5. /\ Holds(<<get>>, Get(<<"test">>, <<>>), Calls("ok", <<>>))
        /\ Holds(<<get>>, Get(<<"test_2">>, <<>>), Status("NotFound"))
        /\ Holds(<<get>>, Post(<<"test">>), Status("MethodNotAllowed"))
    <3>1. ~HasGroup(Test)
      BY TestPathsMatch DEF TestPaths
    <3>2. Holds(<<get>>, Get(<<"test">>, <<>>), Calls("ok", <<>>))
      <4> DEFINE req == Get(<<"test">>, <<>>)
      <4>1. req.method = "Get" /\ Params(Test, req.words, req.query) = <<>> /\ Matches(Test, req.words)
        BY TestRecords, TestPathsMatch, TestParams
      <4> HIDE DEF req
      <4>2. Holds(<<get>>, req, Calls("ok", <<>>))
        BY <2>3, <3>1, <4>1
      <4> QED BY <4>2 DEF req
    <3>3. Holds(<<get>>, Get(<<"test_2">>, <<>>), Status("NotFound"))
      <4> DEFINE req == Get(<<"test_2">>, <<>>)
      <4>1. ~Matches(Test, req.words)
        BY TestRecords, TestPathsMatch
      <4> HIDE DEF req
      <4>2. Holds(<<get>>, req, Status("NotFound"))
        BY <2>2, <4>1
      <4> QED BY <4>2 DEF req
    <3>4. Holds(<<get>>, Post(<<"test">>), Status("MethodNotAllowed"))
      <4> DEFINE req == Post(<<"test">>)
      <4>1. "Get" # req.method /\ Matches(Test, req.words)
        BY TestRecords, TestPathsMatch
      <4> HIDE DEF req
      <4>2. Holds(<<get>>, req, Status("MethodNotAllowed"))
        BY <2>3, <3>1, <4>1
      <4> QED BY <4>2 DEF req
    <3> QED BY <3>2, <3>3, <3>4
  <2>6. /\ Holds(<<get, post>>, Get(<<"test">>, <<>>), Calls("ok", <<>>))
        /\ Holds(<<get, post>>, Post(<<"test">>), Calls("processing", <<>>))
    <3>1. ~HasGroup(Test) /\ "Get" # "Post"
      BY TestPathsMatch DEF TestPaths
    <3>2. Holds(<<get, post>>, Get(<<"test">>, <<>>), Calls("ok", <<>>))
      <4> DEFINE req == Get(<<"test">>, <<>>)
      <4>1. req.method = "Get" /\ Params(Test, req.words, req.query) = <<>> /\ Matches(Test, req.words)
        BY TestRecords, TestPathsMatch, TestParams
      <4> HIDE DEF req
      <4>2. Holds(<<get, post>>, req, Calls("ok", <<>>))
        BY <2>4, <3>1, <4>1
      <4> QED BY <4>2 DEF req
    <3>3. Holds(<<get, post>>, Post(<<"test">>), Calls("processing", <<>>))
      <4> DEFINE req == Post(<<"test">>)
      <4>1. req.method = "Post" /\ Params(Test, req.words, req.query) = <<>> /\ Matches(Test, req.words)
        BY TestRecords, TestPathsMatch, TestParams
      <4> HIDE DEF req
      <4>2. Holds(<<get, post>>, req, Calls("processing", <<>>))
        BY <2>4, <3>1, <4>1
      <4> QED BY <4>2 DEF req
    <3> QED BY <3>2, <3>3
  <2>7. /\ Holds(<<sub>>, Get(<<"test", "135", "subtest">>, <<>>), Calls("ok", [id |-> "135"]))
        /\ Holds(<<sub>>, Get(<<"test", "135">>, <<>>), Status("NotFound"))
        /\ Holds(<<sub>>, Get(<<"test", "23", "subtest">>, TwoKeys),
                 Calls("ok", [id |-> "23", key |-> "value", key2 |-> "value2"]))
    <3>1. ~HasGroup(Subtest)
      BY TestPathsMatch DEF TestPaths
    <3>2. Holds(<<sub>>, Get(<<"test", "135", "subtest">>, <<>>), Calls("ok", [id |-> "135"]))
      <4> DEFINE req == Get(<<"test", "135", "subtest">>, <<>>)
                 params == [id |-> "135"]
      <4>1. req.method = "Get" /\ Params(Subtest, req.words, req.query) = params
        BY TestRecords, TestParams
      <4>2. Matches(Subtest, req.words)
        BY TestRecords, TestPathsMatch
      <4> HIDE DEF req, params
      <4>3. Holds(<<sub>>, req, Calls("ok", params))
        BY <2>3, <3>1, <4>1, <4>2
      <4> QED BY <4>3 DEF req, params
    <3>3. Holds(<<sub>>, Get(<<"test", "135">>, <<>>), Status("NotFound"))
      <4> DEFINE req == Get(<<"test", "135">>, <<>>)
      <4>1. ~Matches(Subtest, req.words)
        BY TestRecords, TestPathsMatch
      <4> HIDE DEF req
      <4>2. Holds(<<sub>>, req, Status("NotFound"))
        BY <2>2, <4>1
      <4> QED BY <4>2 DEF req
    <3>4. Holds(<<sub>>, Get(<<"test", "23", "subtest">>, TwoKeys),
                Calls("ok", [id |-> "23", key |-> "value", key2 |-> "value2"]))
      <4> DEFINE req == Get(<<"test", "23", "subtest">>, TwoKeys)
                 params == [id |-> "23", key |-> "value", key2 |-> "value2"]
      <4>1. req.method = "Get" /\ Params(Subtest, req.words, req.query) = params
        BY TestRecords, TestParams
      <4>2. Matches(Subtest, req.words)
        BY TestRecords, TestPathsMatch
      <4> HIDE DEF req, params
      <4>3. Holds(<<sub>>, req, Calls("ok", params))
        BY <2>3, <3>1, <4>1, <4>2
      <4> QED BY <4>3 DEF req, params
    <3> QED BY <3>2, <3>3, <3>4
  <2>8. Holds(<<slash>>, Get(<<"test", Empty>>, KeyValue), Calls("ok", [key |-> "value"]))
    <3>1. ~HasGroup(TestSlash)
      BY TestPathsMatch DEF TestPaths
    <3> DEFINE req == Get(<<"test", Empty>>, KeyValue)
               params == [key |-> "value"]
    <3>2. req.method = "Get" /\ Params(TestSlash, req.words, req.query) = params
      BY TestRecords, TestParams
    <3>3. Matches(TestSlash, req.words)
      BY TestRecords, TestPathsMatch
    <3> HIDE DEF req, params
    <3>4. Holds(<<slash>>, req, Calls("ok", params))
      BY <2>3, <3>1, <3>2, <3>3
    <3> QED BY <3>4 DEF req, params
  <2>9. ASSUME NEW calls, NEW req, NEW answer, Holds(calls, req, answer),
               NEW case, case = <<calls, req, answer>>
        PROVE  Holds(case[1], case[2], case[3])
    BY <2>9
  <2>10. \A case \in RoutingCases : Holds(case[1], case[2], case[3])
    BY <2>1, <2>5, <2>6, <2>9 DEF RoutingCases
  <2>11. \A case \in ParamCases : Holds(case[1], case[2], case[3])
    BY <2>7, <2>8, <2>9 DEF ParamCases
  <2>12. \A case \in Cases : Holds(case[1], case[2], case[3])
    BY <2>10, <2>11 DEF Cases
  <2> QED BY <2>12 DEF Holds, TestHoldsBesideOtherRoutes
<1> QED BY <1>1, Invariance, PTL
=============================================================================
